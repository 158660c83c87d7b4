---------------------------- MODULE ToolingProofs ----------------------------
(***************************************************************************)
(* What holds of the commands on any project and of the language server    *)
(* for any number of documents, texts, messages and handlers under way.    *)
(* Only bundle and format write, each only the file it was told to: what   *)
(* bundle writes builds, and without edits in between it holds every other *)
(* file whole, where its manifest says, and format changes nothing but the *)
(* layout.  Undisturbed, run runs what it checked, though it reads every   *)
(* file twice, and a test of the project says what builds of its files     *)
(* would say.  What the server shows of a document is what the client has  *)
(* there, as long as handlers of the same document do not overlap,         *)
(* whatever those of the others do meanwhile.                              *)
(***************************************************************************)
EXTENDS Tooling, SequenceFacts

-----------------------------------------------------------------------------
(* The inductive invariant                                                 *)

\* A document is closed for the client or has one of the texts it sends there.
Known ==
  /\ messages \in Nat /\ DOMAIN handlers \subseteq 1 .. messages
  /\ \A h \in DOMAIN handlers : handlers[h].uri \in Documents
  /\ opened \in [Documents -> Typed \union {Closed}]
  /\ DOMAIN shown = Documents

\* A handler that is alone with its document carries what the client has there
\* now: the text it sent last, or that it closed it.
Carries(h, uri) ==
  \/ /\ handlers[h].kind \in {"open", "change"}
     /\ opened[uri] # Closed
     /\ Last(handlers[h].texts) = opened[uri]
  \/ /\ handlers[h].kind = "close" /\ ~handlers[h].stored
     /\ opened[uri] = Closed

Alike(uri) ==
  /\ \A h \in Handling(uri) : Handling(uri) = {h} /\ Carries(h, uri)
  /\ opened[uri] # Closed /\ Handling(uri) = {} =>
       shown[uri] = Diagnosed[opened[uri]]

SInv == Known /\ \A uri \in Documents \ overlap : Alike(uri)

-----------------------------------------------------------------------------
LEMMA InitSInv == Init => SInv
<1> SUFFICES ASSUME Init PROVE SInv
  OBVIOUS
<1>1. /\ handlers = <<>> /\ messages = 0
      /\ shown = [uri \in Documents |-> Unshown]
      /\ opened = [uri \in Documents |-> Closed]
  BY DEF Init, ServerInit
<1>2. DOMAIN handlers = {}
  BY <1>1
<1>3. \A uri \in Documents : Handling(uri) = {} /\ opened[uri] = Closed
  BY <1>1, <1>2 DEF Handling
<1> QED BY <1>1, <1>2, <1>3 DEF SInv, Known, Alike
-----------------------------------------------------------------------------
(* The steps of the server                                                 *)

\* A message of the client about a document.
LEMMA SentHandles ==
  ASSUME SInv, NEW kind, NEW uri \in Documents, NEW texts, Sent(kind, uri, texts)
  PROVE  LET new == messages + 1
             handler == [kind |-> kind, uri |-> uri, texts |-> texts, stored |-> FALSE]
         IN /\ messages' \in Nat /\ DOMAIN handlers' \subseteq 1 .. messages'
            /\ DOMAIN handlers' = DOMAIN handlers \union {new} /\ new \notin DOMAIN handlers
            /\ handlers'[new] = handler
            /\ \A h \in DOMAIN handlers : handlers'[h] = handlers[h]
            /\ Handling(uri)' = Handling(uri) \union {new}
            /\ \A other \in Documents \ {uri} : Handling(other)' = Handling(other)
            /\ uri \notin overlap' => uri \notin overlap /\ Handling(uri) = {}
            /\ overlap \subseteq overlap' /\ shown' = shown
<1> DEFINE new == messages + 1
           handler == [kind |-> kind, uri |-> uri, texts |-> texts, stored |-> FALSE]
<1>1. /\ messages' = new
      /\ handlers' = [h \in DOMAIN handlers \union {new} |->
                        IF h \in DOMAIN handlers THEN handlers[h] ELSE handler]
      /\ overlap' = IF Handling(uri) # {} THEN overlap \union {uri} ELSE overlap
      /\ shown' = shown
  BY DEF Sent
<1>2. messages \in Nat /\ DOMAIN handlers \subseteq 1 .. messages
  BY DEF SInv, Known
<1>3. new \in Nat /\ new \notin DOMAIN handlers /\ 1 .. messages \subseteq 1 .. new
  BY <1>2
<1>4. /\ DOMAIN handlers' = DOMAIN handlers \union {new}
      /\ handlers'[new] = handler
      /\ \A h \in DOMAIN handlers : handlers'[h] = handlers[h]
  BY <1>1, <1>3
<1>5. handler.uri = uri
  OBVIOUS
<1>6. /\ Handling(uri)' = Handling(uri) \union {new}
      /\ \A other \in Documents \ {uri} : Handling(other)' = Handling(other)
  <2> HIDE DEF handler, new
  <2> QED BY <1>3, <1>4, <1>5 DEF Handling
<1>7. DOMAIN handlers' \subseteq 1 .. new
  BY <1>2, <1>3, <1>4
<1> QED BY <1>1, <1>3, <1>4, <1>6, <1>7

\* The client's own view of the document changes with what it sends, and
\* nothing else does.
LEMMA ClientSInv ==
  ASSUME SInv, NEW uri \in Documents, NEW kind, NEW texts,
         NEW text \in Typed \union {Closed},
         Sent(kind, uri, texts), opened' = [opened EXCEPT ![uri] = text],
         \/ kind \in {"open", "change"} /\ text # Closed /\ Last(texts) = text
         \/ kind = "close" /\ text = Closed
  PROVE  SInv'
<1> DEFINE handler == [kind |-> kind, uri |-> uri, texts |-> texts, stored |-> FALSE]
<1>0. PICK new : new = messages + 1
  OBVIOUS
<1>1. /\ messages' \in Nat /\ DOMAIN handlers' \subseteq 1 .. messages'
      /\ DOMAIN handlers' = DOMAIN handlers \union {new} /\ new \notin DOMAIN handlers
      /\ handlers'[new] = handler
      /\ \A h \in DOMAIN handlers : handlers'[h] = handlers[h]
      /\ Handling(uri)' = Handling(uri) \union {new}
      /\ \A other \in Documents \ {uri} : Handling(other)' = Handling(other)
      /\ uri \notin overlap' => uri \notin overlap /\ Handling(uri) = {}
      /\ overlap \subseteq overlap' /\ shown' = shown
  BY <1>0, SentHandles
<1>2. /\ handler.uri = uri /\ handler.kind = kind /\ handler.texts = texts
      /\ handler.stored = FALSE
  OBVIOUS
<1> HIDE DEF handler
<1>3. /\ opened' \in [Documents -> Typed \union {Closed}] /\ opened'[uri] = text
      /\ \A other \in Documents \ {uri} : opened'[other] = opened[other]
  BY DEF SInv, Known
<1>4. Known'
  BY <1>1, <1>2, <1>3 DEF SInv, Known
<1>5. ASSUME NEW other \in Documents \ {uri}, other \notin overlap' PROVE Alike(other)'
  <2>1. Alike(other) /\ Handling(other)' = Handling(other) /\ opened'[other] = opened[other]
    BY <1>1, <1>3, <1>5 DEF SInv
  <2>2. \A h \in Handling(other) : h \in DOMAIN handlers /\ handlers'[h] = handlers[h]
    BY <1>1 DEF Handling
  <2>3. \A h \in Handling(other) : Carries(h, other)'
    BY <2>1, <2>2 DEF Alike, Carries
  <2> QED BY <1>1, <2>1, <2>3 DEF Alike, Diagnosed
<1>6. ASSUME uri \notin overlap' PROVE Alike(uri)'
  <2>1. Handling(uri)' = {new}
    BY <1>1, <1>6
  <2>2. Carries(new, uri)'
    BY <1>1, <1>2, <1>3 DEF Carries
  <2> QED BY <2>1, <2>2 DEF Alike
<1> QED BY <1>4, <1>5, <1>6 DEF SInv

\* A handler leaves: what is shown of its own document may have changed.
LEMMA EndedHandles ==
  ASSUME NEW h \in DOMAIN handlers, Ended(h)
  PROVE  /\ DOMAIN handlers' = DOMAIN handlers \ {h}
         /\ \A k \in DOMAIN handlers \ {h} : handlers'[k] = handlers[k]
         /\ \A uri : Handling(uri)' = Handling(uri) \ {h}
BY DEF Ended, Handling

LEMMA LeftSInv ==
  ASSUME SInv, NEW h \in DOMAIN handlers, Ended(h),
         UNCHANGED <<opened, overlap, messages>>, DOMAIN shown' = Documents,
         \A uri \in Documents \ {handlers[h].uri} : shown'[uri] = shown[uri],
         LET uri == handlers[h].uri
         IN Carries(h, uri) =>
              opened[uri] = Closed \/ shown'[uri] = Diagnosed[opened[uri]]
  PROVE  SInv'
<1>0. PICK own : own = handlers[h].uri
  OBVIOUS
<1>1. /\ DOMAIN handlers' = DOMAIN handlers \ {h}
      /\ \A k \in DOMAIN handlers \ {h} : handlers'[k] = handlers[k]
      /\ \A uri : Handling(uri)' = Handling(uri) \ {h}
  BY EndedHandles
<1>2. own \in Documents /\ h \in Handling(own)
  BY <1>0 DEF SInv, Known, Handling
<1>3. Known'
  BY <1>1 DEF SInv, Known
<1>4. ASSUME NEW uri \in Documents \ overlap, uri # own PROVE Alike(uri)'
  <2>1. Handling(uri)' = Handling(uri) /\ h \notin Handling(uri)
    BY <1>0, <1>1, <1>4 DEF Handling
  <2>2. \A k \in Handling(uri) : Carries(k, uri)'
    BY <1>1, <2>1 DEF SInv, Alike, Carries, Handling
  <2> QED BY <1>0, <1>4, <2>1, <2>2 DEF SInv, Alike, Diagnosed
<1>5. ASSUME own \notin overlap PROVE Alike(own)'
  <2>1. Handling(own) = {h} /\ Carries(h, own)
    BY <1>2, <1>5 DEF SInv, Alike
  <2>2. Handling(own)' = {}
    BY <1>1, <2>1
  <2>3. opened[own] = Closed \/ shown'[own] = Diagnosed[opened[own]]
    BY <1>0, <2>1
  <2> QED BY <2>2, <2>3 DEF Alike, Diagnosed
<1> QED BY <1>3, <1>4, <1>5 DEF SInv

LEMMA StoreSInv ==
  ASSUME SInv, NEW h \in DOMAIN handlers, Store(h)
  PROVE  SInv'
<1>1. /\ handlers[h].kind \in {"open", "change"}
      /\ handlers' = [handlers EXCEPT ![h].stored = TRUE]
      /\ UNCHANGED <<shown, opened, overlap, messages>>
  BY DEF Store
<1>2. /\ DOMAIN handlers' = DOMAIN handlers
      /\ \A k \in DOMAIN handlers \ {h} : handlers'[k] = handlers[k]
      /\ handlers'[h] = [handlers[h] EXCEPT !.stored = TRUE]
  BY <1>1
<1>3. /\ handlers'[h].uri = handlers[h].uri /\ handlers'[h].kind = handlers[h].kind
      /\ handlers'[h].texts = handlers[h].texts
  BY <1>2
<1>4. \A k \in DOMAIN handlers : handlers'[k].uri = handlers[k].uri
  BY <1>2, <1>3
<1>5. \A uri : Handling(uri)' = Handling(uri)
  BY <1>2, <1>4 DEF Handling
<1>6. Known'
  BY <1>1, <1>2, <1>4 DEF SInv, Known
<1>7. ASSUME NEW k \in DOMAIN handlers, NEW uri, Carries(k, uri) PROVE Carries(k, uri)'
  <2>1. CASE k = h
    BY <1>1, <1>3, <1>7, <2>1 DEF Carries
  <2>2. CASE k # h
    BY <1>1, <1>2, <1>7, <2>2 DEF Carries
  <2> QED BY <2>1, <2>2
<1>8. ASSUME NEW uri \in Documents \ overlap PROVE Alike(uri)'
  <2>1. \A k \in Handling(uri) : k \in DOMAIN handlers /\ Carries(k, uri)
    BY <1>8 DEF SInv, Alike, Handling
  <2>2. \A k \in Handling(uri) : Carries(k, uri)'
    BY <1>7, <2>1
  <2> QED BY <1>1, <1>5, <1>8, <2>2 DEF SInv, Alike, Diagnosed
<1> QED BY <1>1, <1>6, <1>8 DEF SInv

LEMMA PublishSInv ==
  ASSUME SInv, NEW h \in DOMAIN handlers, Publish(h)
  PROVE  SInv'
<1> DEFINE own == handlers[h].uri
<1>1. /\ handlers[h].stored /\ Ended(h)
      /\ shown' = [shown EXCEPT ![own] = Validated(h)]
      /\ UNCHANGED <<opened, overlap, messages>>
  BY DEF Publish
<1>2. own \in Documents /\ DOMAIN shown = Documents
  BY DEF SInv, Known
<1>3. /\ DOMAIN shown' = Documents /\ shown'[own] = Validated(h)
      /\ \A uri \in Documents \ {own} : shown'[uri] = shown[uri]
  BY <1>1, <1>2
<1>4. Carries(h, own) => shown'[own] = Diagnosed[opened[own]]
  BY <1>1, <1>3 DEF Carries, Validated
<1> QED BY <1>1, <1>3, <1>4, LeftSInv

LEMMA ForgetSInv ==
  ASSUME SInv, NEW h \in DOMAIN handlers, Forget(h)
  PROVE  SInv'
<1>1. /\ handlers[h].kind = "close" /\ Ended(h)
      /\ UNCHANGED <<shown, opened, overlap, messages>>
  BY DEF Forget
<1>2. Carries(h, handlers[h].uri) => opened[handlers[h].uri] = Closed
  BY <1>1 DEF Carries
<1>3. DOMAIN shown' = Documents
  BY <1>1 DEF SInv, Known
<1> QED BY <1>1, <1>2, <1>3, LeftSInv

\* What neither sends a message nor ends a handler.
LEMMA StillSInv ==
  ASSUME SInv, UNCHANGED <<handlers, shown, opened, overlap, messages>>
  PROVE  SInv'
<1>1. \A uri : Handling(uri)' = Handling(uri)
  BY DEF Handling
<1>2. \A h, uri : Carries(h, uri)' = Carries(h, uri)
  BY DEF Carries
<1> QED BY <1>1, <1>2 DEF SInv, Known, Alike, Diagnosed

LEMMA StepSInv == SInv /\ [Next]_vars => SInv'
<1> SUFFICES ASSUME SInv, [Next]_vars PROVE SInv'
  OBVIOUS
<1>1. CASE UNCHANGED vars
  BY <1>1, StillSInv DEF vars, server
<1>2. CASE UNCHANGED server
  BY <1>2, StillSInv DEF server
<1>3. CASE ClientOpens
  <2>1. PICK uri \in Documents, text \in Typed :
          opened' = [opened EXCEPT ![uri] = text] /\ Sent("open", uri, <<text>>)
    BY <1>3 DEF ClientOpens
  <2>2. text # Closed /\ Last(<<text>>) = text
    BY TextsAreOpen DEF Last
  <2> QED BY <2>1, <2>2, ClientSInv
<1>4. CASE ClientChanges
  <2>1. PICK uri \in Documents, text \in Typed :
          /\ opened' = [opened EXCEPT ![uri] = text]
          /\ \/ Sent("change", uri, <<text>>)
             \/ Sent("change", uri, <<opened[uri], text>>)
    BY <1>4 DEF ClientChanges
  <2>2. /\ text # Closed /\ Last(<<text>>) = text
        /\ Last(<<opened[uri], text>>) = text
    BY TextsAreOpen DEF Last
  <2> QED BY <2>1, <2>2, ClientSInv
<1>5. CASE ClientCloses
  <2>1. PICK uri \in Documents :
          opened' = [opened EXCEPT ![uri] = Closed] /\ Sent("close", uri, <<>>)
    BY <1>5 DEF ClientCloses
  <2> QED BY <2>1, ClientSInv
<1>6. CASE Handle
  BY <1>6, StoreSInv, PublishSInv, ForgetSInv DEF Handle
<1>7. CASE Hover \/ Goto \/ Completion
  BY <1>7, StillSInv DEF Hover, Goto, Completion, Respond
<1> QED BY <1>1, <1>2, <1>3, <1>4, <1>5, <1>6, <1>7 DEF Next, ServerNext

-----------------------------------------------------------------------------
(* The commands                                                            *)

\* What every step finds on the disk and in the command under way.
Holdings ==
  /\ disk \in [{0} \union Paths -> Texts] /\ request.path \in {0} \union Paths
  /\ edits \in Nat /\ DOMAIN work = DOMAIN Fresh

\* Which command a stage belongs to.
Staged ==
  /\ stage \in {"inputs", "gather"} => request.op = "bundle"
  /\ stage = "inputs" => work.manifest = <<>> /\ work.syntax = "fine"
  /\ stage \in {"collect", "suite"} => request.op = "suite"
  /\ stage = "original" => request.op \in Formats
  /\ stage = "write" => request.op \in {"bundle", "format"}
  /\ stage \in {"entry", "original", "reread"} /\ request.op \in Formats =>
       work.path = request.path

\* What format is about to write differs from the file in its layout only.
FormatReady ==
  stage = "write" /\ request.op = "format" =>
    /\ work.entry \in Texts
    /\ ~disturbed => work.entry.lines = disk[request.path].lines

\* What bundle has gathered is typed as the files are; the files it has
\* gathered and those it has yet to read are all of the project's, in order;
\* and each is where the manifest says, whole.
PathsOf(files) == [n \in DOMAIN files |-> files[n].path]
Upcomings == [path : Paths, file : Nat]
Entries == [path : Paths, first : Nat, last : Nat]
GatheredTypes(w) ==
  /\ w.todo \in Seq(Upcomings) /\ w.manifest \in Seq(Entries)
  /\ w.lines \in Seq(Lines) /\ w.syntax \in {"fine", "unparsed", "unlexed", "missing"}
Kept(w, n) ==
  LET entry == w.manifest[n]
  IN /\ {entry.first, entry.last} \subseteq 1 .. Len(w.lines)
     /\ SubSeq(w.lines, entry.first, entry.last) = Body(disk[entry.path])
GatheredAll(w) ==
  /\ PathsOf(w.manifest) \o PathsOf(w.todo) = InOrder(Present \ {request.path})
  /\ \A n \in DOMAIN w.manifest : Kept(w, n)
Gathered ==
  stage \in {"gather", "write"} /\ request.op = "bundle" =>
    /\ GatheredTypes(work)
    /\ ~disturbed => GatheredAll(work)
    /\ stage = "write" => work.todo = <<>> /\ BuildSource(Bundled(work)) = {}

CInv == Holdings /\ Staged /\ FormatReady /\ Gathered

\* The files of a project come in an order: every set of paths has one.
LEMMA Ordered ==
  \A n \in Nat : \A S \in SUBSET (1 .. n) :
    \E s \in [1 .. Cardinality(S) -> S] :
      \A i, j \in DOMAIN s : i < j => s[i] < s[j]
<1> DEFINE InOrderOf(S) == \E s \in [1 .. Cardinality(S) -> S] :
                             \A i, j \in DOMAIN s : i < j => s[i] < s[j]
           Good == {n \in Nat : \A S \in SUBSET (1 .. n) : InOrderOf(S)}
<1>1. 0 \in Good
  <2>1. \A S \in SUBSET (1 .. 0) : S = {} /\ 1 .. Cardinality(S) = {}
    <3>1. \A S \in SUBSET (1 .. 0) : S = {}
      OBVIOUS
    <3>2. Cardinality({}) = 0 /\ 1 .. 0 = {}
      BY FS_EmptySet
    <3> QED BY <3>1, <3>2
  <2>2. <<>> \in [{} -> {}] /\ DOMAIN <<>> = {}
    OBVIOUS
  <2> QED BY <2>1, <2>2
<1>2. ASSUME NEW n \in Good PROVE n + 1 \in Good
  <2>1. n \in Nat /\ n + 1 \in Nat /\ \A T \in SUBSET (1 .. n) : InOrderOf(T)
    OBVIOUS
  <2> SUFFICES ASSUME NEW S \in SUBSET (1 .. (n + 1)) PROVE InOrderOf(S)
    BY <2>1
  <2>2. CASE n + 1 \notin S
    <3>1. S \in SUBSET (1 .. n)
      BY <2>1, <2>2
    <3> QED BY <2>1, <3>1
  <2>3. CASE n + 1 \in S
    <3> DEFINE T == S \ {n + 1}
               c == Cardinality(T)
    <3>1. T \in SUBSET (1 .. n) /\ IsFiniteSet(S)
      <4>1. T \in SUBSET (1 .. n)
        BY <2>1
      <4>2. IsFiniteSet(1 .. (n + 1))
        BY <2>1, FS_Interval
      <4> QED BY <4>1, <4>2, FS_Subset
    <3>2. c \in Nat /\ Cardinality(S) = c + 1
      <4>1. IsFiniteSet(T)
        BY <3>1, FS_Subset
      <4>2. Cardinality(T) = Cardinality(S) - 1 /\ Cardinality(S) \in Nat
        BY <2>3, <3>1, FS_RemoveElement, FS_CardinalityType
      <4> QED BY <4>1, <4>2, FS_CardinalityType
    <3>3. PICK s \in [1 .. c -> T] : \A i, j \in DOMAIN s : i < j => s[i] < s[j]
      BY <2>1, <3>1
    <3> HIDE DEF c
    <3> DEFINE t == [i \in 1 .. (c + 1) |-> IF i = c + 1 THEN n + 1 ELSE s[i]]
    <3>4. t \in [1 .. (c + 1) -> S]
      BY <2>3, <3>2, <3>3
    <3>5. ASSUME NEW i \in 1 .. (c + 1), NEW j \in 1 .. (c + 1), i < j
          PROVE  t[i] < t[j]
      <4>1. i \in 1 .. c /\ t[i] = s[i] /\ s[i] \in 1 .. n
        <5>1. i \in 1 .. c /\ i # c + 1
          BY <3>2, <3>5
        <5>2. s[i] \in T
          BY <3>3, <5>1
        <5> QED BY <3>1, <5>1, <5>2
      <4>2. CASE j = c + 1
        BY <2>1, <4>1, <4>2
      <4>3. CASE j \in 1 .. c
        BY <3>2, <3>3, <3>5, <4>1, <4>3
      <4> QED BY <3>2, <4>2, <4>3
    <3> QED BY <3>2, <3>4, <3>5
  <2> QED BY <2>2, <2>3
<1>3. Good \in SUBSET Nat
  OBVIOUS
<1> HIDE DEF Good
<1>4. \A n \in Nat : n \in Good
  BY <1>1, <1>2, <1>3, Inductive
<1> QED BY <1>4 DEF Good

LEMMA InOrderType ==
  ASSUME NEW S \in SUBSET Paths
  PROVE  InOrder(S) \in Seq(S)
<1>1. S \in SUBSET (1 .. Size) /\ Size \in Nat
  BY PathsNumbered DEF Paths
<1>2. InOrder(S) \in [1 .. Cardinality(S) -> S]
  BY <1>1, Ordered DEF InOrder
<1>3. Cardinality(S) \in Nat
  <2>1. IsFiniteSet(1 .. Size)
    BY <1>1, FS_Interval
  <2> QED BY <1>1, <2>1, FS_Subset, FS_CardinalityType
<1> QED BY <1>2, <1>3

LEMMA InitCInv == Init => CInv
<1> SUFFICES ASSUME Init PROVE CInv
  OBVIOUS
<1>1. /\ disk \in Projects /\ stage = "idle" /\ work = Fresh /\ edits = 0
      /\ request = [op |-> "none", path |-> 0, bare |-> FALSE]
  BY DEF Init, ShellInit
<1>2. disk \in [{0} \union Paths -> Texts]
  BY <1>1, ProjectsHoldTexts
<1> QED BY <1>1, <1>2 DEF CInv, Holdings, Staged, FormatReady, Gathered, Formats

\* The command has ended.
LEMMA SaidCInv ==
  ASSUME CInv, NEW r, Said(r), disk' \in [{0} \union Paths -> Texts]
  PROVE  CInv'
<1>1. /\ stage' = "idle" /\ work' = Fresh
      /\ request' = request /\ edits' = edits
  BY DEF Said, counts
<1> QED BY <1>1 DEF CInv, Holdings, Staged, FormatReady, Gathered

LEMMA AnswerCInv ==
  ASSUME CInv, NEW r, Answer(r)
  PROVE  CInv'
BY SaidCInv DEF Answer, CInv, Holdings

LEMMA RefusedCInv ==
  ASSUME CInv, NEW errors, Refused(errors)
  PROVE  CInv'
BY AnswerCInv DEF Refused

\* The command goes on, with nothing ready to be written.
LEMMA OnwardCInv ==
  ASSUME CInv, NEW s, NEW w, ThenDo(s, w), DOMAIN w = DOMAIN Fresh,
         s \notin {"inputs", "gather", "collect", "write"},
         s = "suite" => request.op = "suite",
         s = "original" => request.op \in Formats,
         s \in {"entry", "original", "reread"} /\ request.op \in Formats =>
           w.path = request.path
  PROVE  CInv'
<1>1. /\ stage' = s /\ work' = w /\ disk' = disk /\ request' = request /\ edits' = edits
  BY DEF ThenDo, counts
<1>2. Holdings'
  BY <1>1 DEF CInv, Holdings
<1>3. Staged'
  BY <1>1 DEF Staged, Formats
<1>4. FormatReady' /\ Gathered'
  BY <1>1 DEF FormatReady, Gathered
<1> QED BY <1>2, <1>3, <1>4 DEF CInv

\* A file was edited.
LEMMA EditCInv ==
  ASSUME CInv, Edit
  PROVE  CInv'
<1>1. PICK p \in Paths, text \in Drafts : disk' = [disk EXCEPT ![p] = text]
  BY DEF Edit
<1>2. /\ disturbed' = TRUE /\ edits' = edits + 1
      /\ request' = request /\ stage' = stage /\ work' = work
  BY DEF Edit
<1>3. Holdings'
  <2>1. text \in Texts
    BY ProjectsHoldTexts
  <2> QED BY <1>1, <1>2, <2>1 DEF CInv, Holdings
<1>4. Staged' /\ FormatReady'
  BY <1>2 DEF CInv, Staged, FormatReady
<1>5. Gathered'
  <2>1. GatheredTypes(work)' <=> GatheredTypes(work)
    BY <1>2 DEF GatheredTypes
  <2>2. Bundled(work)' = Bundled(work)
    BY <1>2 DEF Bundled
  <2> QED BY <1>2, <2>1, <2>2 DEF CInv, Gathered
<1> QED BY <1>3, <1>4, <1>5 DEF CInv

LEMMA StartCInv ==
  ASSUME CInv, Start
  PROVE  CInv'
<1>1. PICK r \in Requests :
        /\ request' = r
        /\ stage' = CASE r.op \in {"namespaces", "signature"} -> "list"
                    [] r.op = "bundle" -> "inputs"
                    [] r.op = "suite" -> "collect"
                    [] OTHER -> "entry"
        /\ work' = [Fresh EXCEPT !.path = r.path]
  BY DEF Start
<1>2. disk' = disk /\ edits' = edits
  BY DEF Start
<1>3. Holdings'
  BY <1>1, <1>2, ProjectsHoldTexts DEF CInv, Holdings, Fresh
<1>4. Staged'
  <2>1. work'.path = r.path
    BY <1>1 DEF Fresh
  <2>3. work'.manifest = <<>> /\ work'.syntax = "fine"
    BY <1>1 DEF Fresh
  <2>2. /\ stage' \in {"list", "inputs", "collect", "entry"}
        /\ stage' = "inputs" => r.op = "bundle"
        /\ stage' = "collect" => r.op = "suite"
    BY <1>1
  <2> QED BY <1>1, <2>1, <2>2, <2>3 DEF Staged
<1>5. stage' \notin {"gather", "write"}
  BY <1>1
<1> QED BY <1>3, <1>4, <1>5 DEF CInv, FormatReady, Gathered

-----------------------------------------------------------------------------
(* bundle                                                                  *)

LEMMA CommentIsLine == Comment \in Lines
<1>1. Nowhere \in Names
  BY NoneIsWord DEF Names, Nowhere
<1>2. 0 \in Int /\ FALSE \in BOOLEAN
  OBVIOUS
<1>3. "comment" \in {"comment", "namespace", "function", "struct", "variable", "verify"}
  BY Zenon
<1> QED BY <1>1, <1>2, <1>3, NoneIsWord, Zenon DEF Comment, Lines

LEMMA BodyIsLines ==
  ASSUME NEW text \in Texts
  PROVE  Body(text) \in Seq(Lines) /\ Len(Body(text)) \in Nat \ {0}
<1>1. text.lines \in Seq(Lines)
  BY DEF Texts
<1>2. <<Comment>> \in Seq(Lines) /\ Len(<<Comment>>) = 1
  BY CommentIsLine
<1>3. text.lines # <<>> => Len(text.lines) \in Nat \ {0}
  BY <1>1, EmptySeq, LenProperties
<1> QED BY <1>1, <1>2, <1>3 DEF Body

\* The paths of files that are numbered are the paths they were numbered by.
LEMMA NumberedPaths ==
  ASSUME NEW paths \in Seq(Paths)
  PROVE  Numbered(paths) \in Seq(Upcomings) /\ PathsOf(Numbered(paths)) = paths
<1>1. PICK n \in Nat : paths \in [1 .. n -> Paths]
  BY IsASeq, LenProperties
<1>2. Numbered(paths) \in [1 .. n -> Upcomings]
  BY <1>1 DEF Numbered, Upcomings
<1>3. \A i \in 1 .. n : Numbered(paths)[i].path = paths[i]
  BY <1>1 DEF Numbered
<1>4. PathsOf(Numbered(paths)) = paths
  BY <1>1, <1>2, <1>3 DEF PathsOf
<1> QED BY <1>2, <1>4

LEMMA PathsOfType ==
  ASSUME NEW S, NEW s \in Seq(S), \A x \in S : x.path \in Paths
  PROVE  /\ PathsOf(s) \in Seq(Paths) /\ Len(PathsOf(s)) = Len(s)
         /\ \A i \in 1 .. Len(s) : PathsOf(s)[i] = s[i].path
<1>1. PICK n \in Nat : s \in [1 .. n -> S]
  BY IsASeq, LenProperties
<1>2. PathsOf(s) \in [1 .. n -> Paths] /\ \A i \in 1 .. n : PathsOf(s)[i] = s[i].path
  BY <1>1 DEF PathsOf
<1>3. Len(s) = n
  BY <1>1
<1> QED BY <1>2, <1>3

LEMMA PathsOfTail ==
  ASSUME NEW s \in Seq(Upcomings), s # <<>>
  PROVE  PathsOf(s) = <<Head(s).path>> \o PathsOf(Tail(s))
<1> DEFINE p == Head(s).path
           t == Tail(s)
<1>1. \A x \in Upcomings : x.path \in Paths
  BY DEF Upcomings
<1>2. /\ Head(s) \in Upcomings /\ t \in Seq(Upcomings) /\ Len(t) = Len(s) - 1
      /\ \A i \in 1 .. Len(t) : t[i] = s[i + 1]
      /\ Head(s) = s[1] /\ Len(s) \in Nat \ {0}
  BY HeadTailProperties, LenProperties, EmptySeq
<1> HIDE DEF t
<1>3. /\ PathsOf(s) \in Seq(Paths) /\ Len(PathsOf(s)) = Len(s)
      /\ \A i \in 1 .. Len(s) : PathsOf(s)[i] = s[i].path
  BY <1>1, PathsOfType
<1>4. /\ PathsOf(t) \in Seq(Paths) /\ Len(PathsOf(t)) = Len(t)
      /\ \A i \in 1 .. Len(t) : PathsOf(t)[i] = t[i].path
  BY <1>1, <1>2, PathsOfType
<1>5. p \in Paths
  BY <1>1, <1>2
<1>6. p = s[1].path
  BY <1>2
<1> HIDE DEF p
<1> DEFINE a == PathsOf(s)
           b == PathsOf(t)
<1> HIDE DEF a, b
<1>7. <<p>> \in Seq(Paths) /\ Len(<<p>>) = 1 /\ <<p>>[1] = p
  BY <1>5
<1>8. /\ <<p>> \o b \in Seq(Paths) /\ Len(<<p>> \o b) = 1 + Len(b)
      /\ \A i \in 1 .. (1 + Len(b)) :
           (<<p>> \o b)[i] = IF i <= 1 THEN <<p>>[i] ELSE b[i - 1]
  BY <1>4, <1>7, ConcatProperties DEF b
<1>9. \A i \in 1 .. Len(a) : a[i] = (<<p>> \o b)[i]
  <2> SUFFICES ASSUME NEW i \in 1 .. Len(a) PROVE a[i] = (<<p>> \o b)[i]
    OBVIOUS
  <2>0. Len(a) = 1 + Len(b) /\ Len(b) = Len(t) /\ Len(a) = Len(s)
    BY <1>2, <1>3, <1>4 DEF a, b
  <2>1. CASE i = 1
    BY <1>2, <1>3, <1>6, <1>7, <1>8, <2>0, <2>1 DEF a
  <2>2. CASE i # 1
    <3>1. i - 1 \in 1 .. Len(t) /\ (i - 1) + 1 = i /\ ~(i <= 1)
      BY <1>2, <2>0, <2>2
    <3>2. a[i] = s[i].path /\ b[i - 1] = t[i - 1].path /\ t[i - 1] = s[i]
      BY <1>2, <1>3, <1>4, <2>0, <3>1 DEF a, b
    <3> QED BY <1>8, <2>0, <3>1, <3>2
  <2> QED BY <2>1, <2>2
<1>10. Len(a) = Len(<<p>> \o b) /\ a \in Seq(Paths)
  BY <1>2, <1>3, <1>4, <1>8 DEF a, b
<1>11. a = <<p>> \o b
  BY <1>8, <1>9, <1>10, SeqEqual
<1> QED BY <1>11 DEF a, b, p, t

LEMMA PathsOfAppend ==
  ASSUME NEW s \in Seq(Entries), NEW e \in Entries
  PROVE  PathsOf(Append(s, e)) = PathsOf(s) \o <<e.path>>
<1> DEFINE t == Append(s, e)
<1>1. \A x \in Entries : x.path \in Paths
  BY DEF Entries
<1>2. /\ t \in Seq(Entries) /\ Len(t) = Len(s) + 1 /\ Len(s) \in Nat
      /\ \A i \in 1 .. Len(s) : t[i] = s[i]
      /\ t[Len(s) + 1] = e
  BY WithLast
<1> HIDE DEF t
<1>3. /\ PathsOf(s) \in Seq(Paths) /\ Len(PathsOf(s)) = Len(s)
      /\ \A i \in 1 .. Len(s) : PathsOf(s)[i] = s[i].path
  BY <1>1, PathsOfType
<1>4. /\ PathsOf(t) \in Seq(Paths) /\ Len(PathsOf(t)) = Len(t)
      /\ \A i \in 1 .. Len(t) : PathsOf(t)[i] = t[i].path
  BY <1>1, <1>2, PathsOfType
<1> DEFINE a == PathsOf(s)
           b == PathsOf(t)
           p == e.path
<1>5. p \in Paths
  BY <1>1
<1> HIDE DEF a, b, p
<1>6. /\ Append(a, p) \in Seq(Paths) /\ Len(Append(a, p)) = Len(a) + 1
      /\ \A i \in 1 .. Len(a) : Append(a, p)[i] = a[i]
      /\ Append(a, p)[Len(a) + 1] = p
  BY <1>3, <1>5, WithLast DEF a
<1>7. Append(a, p) = a \o <<p>>
  BY <1>3, <1>5, AppendIsConcat DEF a
<1>8. \A i \in 1 .. Len(b) : b[i] = Append(a, p)[i]
  <2> SUFFICES ASSUME NEW i \in 1 .. Len(b) PROVE b[i] = Append(a, p)[i]
    OBVIOUS
  <2>0. Len(b) = Len(s) + 1 /\ Len(a) = Len(s)
    BY <1>2, <1>3, <1>4 DEF a, b
  <2>1. CASE i = Len(s) + 1
    BY <1>2, <1>4, <1>6, <2>0, <2>1 DEF b, p
  <2>2. CASE i # Len(s) + 1
    <3>1. i \in 1 .. Len(s) /\ i \in 1 .. Len(t)
      BY <1>2, <2>0, <2>2
    <3> QED BY <1>2, <1>3, <1>4, <1>6, <2>0, <3>1 DEF a, b
  <2> QED BY <2>1, <2>2
<1>9. b = Append(a, p)
  <2>1. Len(b) = Len(Append(a, p)) /\ b \in Seq(Paths)
    BY <1>2, <1>3, <1>4, <1>6 DEF a, b
  <2> QED BY <1>6, <1>8, <2>1, SeqEqual
<1> QED BY <1>7, <1>9 DEF a, b, p, t

\* Nothing is gathered at first.
LEMMA InputsCInv ==
  ASSUME CInv, Inputs
  PROVE  CInv'
<1> DEFINE files == InOrder(Present \ {request.path})
           w == [work EXCEPT !.todo = Numbered(files),
                             !.lines = <<Comment, Comment, Comment>>]
<1>1. CASE Refused({Trouble("no_files")})
  BY <1>1, RefusedCInv
<1>2. CASE ThenDo("gather", w)
  <2>0. DOMAIN work = DOMAIN Fresh /\ DOMAIN Fresh =
          {"entry", "path", "todo", "modules", "errors", "checked", "suite",
           "results", "lines", "manifest", "syntax"}
    BY DEF CInv, Holdings, Fresh
  <2>1. /\ stage' = "gather" /\ work' = w /\ disk' = disk /\ request' = request
        /\ edits' = edits /\ disturbed' = disturbed
        /\ stage = "inputs" /\ request.op = "bundle"
        /\ work.manifest = <<>> /\ work.syntax = "fine"
    BY <1>2 DEF ThenDo, counts, Inputs, CInv, Staged
  <2>2. /\ w.todo = Numbered(files) /\ w.lines = <<Comment, Comment, Comment>>
        /\ w.manifest = <<>> /\ w.syntax = "fine" /\ DOMAIN w = DOMAIN Fresh
    BY <2>0, <2>1
  <2>3. files \in Seq(Paths)
    <3>1. Present \ {request.path} \in SUBSET Paths
      BY DEF Present
    <3> QED BY <3>1, InOrderType, WiderSeq
  <2> HIDE DEF files, w
  <2>4. w.todo \in Seq(Upcomings) /\ PathsOf(w.todo) = files
    BY <2>2, <2>3, NumberedPaths
  <2>5. w.lines \in Seq(Lines)
    BY <2>2, CommentIsLine
  <2>6. GatheredTypes(w)
    BY <2>2, <2>4, <2>5 DEF GatheredTypes
  <2>7. GatheredAll(w)
    <3>1. PathsOf(w.manifest) = <<>> /\ DOMAIN w.manifest = {}
      BY <2>2 DEF PathsOf
    <3>2. <<>> \o files = files
      BY <2>3, ConcatEmptySeq
    <3> QED BY <2>4, <3>1, <3>2 DEF GatheredAll, files
  <2>8. Holdings'
    BY <2>1, <2>2 DEF CInv, Holdings
  <2>9. Staged' /\ FormatReady'
    BY <2>1 DEF Staged, FormatReady, Formats
  <2>10. GatheredTypes(work)' /\ GatheredAll(work)'
    BY <2>1, <2>6, <2>7 DEF GatheredTypes, GatheredAll, Present, Kept
  <2> QED BY <2>1, <2>8, <2>9, <2>10 DEF CInv, Gathered
<1> QED BY <1>1, <1>2 DEF Inputs

\* One file more: it stands between two comment lines after all before it,
\* which stay where they are.
LEMMA GatherCInv ==
  ASSUME CInv, Gather
  PROVE  CInv'
<1> DEFINE path == Upcoming.path
           text == disk[path]
           body == Body(text)
           first == Len(work.lines) + 2
           entry == [path |-> path, first |-> first, last |-> first + Len(body) - 1]
           before == work.lines \o <<Comment>>
           after == <<Comment>>
           w == [Rest EXCEPT !.lines = @ \o <<Comment>> \o body \o <<Comment>>,
                             !.syntax = Worse(@, text.syntax),
                             !.manifest = Append(@, entry)]
<1>1. CASE Refused({Trouble("read")})
  BY <1>1, RefusedCInv
<1>2. CASE ThenDo("gather", w)
  <2>0. /\ stage' = "gather" /\ work' = w /\ disk' = disk /\ request' = request
        /\ edits' = edits /\ disturbed' = disturbed
        /\ stage = "gather" /\ request.op = "bundle" /\ work.todo # <<>>
    BY <1>2 DEF ThenDo, counts, Gather, CInv, Staged
  <2>1. GatheredTypes(work) /\ (~disturbed => GatheredAll(work))
    BY <2>0 DEF CInv, Gathered
  <2>2. DOMAIN work = DOMAIN Fresh /\ DOMAIN Fresh =
          {"entry", "path", "todo", "modules", "errors", "checked", "suite",
           "results", "lines", "manifest", "syntax"}
    BY DEF CInv, Holdings, Fresh
  <2>3. /\ w.todo = Tail(work.todo) /\ w.manifest = Append(work.manifest, entry)
        /\ w.lines = (before \o body) \o after
        /\ w.syntax = Worse(work.syntax, text.syntax) /\ DOMAIN w = DOMAIN Fresh
    BY <2>2, SMTT(30) DEF Rest
  <2>4. /\ Upcoming \in Upcomings /\ path \in Paths /\ w.todo \in Seq(Upcomings)
    <3>1. work.todo \in Seq(Upcomings) /\ work.todo # <<>>
      BY <2>0, <2>1 DEF GatheredTypes
    <3>2. Upcoming \in Upcomings /\ Tail(work.todo) \in Seq(Upcomings)
      BY <3>1, HeadTailProperties DEF Upcoming
    <3>3. Upcoming.path \in Paths
      BY <3>2 DEF Upcomings
    <3> QED BY <2>3, <3>2, <3>3
  <2>5. text \in Texts
    BY <2>4 DEF CInv, Holdings
  <2>6. body \in Seq(Lines) /\ Len(body) \in Nat \ {0}
    BY <2>5, BodyIsLines
  <2>7. /\ before \in Seq(Lines) /\ Len(before) = Len(work.lines) + 1
        /\ work.lines \in Seq(Lines) /\ Len(work.lines) \in Nat
        /\ after \in Seq(Lines) /\ Len(after) = 1
    BY <2>1, CommentIsLine, ConcatProperties, LenProperties DEF GatheredTypes
  <2> DEFINE both == before \o body
             end == first + Len(body) - 1
  <2>8. /\ both \in Seq(Lines) /\ Len(both) = Len(before) + Len(body)
        /\ w.lines \in Seq(Lines) /\ Len(w.lines) = Len(both) + 1
    <3> HIDE DEF w, body, before, after
    <3>1. both \in Seq(Lines) /\ Len(both) = Len(before) + Len(body)
      BY <2>6, <2>7, ConcatProperties
    <3>2. both \o after \in Seq(Lines) /\ Len(both \o after) = Len(both) + Len(after)
      BY <2>7, <3>1, ConcatProperties
    <3> QED BY <2>3, <2>7, <3>1, <3>2
  <2>9. /\ first \in 1 .. Len(both) /\ end \in 1 .. Len(both)
        /\ first = Len(before) + 1 /\ end = Len(before) + Len(body)
        /\ first \in Nat /\ end \in Nat
    <3> HIDE DEF w, body, before, after, both
    <3>1. Len(before) \in Nat /\ Len(body) \in Nat /\ Len(body) >= 1
      BY <2>6, <2>7
    <3>2. first = Len(before) + 1 /\ end = Len(before) + Len(body)
      BY <2>7, <3>1
    <3> HIDE DEF first, end
    <3> QED BY <2>8, <3>1, <3>2
  <2>10. entry \in Entries /\ entry.path = path /\ entry.first = first /\ entry.last = end
    BY <2>4, <2>9 DEF Entries
  <2> HIDE DEF w, entry, path, text, body, first, before, after, both, end
  <2>11. SubSeq(w.lines, first, end) = body
    <3>1. w.lines = both \o after
      BY <2>3 DEF both
    <3>2. SubSeq(both \o after, first, end) = SubSeq(both, first, end)
      BY <2>7, <2>8, <2>9, SubSeqOfConcat1, ZenonT(30)
    <3>3. SubSeq(both, first, end) = SubSeq(body, first - Len(before), end - Len(before))
      <4>1. /\ first \in Len(before) + 1 .. Len(before) + Len(body)
            /\ end \in Len(before) + 1 .. Len(before) + Len(body)
        BY <2>6, <2>7, <2>9
      <4> QED BY <2>6, <2>7, <4>1, SubSeqOfConcat2, ZenonT(30) DEF both
    <3>4. first - Len(before) = 1 /\ end - Len(before) = Len(body)
      BY <2>6, <2>7, <2>9
    <3>5. SubSeq(body, 1, Len(body)) = body
      BY <2>6, SubSeqFull
    <3> QED BY <3>1, <3>2, <3>3, <3>4, <3>5
  <2>12. ASSUME NEW a \in 1 .. Len(work.lines), NEW b \in 1 .. Len(work.lines)
         PROVE  /\ SubSeq(w.lines, a, b) = SubSeq(work.lines, a, b)
                /\ a \in 1 .. Len(w.lines)
    <3>1. /\ a \in 1 .. Len(before) /\ a \in 1 .. Len(both) /\ a \in 1 .. Len(w.lines)
          /\ b \in 1 .. Len(before) /\ b \in 1 .. Len(both)
      BY <2>6, <2>7, <2>8, SMTT(30)
    <3>2. SubSeq(both \o after, a, b) = SubSeq(both, a, b)
      BY <2>7, <2>8, <3>1, SubSeqOfConcat1, ZenonT(30)
    <3>3. SubSeq(before \o body, a, b) = SubSeq(before, a, b)
      BY <2>6, <2>7, <3>1, SubSeqOfConcat1, ZenonT(30)
    <3>4. SubSeq(work.lines \o after, a, b) = SubSeq(work.lines, a, b)
      BY <2>7, SubSeqOfConcat1, ZenonT(30)
    <3>5. w.lines = both \o after /\ both = before \o body /\ before = work.lines \o after
      BY <2>3 DEF before, both, after
    <3> QED BY <3>1, <3>2, <3>3, <3>4, <3>5
  <2>13. GatheredTypes(w)
    <3>1. w.manifest \in Seq(Entries)
      BY <2>1, <2>3, <2>10, WithLast DEF GatheredTypes
    <3>2. w.syntax \in {"fine", "unparsed", "unlexed", "missing"}
      BY <2>3 DEF Worse
    <3> QED BY <2>4, <2>8, <3>1, <3>2 DEF GatheredTypes
  <2>14. ASSUME GatheredAll(work) PROVE GatheredAll(w)
    <3> DEFINE m == work.manifest
    <3>1. /\ m \in Seq(Entries) /\ Len(m) \in Nat /\ w.manifest = Append(m, entry)
          /\ w.manifest \in Seq(Entries) /\ Len(w.manifest) = Len(m) + 1
          /\ \A i \in 1 .. Len(m) : w.manifest[i] = m[i]
          /\ w.manifest[Len(m) + 1] = entry
      BY <2>1, <2>3, <2>10, WithLast DEF GatheredTypes
    <3>2. PathsOf(w.manifest) = PathsOf(m) \o <<path>>
      BY <2>10, <3>1, PathsOfAppend
    <3>3. PathsOf(work.todo) = <<path>> \o PathsOf(w.todo)
      BY <2>0, <2>1, <2>3, PathsOfTail DEF GatheredTypes, path, Upcoming
    <3>4. PathsOf(m) \in Seq(Paths) /\ PathsOf(w.todo) \in Seq(Paths) /\ <<path>> \in Seq(Paths)
      <4>1. \A x \in Entries : x.path \in Paths
        BY DEF Entries
      <4>2. \A x \in Upcomings : x.path \in Paths
        BY DEF Upcomings
      <4> QED BY <2>4, <3>1, <4>1, <4>2, PathsOfType
    <3>5. PathsOf(w.manifest) \o PathsOf(w.todo) = InOrder(Present \ {request.path})
      <4> DEFINE a == PathsOf(m)
                 b == PathsOf(w.todo)
                 c == <<path>>
      <4>1. PathsOf(m) \o PathsOf(work.todo) = InOrder(Present \ {request.path})
        BY <2>14 DEF GatheredAll
      <4> HIDE DEF a, b, c
      <4>2. (a \o c) \o b = a \o (c \o b)
        BY <3>4, ConcatAssociative DEF a, b, c
      <4> QED BY <3>2, <3>3, <4>1, <4>2 DEF a, b, c
    <3>6. ASSUME NEW n \in DOMAIN w.manifest PROVE Kept(w, n)
      <4>1. CASE n = Len(m) + 1
        <5>1. {first, end} \subseteq 1 .. Len(w.lines)
          BY <2>8, <2>9
        <5> QED BY <2>10, <2>11, <3>1, <4>1, <5>1 DEF Kept, body, text
      <4>2. CASE n \in 1 .. Len(m)
        <5>1. n \in DOMAIN m /\ w.manifest[n] = m[n]
          BY <3>1, <4>2
        <5>2. Kept(work, n)
          BY <2>14, <5>1 DEF GatheredAll
        <5> QED BY <2>12, <5>1, <5>2 DEF Kept
      <4>3. DOMAIN w.manifest = 1 .. (Len(m) + 1)
        BY <3>1
      <4> QED BY <3>1, <4>1, <4>2, <4>3
    <3> QED BY <3>5, <3>6 DEF GatheredAll
  <2>15. Holdings'
    BY <2>0, <2>3 DEF CInv, Holdings
  <2>16. Staged' /\ FormatReady'
    BY <2>0, SMTT(30) DEF Staged, FormatReady, Formats
  <2>17. GatheredTypes(work)' /\ (~disturbed' => GatheredAll(work)')
    BY <2>0, <2>1, <2>13, <2>14 DEF GatheredTypes, GatheredAll, Present, Kept
  <2> QED BY <2>0, <2>15, <2>16, <2>17 DEF CInv, Gathered
<1> QED BY <1>1, <1>2 DEF Gather

\* Everything is gathered; it is written only if it builds.
LEMMA ValidateCInv ==
  ASSUME CInv, Validate
  PROVE  CInv'
<1> DEFINE errors == BuildSource(Bundled(work))
<1>1. CASE Refused(errors)
  BY <1>1, RefusedCInv
<1>2. CASE errors = {} /\ ThenDo("write", work)
  <2>0. /\ stage' = "write" /\ work' = work /\ disk' = disk /\ request' = request
        /\ edits' = edits /\ disturbed' = disturbed
        /\ stage = "gather" /\ request.op = "bundle" /\ work.todo = <<>>
    BY <1>2 DEF ThenDo, counts, Validate, CInv, Staged
  <2>1. Holdings' /\ Staged' /\ FormatReady'
    BY <2>0 DEF CInv, Holdings, Staged, FormatReady, Formats
  <2>2. GatheredTypes(work)' /\ (~disturbed' => GatheredAll(work)')
    BY <2>0 DEF CInv, Gathered, GatheredTypes, GatheredAll, Present, Kept
  <2>3. Bundled(work)' = Bundled(work)
    BY <2>0 DEF Bundled
  <2>4. work'.todo = <<>> /\ BuildSource(Bundled(work))' = {}
    BY <1>2, <2>0, <2>3
  <2> QED BY <2>1, <2>2, <2>4 DEF CInv, Gathered
<1> QED BY <1>1, <1>2 DEF Validate

LEMMA WriteBundleCInv ==
  ASSUME CInv, WriteBundle
  PROVE  CInv'
<1>1. /\ disk' = [disk EXCEPT ![request.path] = Bundled(work)]
      /\ Said([NoReport EXCEPT !.manifest = work.manifest])
      /\ stage = "write" /\ request.op = "bundle"
  BY DEF WriteBundle
<1>2. Bundled(work) \in Texts
  BY <1>1 DEF CInv, Gathered, GatheredTypes, Bundled, Texts
<1>3. disk' \in [{0} \union Paths -> Texts]
  BY <1>1, <1>2 DEF CInv, Holdings
<1> QED BY <1>1, <1>3, SaidCInv

-----------------------------------------------------------------------------
(* format                                                                  *)

LEMMA FormattedText ==
  ASSUME NEW text \in Texts
  PROVE  Formatted(text) \in Texts /\ Formatted(text).lines = text.lines
BY DEF Formatted, Texts

LEMMA FormatRereadCInv ==
  ASSUME CInv, FormatReread
  PROVE  CInv'
<1>1. CASE Refused(LexErrors(Text))
  BY <1>1, RefusedCInv
<1>2. CASE ThenDo("write", [work EXCEPT !.entry = Formatted(Text)])
  <2>0. /\ stage' = "write" /\ work' = [work EXCEPT !.entry = Formatted(Text)]
        /\ disk' = disk /\ request' = request /\ edits' = edits
        /\ stage = "reread" /\ request.op = "format"
    BY <1>2 DEF ThenDo, counts, FormatReread
  <2>1. work.path = request.path /\ request.path \in {0} \union Paths
        /\ DOMAIN work = DOMAIN Fresh
    BY <2>0 DEF CInv, Holdings, Staged, Formats
  <2>2. Text = disk[request.path] /\ Text \in Texts
    BY <2>1 DEF Text, CInv, Holdings
  <2>3. work'.entry = Formatted(Text) /\ DOMAIN work' = DOMAIN Fresh
    BY <2>0, <2>1 DEF Fresh
  <2>4. FormatReady'
    BY <2>0, <2>2, <2>3, FormattedText DEF FormatReady
  <2>5. Holdings' /\ Staged' /\ Gathered'
    BY <2>0, <2>3 DEF CInv, Holdings, Staged, Gathered
  <2> QED BY <2>4, <2>5 DEF CInv
<1> QED BY <1>1, <1>2 DEF FormatReread

LEMMA WriteFormattedCInv ==
  ASSUME CInv, WriteFormatted
  PROVE  CInv'
<1>1. /\ disk' = [disk EXCEPT ![request.path] = work.entry] /\ Said(Result(None))
      /\ stage = "write" /\ request.op = "format"
  BY DEF WriteFormatted
<1>2. disk' \in [{0} \union Paths -> Texts]
  BY <1>1 DEF CInv, FormatReady, Holdings
<1> QED BY <1>1, <1>2, SaidCInv

-----------------------------------------------------------------------------
(* The other steps of a command                                            *)

\* What a command reads never changes which fields its work has.
LEMMA WorkFields ==
  ASSUME CInv
  PROVE  /\ DOMAIN Rest = DOMAIN Fresh
         /\ \A path : DOMAIN Loaded(path) = DOMAIN Fresh
BY DEF CInv, Holdings, Rest, Loaded

LEMMA LoadingCInv ==
  ASSUME CInv, ReadEntry \/ ListProject \/ LoadSibling \/ SupportFails
  PROVE  CInv'
<1>1. DOMAIN work = DOMAIN Fresh
  BY DEF CInv, Holdings
<1>2. CASE ReadEntry
  <2>1. ASSUME ThenDo("list", [work EXCEPT !.entry = Text]) PROVE CInv'
    BY <1>1, <2>1, OnwardCInv
  <2> QED BY <1>2, <2>1, AnswerCInv, RefusedCInv DEF ReadEntry
<1>3. CASE ListProject
  <2>1. PICK w : ThenDo("load", w) /\ DOMAIN w = DOMAIN work
    BY <1>3 DEF ListProject
  <2> QED BY <1>1, <2>1, OnwardCInv
<1>4. CASE LoadSibling
  <2> DEFINE path == Upcoming.path
             bad(code) == [Rest EXCEPT !.errors = @ \union
                             {[code |-> code, file |-> Upcoming.file, line |-> 0]}]
             own == SkipsEntry /\ path = work.path
             w == CASE own -> Rest
                  [] ~own /\ disk[path] = Missing -> bad("read")
                  [] ~own /\ disk[path] # Missing /\ ~Parses(disk[path]) -> bad("parse")
                  [] OTHER -> Loaded(path)
  <2>1. ThenDo("load", w)
    BY <1>4 DEF LoadSibling
  <2>2. \A code : DOMAIN bad(code) = DOMAIN Rest
    OBVIOUS
  <2> HIDE DEF bad, path
  <2>3. w \in {Rest, bad("read"), bad("parse"), Loaded(path)}
    OBVIOUS
  <2> HIDE DEF w
  <2>4. DOMAIN w = DOMAIN Fresh
    BY <2>2, <2>3, WorkFields
  <2> QED BY <2>1, <2>4, OnwardCInv
<1>5. CASE SupportFails
  BY <1>5, RefusedCInv DEF SupportFails
<1> QED BY <1>2, <1>3, <1>4, <1>5

LEMMA RunningCInv ==
  ASSUME CInv, Build \/ RereadEntry \/ Relist \/ Reload \/ Execute
  PROVE  CInv'
<1>1. DOMAIN work = DOMAIN Fresh
  BY DEF CInv, Holdings
<1>2. CASE Build
  <2>1. CASE \E errors : Refused(errors)
    BY <2>1, RefusedCInv
  <2>2. CASE \E r : Answer(r)
    BY <2>2, AnswerCInv
  <2>3. CASE \E w : ThenDo("reread", w) /\ request.op = "run" /\ DOMAIN w = DOMAIN work
    BY <1>1, <2>3, OnwardCInv DEF Formats
  <2>4. DOMAIN [work EXCEPT !.checked = Merged, !.modules = <<>>] = DOMAIN work
    OBVIOUS
  <2> QED BY <1>2, <2>1, <2>2, <2>3, <2>4, Zenon DEF Build
<1>3. CASE RereadEntry
  <2>1. CASE \E errors : Refused(errors)
    BY <2>1, RefusedCInv
  <2>2. CASE ThenDo("relist", [work EXCEPT !.entry = Text])
    BY <1>1, <2>2, OnwardCInv
  <2> QED BY <1>3, <2>1, <2>2, Zenon DEF RereadEntry
<1>4. CASE Relist
  <2>1. PICK w : ThenDo("reload", w) /\ DOMAIN w = DOMAIN work
    BY <1>4 DEF Relist
  <2> QED BY <1>1, <2>1, OnwardCInv
<1>5. CASE Reload
  <2>1. PICK w \in {Rest, Loaded(Upcoming.path)} : ThenDo("reload", w)
    BY <1>5 DEF Reload
  <2>2. DOMAIN w = DOMAIN Fresh
    BY <2>1, WorkFields
  <2> QED BY <2>1, <2>2, OnwardCInv
<1>6. CASE Execute
  <2>1. (\E errors : Refused(errors)) \/ \E r : Answer(r)
    BY <1>6, Zenon DEF Execute
  <2> QED BY <2>1, RefusedCInv, AnswerCInv
<1> QED BY <1>2, <1>3, <1>4, <1>5, <1>6

LEMMA TestingCInv ==
  ASSUME CInv, Collect \/ NextFile \/ SuiteEnds \/ TestFile
  PROVE  CInv'
<1>1. DOMAIN work = DOMAIN Fresh
  BY DEF CInv, Holdings
<1>2. CASE Collect
  <2>1. request.op = "suite"
    BY <1>2 DEF Collect, CInv, Staged
  <2>2. CASE ThenDo("suite", [work EXCEPT !.suite = Listing])
    BY <1>1, <2>1, <2>2, OnwardCInv
  <2> QED BY <1>2, <2>2, RefusedCInv DEF Collect
<1>3. CASE NextFile
  <2>1. request.op = "suite" /\ request.op \notin Formats
    BY <1>3 DEF NextFile, CInv, Staged, Formats
  <2> DEFINE w == [Fresh EXCEPT !.path = Head(work.suite), !.suite = Tail(work.suite),
                                !.results = work.results]
  <2>2. ThenDo("entry", w)
    BY <1>3, Zenon DEF NextFile
  <2>3. DOMAIN w = DOMAIN Fresh
    OBVIOUS
  <2> HIDE DEF w
  <2> QED BY <2>1, <2>2, <2>3, OnwardCInv
<1>4. CASE SuiteEnds
  BY <1>4, AnswerCInv DEF SuiteEnds
<1>5. CASE TestFile
  <2>1. CASE \E errors : Refused(errors)
    BY <2>1, RefusedCInv
  <2>2. CASE \E r : Answer(r)
    BY <2>2, AnswerCInv
  <2>3. CASE request.op = "suite" /\ \E results : ThenDo("suite", [work EXCEPT !.results = results])
    BY <1>1, <2>3, OnwardCInv
  <2> QED BY <1>5, <2>1, <2>2, <2>3, Zenon DEF TestFile
<1> QED BY <1>2, <1>3, <1>4, <1>5

LEMMA QueryingCInv ==
  ASSUME CInv, QueryRegistry \/ QueryPosition
  PROVE  CInv'
<1>1. (\E errors : Refused(errors)) \/ \E r : Answer(r)
  BY Zenon DEF QueryRegistry, QueryPosition
<1> QED BY <1>1, RefusedCInv, AnswerCInv

LEMMA FormattingCInv ==
  ASSUME CInv, FormatRead \/ FormatCompare
  PROVE  CInv'
<1>1. DOMAIN work = DOMAIN Fresh
  BY DEF CInv, Holdings
<1>2. CASE FormatRead
  <2>1. CASE ThenDo("original", [work EXCEPT !.entry = Formatted(Text)])
    <3>1. request.op \in Formats /\ work.path = request.path
      BY <1>2 DEF FormatRead, CInv, Staged
    <3>2. [work EXCEPT !.entry = Formatted(Text)].path = work.path
      BY <1>1 DEF Fresh
    <3> QED BY <1>1, <2>1, <3>1, <3>2, OnwardCInv
  <2> QED BY <1>2, <2>1, RefusedCInv DEF FormatRead
<1>3. CASE FormatCompare
  <2>1. CASE ThenDo("reread", work)
    <3>1. request.op \in Formats => work.path = request.path
      BY <1>3 DEF FormatCompare, CInv, Staged
    <3> QED BY <1>1, <2>1, <3>1, OnwardCInv
  <2>2. ThenDo("reread", work) \/ \E r : Answer(r)
    BY <1>3, Zenon DEF FormatCompare
  <2> QED BY <2>1, <2>2, AnswerCInv
<1> QED BY <1>2, <1>3

\* Nothing of the shell changes.
LEMMA StillCInv ==
  ASSUME CInv, UNCHANGED shell
  PROVE  CInv'
<1>1. /\ disk' = disk /\ request' = request /\ stage' = stage /\ work' = work
      /\ disturbed' = disturbed /\ edits' = edits
  BY DEF shell
<1>2. GatheredTypes(work)' = GatheredTypes(work) /\ GatheredAll(work)' = GatheredAll(work)
  BY <1>1 DEF GatheredTypes, GatheredAll, Present, Kept
<1>3. Bundled(work)' = Bundled(work)
  BY <1>1 DEF Bundled
<1> QED BY <1>1, <1>2, <1>3 DEF CInv, Holdings, Staged, FormatReady, Gathered

LEMMA StepCInv == CInv /\ [Next]_vars => CInv'
<1> SUFFICES ASSUME CInv, [Next]_vars PROVE CInv'
  OBVIOUS
<1>1. CASE UNCHANGED shell
  BY <1>1, StillCInv
<1>2. CASE Start \/ Edit
  BY <1>2, StartCInv, EditCInv
<1>3. CASE Work
  BY <1>3, LoadingCInv, RunningCInv, TestingCInv, QueryingCInv, InputsCInv, GatherCInv,
     ValidateCInv, WriteBundleCInv, FormattingCInv, FormatRereadCInv, WriteFormattedCInv
     DEF Work
<1> QED BY <1>1, <1>2, <1>3 DEF Next, ShellNext, vars

-----------------------------------------------------------------------------
\* Only the last steps of bundle and format write to the disk.
LEMMA Written ==
  ASSUME CInv, [Next]_vars, disk' # disk, edits' = edits
  PROVE  WriteBundle \/ WriteFormatted
<1>1. CASE Edit
  BY <1>1 DEF Edit, CInv, Holdings
<1>2. CASE Start \/ UNCHANGED shell
  BY <1>2 DEF Start, shell
<1>3. CASE Work
  <2>1. \A s, w : ~ThenDo(s, w)
    BY DEF ThenDo
  <2>2. \A r : ~Answer(r) /\ ~Refused(r)
    BY DEF Answer, Refused
  <2>3. ~(ReadEntry \/ ListProject \/ LoadSibling \/ SupportFails)
    BY <2>1, <2>2, Zenon DEF ReadEntry, ListProject, LoadSibling, SupportFails
  <2>4. ~(Build \/ RereadEntry \/ Relist \/ Reload \/ Execute)
    BY <2>1, <2>2, Zenon DEF Build, RereadEntry, Relist, Reload, Execute
  <2>5. ~(Collect \/ NextFile \/ SuiteEnds \/ TestFile)
    BY <2>1, <2>2, Zenon DEF Collect, NextFile, SuiteEnds, TestFile
  <2>6. ~(QueryRegistry \/ QueryPosition)
    BY <2>1, <2>2, Zenon DEF QueryRegistry, QueryPosition
  <2>7. ~(Inputs \/ Gather \/ Validate)
    BY <2>1, <2>2, Zenon DEF Inputs, Gather, Validate
  <2>8. ~(FormatRead \/ FormatCompare \/ FormatReread)
    BY <2>1, <2>2, Zenon DEF FormatRead, FormatCompare, FormatReread
  <2> QED BY <1>3, <2>3, <2>4, <2>5, <2>6, <2>7, <2>8, Zenon DEF Work
<1> QED BY <1>1, <1>2, <1>3 DEF Next, ShellNext, vars

LEMMA WritesHold ==
  CInv /\ [Next]_vars =>
    [disk' # disk /\ edits' = edits =>
       /\ \A p \in DOMAIN disk : p # request.path => disk'[p] = disk[p]
       /\ \/ request.op = "bundle"
             /\ BundleHolds(request.path, report'.manifest)
          \/ /\ request.op = "format"
             /\ ~disturbed =>
                  disk'[request.path].lines = disk[request.path].lines]_vars
<1> SUFFICES ASSUME CInv, [Next]_vars, disk' # disk, edits' = edits
             PROVE  /\ \A p \in DOMAIN disk : p # request.path => disk'[p] = disk[p]
                    /\ \/ request.op = "bundle"
                          /\ BundleHolds(request.path, report'.manifest)
                       \/ /\ request.op = "format"
                          /\ ~disturbed =>
                               disk'[request.path].lines = disk[request.path].lines
  OBVIOUS
<1>1. /\ disk \in [{0} \union Paths -> Texts]
      /\ request.path \in {0} \union Paths
  BY DEF CInv, Holdings
<1>2. CASE WriteBundle
  <2>1. /\ disk' = [disk EXCEPT ![request.path] = Bundled(work)]
        /\ Said([NoReport EXCEPT !.manifest = work.manifest])
        /\ stage = "write" /\ request.op = "bundle"
    BY <1>2 DEF WriteBundle
  <2>2. report'.manifest = work.manifest
    BY <2>1 DEF Said, NoReport
  <2>3. /\ disk'[request.path] = Bundled(work)
        /\ \A p \in DOMAIN disk : p # request.path => disk'[p] = disk[p]
    BY <1>1, <2>1
  <2>4. /\ GatheredTypes(work) /\ (~disturbed => GatheredAll(work))
        /\ work.todo = <<>> /\ BuildSource(Bundled(work)) = {}
    BY <2>1, SMTT(30) DEF CInv, Gathered
  <2>5. ASSUME ~disturbed
        PROVE  /\ [n \in DOMAIN work.manifest |-> work.manifest[n].path]
                    = InOrder(Present \ {request.path})
               /\ \A n \in DOMAIN work.manifest :
                    SubSeq(disk'[request.path].lines,
                           work.manifest[n].first, work.manifest[n].last)
                      = Body(disk[work.manifest[n].path])
    <3>1. /\ PathsOf(work.manifest) \o PathsOf(work.todo) = InOrder(Present \ {request.path})
          /\ \A n \in DOMAIN work.manifest : Kept(work, n)
      BY <2>4, <2>5 DEF GatheredAll
    <3>2. PathsOf(work.todo) = <<>>
      BY <2>4 DEF PathsOf
    <3>3. PathsOf(work.manifest) \in Seq(Paths)
      <4>1. \A x \in Entries : x.path \in Paths
        BY DEF Entries
      <4> QED BY <2>4, <4>1, PathsOfType DEF GatheredTypes
    <3>4. PathsOf(work.manifest) = InOrder(Present \ {request.path})
      BY <3>1, <3>2, <3>3, ConcatEmptySeq
    <3>5. disk'[request.path].lines = work.lines
      BY <2>3 DEF Bundled
    <3> QED BY <3>1, <3>4, <3>5 DEF PathsOf, Kept
  <2> QED BY <2>1, <2>2, <2>3, <2>4, <2>5 DEF BundleHolds
<1>3. CASE WriteFormatted
  <2>1. /\ disk' = [disk EXCEPT ![request.path] = work.entry]
        /\ stage = "write" /\ request.op = "format"
    BY <1>3 DEF WriteFormatted
  <2>2. /\ disk'[request.path] = work.entry
        /\ \A p \in DOMAIN disk : p # request.path => disk'[p] = disk[p]
    BY <1>1, <2>1
  <2>3. ~disturbed => work.entry.lines = disk[request.path].lines
    BY <2>1 DEF CInv, FormatReady
  <2> QED BY <2>1, <2>2, <2>3
<1> QED BY <1>2, <1>3, Written

\* No command but bundle and format writes, and whatever edits come between
\* its reads and its write, what bundle writes builds on its own; without
\* edits it holds every other file of the project where its manifest says, and
\* format leaves the items of its file as they are (bundle_project reads the
\* files one by one and builds the text it has put together before it writes
\* it; format_file reads its file again for the write).
THEOREM ToolsWriteOnlyValid == Spec => WritesOnlyValid
<1> QED BY InitCInv, StepCInv, WritesHold, PTL DEF Spec, WritesOnlyValid

-----------------------------------------------------------------------------
(* The paths of a project in order                                         *)

\* A set of paths in order has each of them once.
LEMMA InOrderIs ==
  ASSUME NEW S \in SUBSET Paths
  PROVE  /\ InOrder(S) \in Seq(Nat) /\ InOrder(S) \in Seq(S)
         /\ DOMAIN InOrder(S) = 1 .. Len(InOrder(S))
         /\ Len(InOrder(S)) \in Nat /\ Len(InOrder(S)) <= Size
         /\ Increases(InOrder(S))
         /\ \A p \in S : \E n \in 1 .. Len(InOrder(S)) : InOrder(S)[n] = p
         /\ \A n \in 1 .. Len(InOrder(S)) : InOrder(S)[n] \in S
<1> DEFINE s == InOrder(S)
<1>1. S \in SUBSET (1 .. Size) /\ Size \in Nat
  BY PathsNumbered DEF Paths
<1>2. /\ s \in [1 .. Cardinality(S) -> S]
      /\ \A i, j \in DOMAIN s : i < j => s[i] < s[j]
  BY <1>1, Ordered DEF InOrder
<1>3. IsFiniteSet(S) /\ Cardinality(S) \in Nat /\ Cardinality(S) <= Size
  <2>1. IsFiniteSet(1 .. Size) /\ Cardinality(1 .. Size) <= Size
    BY <1>1, FS_Interval
  <2>2. Cardinality(1 .. Size) \in Nat
    BY <2>1, FS_CardinalityType
  <2>3. IsFiniteSet(S) /\ Cardinality(S) <= Cardinality(1 .. Size)
    BY <1>1, <2>1, FS_Subset
  <2>4. Cardinality(S) \in Nat
    BY <2>3, FS_CardinalityType
  <2> QED BY <1>1, <2>1, <2>2, <2>3, <2>4
<1> HIDE DEF s
<1> DEFINE n == Cardinality(S)
<1>4. Len(s) = n /\ DOMAIN s = 1 .. n
  BY <1>2, <1>3
<1> HIDE DEF n
<1>5. s \in Seq(S) /\ s \in Seq(Nat)
  <2>1. s \in Seq(S)
    BY <1>2, <1>3
  <2>2. S \subseteq Nat
    BY <1>1
  <2> QED BY <2>1, <2>2, WiderSeq
<1>6. Increases(s)
  BY <1>2, <1>4 DEF Increases
<1>7. \A p \in S : \E i \in 1 .. n : s[i] = p
  <2>1. s \in Injection(1 .. n, S)
    <3>1. \A i, j \in 1 .. n : s[i] = s[j] => i = j
      <4> SUFFICES ASSUME NEW i \in 1 .. n, NEW j \in 1 .. n, s[i] = s[j], i # j
                   PROVE  FALSE
        OBVIOUS
      <4>1. s[i] \in Nat /\ s[j] \in Nat
        BY <1>4, <1>5
      <4>2. s[i] < s[j] \/ s[j] < s[i]
        <5>1. i < j \/ j < i
          BY <1>3 DEF n
        <5> QED BY <1>2, <1>4, <5>1
      <4> QED BY <4>1, <4>2
    <3> QED BY <1>2, <3>1 DEF Injection, IsInjective, n
  <2>2. IsFiniteSet(1 .. n) /\ Cardinality(1 .. n) = n
    BY <1>3, FS_Interval DEF n
  <2>3. s \in Surjection(1 .. n, S)
    BY <1>3, <2>1, <2>2, FS_Injection DEF n
  <2> QED BY <2>3 DEF Surjection
<1>8. \A i \in 1 .. n : s[i] \in S
  BY <1>2 DEF n
<1> QED BY <1>3, <1>4, <1>5, <1>6, <1>7, <1>8 DEF s, n

-----------------------------------------------------------------------------
(* Modules put together                                                    *)

Places == [file : Int, line : Nat, ns : Words, item : Lines]
IsModule(m) == m.file \in Int /\ m.text.lines \in Seq(Lines)
Modules(ms) ==
  /\ Len(ms) \in Nat /\ DOMAIN ms = 1 .. Len(ms)
  /\ \A n \in 1 .. Len(ms) : IsModule(ms[n])

LEMMA PlacedLinesOf ==
  ASSUME NEW m, IsModule(m)
  PROVE  /\ PlacedLines(m) \in Seq(Places)
         /\ Len(PlacedLines(m)) = Len(m.text.lines) /\ Len(m.text.lines) \in Nat
         /\ \A k \in 1 .. Len(m.text.lines) :
              /\ PlacedLines(m)[k].file = m.file /\ PlacedLines(m)[k].line = k
              /\ PlacedLines(m)[k].ns = NamespaceAt(m.text.lines, k)
              /\ PlacedLines(m)[k].item = m.text.lines[k]
<1> DEFINE lines == m.text.lines
<1>1. /\ Len(lines) \in Nat /\ DOMAIN lines = 1 .. Len(lines) /\ m.file \in Int
      /\ \A k \in 1 .. Len(lines) : lines[k] \in Lines
  BY LenProperties DEF IsModule
<1> HIDE DEF lines
<1>2. ASSUME NEW n \in 1 .. Len(lines) PROVE NamespaceAt(lines, n) \in Words
  <2> DEFINE above == {k \in 1 .. n : lines[k].kind = "namespace"}
  <2>1. CASE above = {}
    BY <2>1, NoneIsWord DEF NamespaceAt
  <2>2. CASE above # {}
    <3>1. above \in SUBSET (0 .. n) /\ n \in Nat /\ above \in SUBSET (1 .. Len(lines))
      BY <1>1
    <3> HIDE DEF above
    <3>2. PICK k \in above : k = Max(above)
      BY <2>2, <3>1, GreatestNatural DEF Max
    <3>3. lines[k] \in Lines
      BY <1>1, <3>1
    <3>4. lines[k].name \in Words
      BY <3>3 DEF Lines
    <3> QED BY <2>2, <3>2, <3>4 DEF NamespaceAt, above
  <2> QED BY <2>1, <2>2
<1>3. PlacedLines(m) = [n \in 1 .. Len(lines) |->
        [file |-> m.file, line |-> n, ns |-> NamespaceAt(lines, n), item |-> lines[n]]]
  BY <1>1 DEF PlacedLines, lines
<1>4. m.file \in Int /\ \A n \in 1 .. Len(lines) : PlacedLines(m)[n] \in Places
  BY <1>1, <1>2, <1>3 DEF Places
<1>5. PlacedLines(m) \in [1 .. Len(lines) -> Places]
  BY <1>3, <1>4
<1>6. PlacedLines(m) \in Seq(Places) /\ Len(PlacedLines(m)) = Len(lines)
  BY <1>1, <1>5
<1> QED BY <1>1, <1>3, <1>6 DEF lines

LEMMA PlacedGathers ==
  ASSUME NEW ms, Modules(ms)
  PROVE  \E f \in [0 .. Len(ms) -> Seq(Places)] :
           /\ f[0] = <<>>
           /\ \A n \in 1 .. Len(ms) : f[n] = f[n - 1] \o PlacedLines(ms[n])
           /\ Placed(ms) = f[Len(ms)]
<1>0. PICK N \in Nat : N = Len(ms)
  BY DEF Modules
<1> DEFINE parts == [n \in 1 .. N |-> PlacedLines(ms[n])]
           step(g, n) == IF n = 0 THEN <<>> ELSE g[n - 1] \o PlacedLines(ms[n])
<1>1. \A n \in 1 .. N : parts[n] \in Seq(Places)
  BY <1>0, PlacedLinesOf DEF Modules
<1>2. PICK g \in [0 .. N -> Seq(Places)] : Gathers(g, N, parts)
  <2> HIDE DEF parts
  <2> QED BY <1>1, GatheredExists
<1>3. g[0] = <<>> /\ \A n \in 1 .. N : g[n] = g[n - 1] \o PlacedLines(ms[n])
  BY <1>2 DEF Gathers
<1>4. \A n \in 0 .. N : g[n] = step(g, n)
  BY <1>0, <1>3
<1>5. g = [n \in 0 .. N |-> step(g, n)]
  BY <1>4
<1> DEFINE upto == CHOOSE f : f = [n \in 0 .. N |-> step(f, n)]
<1>6. upto = [n \in 0 .. N |-> step(upto, n)]
  BY <1>5
<1>7. Placed(ms) = upto[N]
  BY <1>0 DEF Placed
<1> HIDE DEF upto
<1>8. upto[0] = <<>> /\ \A n \in 1 .. N : upto[n] = upto[n - 1] \o PlacedLines(ms[n])
  <2>1. \A n \in 0 .. N : upto[n] = step(upto, n)
    <3> HIDE DEF step
    <3> QED BY <1>6, Zenon
  <2>2. 0 \in 0 .. N /\ \A n \in 1 .. N : n \in 0 .. N /\ n # 0
    BY <1>0
  <2> QED BY <2>1, <2>2
<1> HIDE DEF step, parts
<1> DEFINE Q == {n \in Nat : n <= N => upto[n] = g[n]}
<1>10. 0 \in Q
  BY <1>3, <1>8
<1>11. \A n \in Q : n + 1 \in Q
  <2> TAKE n \in Q
  <2>1. PICK m \in Nat : m = n + 1 /\ m - 1 = n
    OBVIOUS
  <2>2. m <= N => upto[m] = g[m]
    <3> SUFFICES ASSUME m <= N PROVE upto[m] = g[m]
      OBVIOUS
    <3>1. m \in 1 .. N /\ n <= N
      BY <2>1
    <3>2. upto[n] = g[n]
      BY <3>1
    <3>3. upto[m] = upto[m - 1] \o PlacedLines(ms[m])
      BY <1>8, <3>1
    <3>4. g[m] = g[m - 1] \o PlacedLines(ms[m])
      BY <1>3, <3>1
    <3> QED BY <2>1, <3>2, <3>3, <3>4
  <2> QED BY <2>1, <2>2
<1>12. upto[N] = g[N]
  <2>1. Q \in SUBSET Nat
    OBVIOUS
  <2> HIDE DEF Q
  <2>2. N \in Q
    BY <1>10, <1>11, <2>1, Inductive
  <2> QED BY <2>2 DEF Q
<1> QED BY <1>0, <1>3, <1>7, <1>12

\* The modules' lines in their order: module n begins after start[n - 1].
Starts(start, ms) ==
  /\ start \in [0 .. Len(ms) -> Nat] /\ start[0] = 0
  /\ \A n \in 1 .. Len(ms) : start[n] = start[n - 1] + Len(ms[n].text.lines)
  /\ start[Len(ms)] = Len(Placed(ms))
  /\ \A n \in 1 .. Len(ms) : \A k \in 1 .. Len(ms[n].text.lines) :
       /\ start[n - 1] + k \in 1 .. Len(Placed(ms))
       /\ Placed(ms)[start[n - 1] + k] = PlacedLines(ms[n])[k]
  /\ \A i \in 1 .. Len(Placed(ms)) :
       \E n \in 1 .. Len(ms) : \E k \in 1 .. Len(ms[n].text.lines) :
         i = start[n - 1] + k

IsText(P) == P \in Seq(Places) /\ DOMAIN P = 1 .. Len(P) /\ Len(P) \in Nat

LEMMA PlacedAt ==
  ASSUME NEW ms, Modules(ms)
  PROVE  IsText(Placed(ms)) /\ \E start : Starts(start, ms)
<1>0. PICK N \in Nat : N = Len(ms)
  BY DEF Modules
<1>1. PICK f \in [0 .. N -> Seq(Places)] :
        /\ f[0] = <<>>
        /\ \A n \in 1 .. N : f[n] = f[n - 1] \o PlacedLines(ms[n])
        /\ Placed(ms) = f[N]
  BY <1>0, PlacedGathers
<1> DEFINE parts == [n \in 1 .. N |-> PlacedLines(ms[n])]
           start == [n \in 0 .. N |-> Len(f[n])]
<1>2. \A n \in 1 .. N : /\ parts[n] \in Seq(Places)
                        /\ Len(parts[n]) = Len(ms[n].text.lines)
                        /\ parts[n] = PlacedLines(ms[n])
  BY <1>0, PlacedLinesOf DEF Modules
<1> HIDE DEF parts
<1>3. Gathers(f, N, parts)
  BY <1>1, <1>2 DEF Gathers
<1>4. /\ \A n \in 1 .. N : Len(f[n]) = Len(f[n - 1]) + Len(parts[n])
      /\ \A n \in 1 .. N : \A k \in 1 .. Len(parts[n]) :
           /\ Len(f[n - 1]) + k \in 1 .. Len(f[N])
           /\ f[N][Len(f[n - 1]) + k] = parts[n][k]
      /\ \A i \in 1 .. Len(f[N]) :
           \E n \in 1 .. N : \E k \in 1 .. Len(parts[n]) : i = Len(f[n - 1]) + k
  <2>1. Gathering(f, N, Places, parts)
    BY <1>0, <1>1, <1>2, <1>3 DEF Gathering
  <2>2. Laid(f, N, parts)
    BY <2>1, GatheredAt
  <2> QED BY <2>2 DEF Laid
<1>5. \A n \in 0 .. N : start[n] = Len(f[n]) /\ f[n] \in Seq(Places) /\ Len(f[n]) \in Nat
  BY <1>1, LenProperties
<1>6. start \in [0 .. N -> Nat]
  BY <1>5
<1> HIDE DEF start
<1>7. 0 \in 0 .. N /\ N \in 0 .. N /\ \A n \in 1 .. N : n \in 0 .. N /\ n - 1 \in 0 .. N
  BY <1>0
<1>8. /\ start[0] = 0 /\ start[N] = Len(Placed(ms))
      /\ \A n \in 1 .. N : start[n] = start[n - 1] + Len(ms[n].text.lines)
  <2>1. start[0] = 0 /\ start[N] = Len(Placed(ms))
    BY <1>1, <1>5, <1>7
  <2>2. ASSUME NEW n \in 1 .. N PROVE start[n] = start[n - 1] + Len(ms[n].text.lines)
    <3>1. start[n] = Len(f[n]) /\ start[n - 1] = Len(f[n - 1])
      BY <1>5, <1>7
    <3> QED BY <1>2, <1>4, <3>1
  <2> QED BY <2>1, <2>2
<1>9. \A n \in 1 .. N : \A k \in 1 .. Len(ms[n].text.lines) :
        /\ start[n - 1] + k \in 1 .. Len(Placed(ms))
        /\ Placed(ms)[start[n - 1] + k] = PlacedLines(ms[n])[k]
  <2> TAKE n \in 1 .. N
  <2> TAKE k \in 1 .. Len(ms[n].text.lines)
  <2>1. start[n - 1] = Len(f[n - 1]) /\ k \in 1 .. Len(parts[n])
    BY <1>2, <1>5, <1>7
  <2> QED BY <1>1, <1>2, <1>4, <2>1
<1>10. \A i \in 1 .. Len(Placed(ms)) :
         \E n \in 1 .. N : \E k \in 1 .. Len(ms[n].text.lines) : i = start[n - 1] + k
  <2> TAKE i \in 1 .. Len(Placed(ms))
  <2>1. PICK n \in 1 .. N : \E k \in 1 .. Len(parts[n]) : i = Len(f[n - 1]) + k
    BY <1>1, <1>4
  <2>1a. PICK k \in 1 .. Len(parts[n]) : i = Len(f[n - 1]) + k
    BY <2>1
  <2>2. start[n - 1] = Len(f[n - 1]) /\ k \in 1 .. Len(ms[n].text.lines)
    BY <1>2, <1>5, <1>7
  <2>3. i = start[n - 1] + k
    BY <2>1a, <2>2
  <2> QED BY <2>2, <2>3
<1>11. /\ Placed(ms) \in Seq(Places) /\ Len(Placed(ms)) \in Nat
       /\ DOMAIN Placed(ms) = 1 .. Len(Placed(ms))
  BY <1>1, <1>7, LenProperties
<1>12. Starts(start, ms)
  BY <1>0, <1>6, <1>8, <1>9, <1>10 DEF Starts
<1> QED BY <1>11, <1>12 DEF IsText

-----------------------------------------------------------------------------
(* What is meant, in a text without errors                                 *)

LEMMA LeastOf ==
  ASSUME NEW S \in SUBSET Nat, S # {}
  PROVE  Min(S) \in S /\ \A y \in S : Min(S) <= y
BY LeastNatural DEF Min

\* A name is defined where it is first declared.
LEMMA DefinitionIs ==
  ASSUME NEW P, IsText(P), NEW name
  PROVE  /\ Declarations(P, name) = {} => Definition(P, name) = 0
         /\ Declarations(P, name) # {} =>
              /\ Definition(P, name) \in Declarations(P, name)
              /\ \A k \in Declarations(P, name) : Definition(P, name) <= k
         /\ Definition(P, name) # 0 => Declarations(P, name) # {}
         /\ Definition(P, name) \in Nat
<1>1. Declarations(P, name) \in SUBSET Nat
  BY DEF Declarations, IsText
<1>2. CASE Declarations(P, name) = {}
  BY <1>2 DEF Definition
<1>3. CASE Declarations(P, name) # {}
  <2>1. Definition(P, name) = Min(Declarations(P, name))
    BY <1>3 DEF Definition
  <2> QED BY <1>1, <1>3, <2>1, LeastOf
<1> QED BY <1>2, <1>3

\* Without duplicates nothing declared has the name of a binding of the
\* prelude or of anything else, but for the library's namespaces.
LibraryBoth(P, i, k) ==
  /\ P[i].item.kind = "namespace" /\ InLibrary(P[i])
  /\ P[k].item.kind = "namespace" /\ InLibrary(P[k])
LEMMA Unrepeated ==
  ASSUME NEW P, IsText(P), Duplicates(P) = {}, NEW i \in DOMAIN P, Declares(P[i])
  PROVE  /\ FullName(P[i]) \notin Prelude
         /\ \A k \in DOMAIN P :
              Declares(P[k]) /\ FullName(P[k]) = FullName(P[i]) /\ k # i
                => LibraryBoth(P, i, k)
<1>1. FullName(P[i]) \notin Prelude
  BY DEF Duplicates
<1> DEFINE n == FullName(P[i])
           d == Definition(P, n)
           OfLibrary(k) == P[k].item.kind = "namespace" /\ InLibrary(P[k])
<1>2. \A k \in DOMAIN P :
        Declares(P[k]) /\ FullName(P[k]) = n /\ d # k => OfLibrary(d) /\ OfLibrary(k)
  BY DEF Duplicates
<1> HIDE DEF OfLibrary, d, n
<1>3. ASSUME NEW k \in DOMAIN P, Declares(P[k]), FullName(P[k]) = n, k # i
      PROVE  OfLibrary(k) /\ OfLibrary(i)
  <2>1. d # k \/ d # i
    BY <1>3
  <2>2. d # i => OfLibrary(d) /\ OfLibrary(i)
    BY <1>2 DEF n
  <2>3. d # k => OfLibrary(d) /\ OfLibrary(k)
    BY <1>2, <1>3
  <2> QED BY <2>1, <2>2, <2>3
<1> QED BY <1>1, <1>3 DEF LibraryBoth, OfLibrary, n

\* So a function is the one definition of its name.
LEMMA OnlyFunction ==
  ASSUME NEW P, IsText(P), Duplicates(P) = {}, NEW name, NEW d \in DOMAIN P,
         d = Definition(P, name), P[d].item.kind = "function"
  PROVE  /\ FullName(P[d]) = name /\ name \notin Prelude
         /\ {k \in DOMAIN P : /\ P[k].item.kind = "function"
                              /\ FullName(P[k]) = name} = {d}
<1>1. d # 0
  BY DEF IsText
<1>2. d \in Declarations(P, name)
  BY <1>1, DefinitionIs
<1>3. FullName(P[d]) = name /\ Declares(P[d])
  BY <1>2 DEF Declarations
<1>4. \A k \in DOMAIN P : P[k].item.kind = "function" => Declares(P[k])
  BY DEF Declares, Declaring
<1>5. \A k \in DOMAIN P : P[k].item.kind = "function" /\ FullName(P[k]) = name => k = d
  BY <1>3, <1>4, Unrepeated DEF LibraryBoth
<1> QED BY <1>3, <1>5, Unrepeated

\* No function has a name of the prelude, or one that is not declared.
LEMMA NoFunction ==
  ASSUME NEW P, IsText(P), Duplicates(P) = {}, NEW name,
         name \in Prelude \/ Definition(P, name) = 0
  PROVE  {k \in DOMAIN P : /\ P[k].item.kind = "function"
                           /\ FullName(P[k]) = name} = {}
<1> SUFFICES ASSUME NEW k \in DOMAIN P, P[k].item.kind = "function",
                    FullName(P[k]) = name
             PROVE  FALSE
  OBVIOUS
<1>1. Declares(P[k])
  BY DEF Declares, Declaring
<1>2. name \notin Prelude
  BY <1>1, Unrepeated
<1>3. k \in Declarations(P, name)
  BY <1>1 DEF Declarations
<1>4. Definition(P, name) \in DOMAIN P
  BY <1>3, DefinitionIs DEF Declarations
<1> QED BY <1>2, <1>4 DEF IsText

\* What a name written at i means in its own namespace.
OwnMeaning(P, i, name) ==
  LET inside == <<P[i].ns, name[2]>>
  IN IF inside \in Prelude THEN 0 ELSE Definition(P, inside)
Nearer(P, i, name) == name[1] = "" /\ OwnMeaning(P, i, name) # 0

\* The cases of what is meant that give no error.
LEMMA FoundMeans ==
  ASSUME NEW P, IsText(P), NEW i \in DOMAIN P, NEW name,
         Meant(P, i, name).code = "found"
  PROVE  \/ /\ Nearer(P, i, name)
            /\ Meant(P, i, name).to = OwnMeaning(P, i, name)
            /\ Meant(P, i, name).to = Definition(P, <<P[i].ns, name[2]>>)
            /\ Meant(P, i, name).to # 0
         \/ /\ ~Nearer(P, i, name) /\ name \in Prelude
            /\ Meant(P, i, name).to = 0
         \/ /\ ~Nearer(P, i, name) /\ name \notin Prelude
            /\ Meant(P, i, name).to = Definition(P, name)
            /\ Meant(P, i, name).to # 0
<1> DEFINE inside == <<P[i].ns, name[2]>>
           own == IF inside \in Prelude THEN 0 ELSE Definition(P, inside)
           named == Definition(P, name)
           elsewhere == OnlyElsewhere(P, P[i].ns, name[2])
           prefix == Definition(P, <<"", name[1]>>)
           plain == name[1] = ""
           unknown == [code |-> "unknown", to |-> 0]
           nearer == plain /\ own # 0
           known == nearer \/ name \in Prelude \/ named # 0
           m == Meant(P, i, name)
<1>0. nearer <=> Nearer(P, i, name)
  BY DEF Nearer, OwnMeaning
<1>1. \A k, n : Recorded(P, i, n, k).to = k
  BY DEF Recorded
<1>2. CASE nearer
  <2>1. m = Recorded(P, i, inside, own)
    BY <1>2 DEF Meant
  <2> QED BY <1>1, <1>2, <2>1, ZenonT(60) DEF Nearer, OwnMeaning
<1>3. CASE ~nearer /\ name \in Prelude
  <2>1. m = [code |-> "found", to |-> 0]
    BY <1>3 DEF Meant
  <2>2. m.to = 0
    BY <2>1
  <2>3. ~Nearer(P, i, name) /\ name \in Prelude
    BY <1>0, <1>3
  <2> QED BY <2>2, <2>3
<1>4. CASE ~nearer /\ name \notin Prelude /\ named # 0
  <2>1. m = Recorded(P, i, name, named)
    BY <1>4 DEF Meant
  <2> QED BY <1>0, <1>1, <1>4, <2>1
<1>5. CASE ~known /\ plain /\ elsewhere # 0
  <2>1. m = Recorded(P, i, name, elsewhere)
    BY <1>5 DEF Meant
  <2> DEFINE found == {k \in DOMAIN P : /\ Declares(P[k])
                                         /\ Owner(P[k]) \notin {"", P[i].ns}
                                         /\ P[k].item.name = name[2]}
  <2>2. elsewhere = IF Cardinality(found) = 1 THEN Max(found) ELSE 0
    BY DEF OnlyElsewhere
  <2>3. elsewhere \in found
    <3>1. found \in SUBSET (0 .. Len(P)) /\ Len(P) \in Nat
      <4>1. Len(P) \in Nat /\ DOMAIN P = 1 .. Len(P)
        BY DEF IsText
      <4>2. found \subseteq DOMAIN P
        OBVIOUS
      <4> HIDE DEF found
      <4> QED BY <4>1, <4>2
    <3>2. found # {}
      <4> SUFFICES ASSUME found = {} PROVE FALSE
        OBVIOUS
      <4>1. Cardinality(found) = 0
        BY FS_EmptySet
      <4> HIDE DEF found
      <4>2. elsewhere = 0
        BY <2>2, <4>1
      <4> QED BY <1>5, <4>2
    <3> HIDE DEF found
    <3> QED BY <1>5, <2>2, <3>1, <3>2, GreatestNatural DEF Max
  <2>4. Owner(P[elsewhere]) \notin {"", P[i].ns}
    BY <2>3
  <2>5. m.code # "found"
    <3> DEFINE d == elsewhere
               private == ~IsPublic(P[d]) /\ Owner(P[d]) # P[i].ns
               bare == name[1] = "" /\ Owner(P[d]) \notin {"", P[i].ns}
    <3>1. m.code = IF private THEN "private" ELSE IF bare THEN "qualifier_required"
                   ELSE IF d > i THEN "forward_reference" ELSE "found"
      <4>1. m.code = Recorded(P, i, name, d).code
        BY <2>1
      <4> HIDE DEF d, m
      <4> QED BY <4>1 DEF Recorded
    <3>2. bare
      BY <1>5, <2>4
    <3> HIDE DEF private, bare, d, m
    <3> QED BY <3>1, <3>2
  <2> QED BY <2>5
<1>6. CASE ~known /\ ~plain /\ prefix # 0
  <2>1. m = [unknown EXCEPT !.code = IF prefix > i THEN "forward_reference" ELSE @]
    BY <1>6 DEF Meant
  <2>2. m.code # "found"
    BY <2>1
  <2> QED BY <2>2
<1>7. CASE ~known /\ ~(plain /\ elsewhere # 0) /\ ~(~plain /\ prefix # 0)
  <2>1. m = [unknown EXCEPT !.code = "undefined"]
    BY <1>7 DEF Meant
  <2>2. m.code # "found"
    BY <2>1
  <2> QED BY <2>2
<1> QED BY <1>2, <1>3, <1>4, <1>5, <1>6, <1>7

\* What the interpreter calls is what the resolver found.
LEMMA CalledIsMeant ==
  ASSUME NEW P, IsText(P), Duplicates(P) = {}, NEW i \in DOMAIN P, NEW name,
         Meant(P, i, name).code = "found"
  PROVE  /\ Meant(P, i, name).to = 0 => Called(P, i, name) = 0
         /\ Meant(P, i, name).to # 0 =>
              /\ Meant(P, i, name).to \in DOMAIN P
              /\ P[Meant(P, i, name).to].item.kind = "function" =>
                   Called(P, i, name) = Meant(P, i, name).to
<1> DEFINE inside == <<P[i].ns, name[2]>>
           to == Meant(P, i, name).to
           named(n) == {k \in DOMAIN P : /\ P[k].item.kind = "function"
                                         /\ FullName(P[k]) = n}
           mine == IF name[1] = "" THEN named(inside) ELSE {}
           found == IF mine # {} THEN mine ELSE named(name)
<1>1. Called(P, i, name) = IF found = {} THEN 0 ELSE Max(found)
  BY DEF Called
<1>2. \A n : Definition(P, n) # 0 => Definition(P, n) \in DOMAIN P
  BY DefinitionIs DEF Declarations
<1>3. \A k \in Nat : Max({k}) = k
  BY DEF Max
<1>4. ~Nearer(P, i, name) => mine = {}
  BY NoFunction DEF Nearer, OwnMeaning
<1> HIDE DEF mine, named, to
<1>5. CASE /\ Nearer(P, i, name) /\ to = OwnMeaning(P, i, name)
           /\ to = Definition(P, inside) /\ to # 0
  <2>1. to = Definition(P, inside) /\ to \in DOMAIN P
    BY <1>2, <1>5
  <2>2. ASSUME P[to].item.kind = "function" PROVE Called(P, i, name) = to
    <3>1. named(inside) = {to}
      BY <2>1, <2>2, OnlyFunction DEF named
    <3>2. mine = {to} /\ to \in Nat
      <4>1. to \in Nat
        BY <2>1 DEF IsText
      <4>2. name[1] = ""
        BY <1>5 DEF Nearer
      <4>3. mine = named(inside)
        BY <4>2 DEF mine
      <4> QED BY <3>1, <4>1, <4>3
    <3>3. found = {to}
      BY <3>2
    <3> QED BY <1>1, <1>3, <3>2, <3>3
  <2> QED BY <1>5, <2>1, <2>2 DEF to
<1>6. CASE ~Nearer(P, i, name) /\ name \in Prelude /\ to = 0
  <2>1. named(name) = {}
    BY <1>6, NoFunction DEF named
  <2> QED BY <1>1, <1>4, <1>6, <2>1 DEF to
<1>7. CASE /\ ~Nearer(P, i, name) /\ name \notin Prelude
           /\ to = Definition(P, name) /\ to # 0
  <2>1. to \in DOMAIN P
    BY <1>2, <1>7
  <2>2. ASSUME P[to].item.kind = "function" PROVE Called(P, i, name) = to
    <3>1. named(name) = {to}
      BY <1>7, <2>1, <2>2, OnlyFunction DEF named
    <3>2. found = {to} /\ to \in Nat
      BY <1>4, <1>7, <2>1, <3>1 DEF IsText
    <3> QED BY <1>1, <1>3, <3>2
  <2> QED BY <1>7, <2>1, <2>2 DEF to
<1> QED BY <1>5, <1>6, <1>7, FoundMeans DEF to

\* A text without errors.
LEMMA NoErrors ==
  ASSUME NEW P, StaticErrors(P) = {}
  PROVE  /\ Duplicates(P) = {}
         /\ \A i \in DOMAIN P : /\ ~P[i].item.mistyped
                                /\ \A u \in Uses(P[i]) : Meant(P, i, u.name).code = "found"
<1>1. ResolveErrors(P) = {} /\ CheckErrors(P) = {}
  BY DEF StaticErrors
<1>2. Duplicates(P) = {}
  BY <1>1 DEF ResolveErrors
<1>3. \A i \in DOMAIN P : UseErrors(P, i, FALSE) = {} /\ UseErrors(P, i, TRUE) = {}
  BY <1>1 DEF ResolveErrors, CheckErrors
<1>4. ASSUME NEW i \in DOMAIN P, NEW u \in Uses(P[i])
      PROVE  Meant(P, i, u.name).code = "found"
  <2> SUFFICES ASSUME Meant(P, i, u.name).code # "found" PROVE FALSE
    OBVIOUS
  <2>1. \/ LeftToChecker(u, Meant(P, i, u.name)) = TRUE
        \/ LeftToChecker(u, Meant(P, i, u.name)) = FALSE
    BY DEF LeftToChecker
  <2>2. UseErrors(P, i, TRUE) # {} \/ UseErrors(P, i, FALSE) # {}
    BY <2>1 DEF UseErrors
  <2> QED BY <1>3, <2>2
<1>5. \A i \in DOMAIN P : ~P[i].item.mistyped
  BY <1>1 DEF CheckErrors
<1> QED BY <1>2, <1>4, <1>5

-----------------------------------------------------------------------------
(* What a command has read, if nobody edits                                *)

ReadModules == [file : 1 .. Size, path : Paths, text : Texts]
Read(n) == [file |-> n, path |-> Listing[n], text |-> disk[Listing[n]]]

\* The first d files of the project, but the one at path.
ReadTo(ms, path, d) ==
  /\ ms \in Seq(ReadModules)
  /\ \A i \in 1 .. Len(ms) :
       \E n \in 1 .. d : /\ Listing[n] # path /\ Parses(disk[Listing[n]])
                         /\ ms[i] = Read(n)
  /\ \A i, j \in 1 .. Len(ms) : i < j => ms[i].file < ms[j].file
  /\ \A n \in 1 .. d : Listing[n] # path => \E i \in 1 .. Len(ms) : ms[i] = Read(n)

LeftOf(todo, d) ==
  /\ d \in 0 .. Len(Listing)
  /\ todo \in Seq(Upcomings) /\ Len(todo) = Len(Listing) - d
  /\ \A i \in 1 .. Len(todo) : todo[i] = [path |-> Listing[d + i], file |-> d + i]

LEMMA ListingIs ==
  /\ Listing \in Seq(Paths) /\ Len(Listing) \in Nat /\ Len(Listing) <= Size
  /\ DOMAIN Listing = 1 .. Len(Listing)
  /\ \A n \in 1 .. Len(Listing) : Listing[n] \in Paths /\ disk[Listing[n]] # Missing
  /\ \A p \in Present : \E n \in 1 .. Len(Listing) : Listing[n] = p
  /\ \A m, n \in 1 .. Len(Listing) : Listing[m] = Listing[n] => m = n
<1>1. Present \in SUBSET Paths
  BY DEF Present
<1>2. /\ Listing \in Seq(Present) /\ Listing \in Seq(Nat) /\ Increases(Listing)
      /\ DOMAIN Listing = 1 .. Len(Listing) /\ Len(Listing) \in Nat /\ Len(Listing) <= Size
      /\ \A p \in Present : \E n \in 1 .. Len(Listing) : Listing[n] = p
      /\ \A n \in 1 .. Len(Listing) : Listing[n] \in Present
  BY <1>1, InOrderIs DEF Listing
<1>3. \A m, n \in 1 .. Len(Listing) : Listing[m] = Listing[n] => m = n
  <2> SUFFICES ASSUME NEW m \in 1 .. Len(Listing), NEW n \in 1 .. Len(Listing),
                      Listing[m] = Listing[n], m # n
               PROVE  FALSE
    OBVIOUS
  <2>1. m < n \/ n < m
    BY <1>2
  <2>2. Listing[m] \in Nat /\ Listing[n] \in Nat
    BY <1>2
  <2>3. Listing[m] < Listing[n] \/ Listing[n] < Listing[m]
    BY <1>2, <2>1 DEF Increases
  <2> QED BY ONLY <2>2, <2>3, Listing[m] = Listing[n]
<1>4. Listing \in Seq(Paths)
  BY <1>1, <1>2, WiderSeq
<1> QED BY <1>2, <1>3, <1>4 DEF Present

\* What has been read is the same each time.
LEMMA SameRead ==
  ASSUME NEW ms, NEW ks, NEW path, NEW d \in Nat,
         ReadTo(ms, path, d), ReadTo(ks, path, d)
  PROVE  ms = ks
<1> DEFINE a == Len(ms)
           b == Len(ks)
           s == [i \in 1 .. a |-> ms[i].file]
           t == [i \in 1 .. b |-> ks[i].file]
<1>1. /\ a \in Nat /\ DOMAIN ms = 1 .. a /\ b \in Nat /\ DOMAIN ks = 1 .. b
      /\ ms = [i \in 1 .. a |-> ms[i]] /\ ks = [i \in 1 .. b |-> ks[i]]
  <2>1. ms \in Seq(ReadModules) /\ ks \in Seq(ReadModules)
    BY DEF ReadTo
  <2> QED BY <2>1, LenProperties
<1>2. /\ \A i \in 1 .. a : \E n \in 1 .. d : Listing[n] # path /\ ms[i] = Read(n)
      /\ \A i \in 1 .. b : \E n \in 1 .. d : Listing[n] # path /\ ks[i] = Read(n)
  BY DEF ReadTo
<1>3. /\ \A i, j \in 1 .. a : i < j => s[i] < s[j]
      /\ \A i, j \in 1 .. b : i < j => t[i] < t[j]
  BY DEF ReadTo
<1> HIDE DEF a, b
<1>4. \A n : Read(n).file = n
  BY DEF Read
<1>5. /\ \A i \in 1 .. a : s[i] \in Nat /\ ms[i] = Read(s[i])
      /\ \A i \in 1 .. b : t[i] \in Nat /\ ks[i] = Read(t[i])
  BY <1>2, <1>4
<1>6. \A i \in 1 .. a : \E j \in 1 .. b : s[i] = t[j]
  <2> TAKE i \in 1 .. a
  <2>1. PICK n \in 1 .. d : Listing[n] # path /\ ms[i] = Read(n)
    BY <1>2
  <2>2. PICK j \in 1 .. b : ks[j] = Read(n)
    BY <2>1 DEF ReadTo, b
  <2> QED BY <1>4, <2>1, <2>2
<1>7. \A j \in 1 .. b : \E i \in 1 .. a : s[i] = t[j]
  <2> TAKE j \in 1 .. b
  <2>1. PICK n \in 1 .. d : Listing[n] # path /\ ks[j] = Read(n)
    BY <1>2
  <2>2. PICK i \in 1 .. a : ms[i] = Read(n)
    BY <2>1 DEF ReadTo, a
  <2> QED BY <1>4, <2>1, <2>2
<1>8. s \in [1 .. a -> Nat] /\ t \in [1 .. b -> Nat]
  BY <1>5
<1> HIDE DEF s, t
<1>9. a = b /\ \A i \in 1 .. a : s[i] = t[i]
  <2>1. Ascending(s, a) /\ Ascending(t, b) /\ Included(s, a, t, b) /\ Included(t, b, s, a)
    BY <1>3, <1>6, <1>7 DEF Ascending, Included
  <2> QED BY <1>1, <1>8, <2>1, SameIncreasing
<1>10. \A i \in 1 .. a : ms[i] = ks[i]
  BY <1>5, <1>9
<1> QED BY <1>1, <1>9, <1>10

\* Reading on: the next of the files that are left.
LEMMA ReadOn ==
  ASSUME disk \in [{0} \union Paths -> Texts],
         NEW todo, NEW ms, NEW path, NEW d, LeftOf(todo, d), ReadTo(ms, path, d),
         todo # <<>>
  PROVE  LET p == Head(todo).path
         IN /\ p \in Present /\ Head(todo).file = d + 1 /\ p = Listing[d + 1]
            /\ LeftOf(Tail(todo), d + 1)
            /\ p = path => ReadTo(ms, path, d + 1)
            /\ p # path /\ Parses(disk[p]) =>
                 ReadTo(Append(ms, [file |-> Head(todo).file, path |-> p,
                                    text |-> disk[p]]), path, d + 1)
<1>0. /\ d \in Nat /\ d <= Len(Listing) /\ Len(todo) = Len(Listing) - d
      /\ todo \in Seq(Upcomings) /\ Len(Listing) \in Nat /\ Len(todo) \in Nat
      /\ \A i \in 1 .. Len(todo) : todo[i] = [path |-> Listing[d + i], file |-> d + i]
  BY ListingIs, LenProperties DEF LeftOf
<1>1. PICK e \in Nat : e = d + 1
  BY <1>0
<1>2. Len(todo) >= 1 /\ e \in 1 .. Len(Listing) /\ Len(todo) # 0
  <2>1. Len(todo) # 0
    BY <1>0, EmptySeq
  <2> QED BY <1>0, <1>1, <2>1
<1>3. Head(todo) = [path |-> Listing[e], file |-> e]
  <2>1. Head(todo) = todo[1] /\ 1 \in 1 .. Len(todo)
    BY <1>0, <1>2
  <2> QED BY <1>0, <1>1, <2>1
<1>4. LeftOf(Tail(todo), e)
  <2>1. Tail(todo) \in Seq(Upcomings) /\ Len(Tail(todo)) = Len(todo) - 1
    BY <1>0, HeadTailProperties
  <2>2. ASSUME NEW i \in 1 .. Len(Tail(todo))
        PROVE  Tail(todo)[i] = [path |-> Listing[e + i], file |-> e + i]
    <3>1. PICK k \in 1 .. Len(todo) : k = i + 1 /\ d + k = e + i
      BY <1>0, <1>1, <2>1
    <3>2. Tail(todo)[i] = todo[k]
      BY <1>0, <1>2, <2>1, <3>1, HeadTailProperties
    <3> QED BY <1>0, <3>1, <3>2
  <2> QED BY <1>0, <1>1, <1>2, <2>1, <2>2 DEF LeftOf
<1> DEFINE p == Listing[e]
<1>5. p \in Present /\ p \in Paths /\ disk[p] \in Texts
  BY <1>2, ListingIs DEF Present
<1>6. /\ ms \in Seq(ReadModules) /\ Len(ms) \in Nat
      /\ \A i \in 1 .. Len(ms) :
           \E n \in 1 .. d : /\ Listing[n] # path /\ Parses(disk[Listing[n]])
                             /\ ms[i] = Read(n)
      /\ \A i, j \in 1 .. Len(ms) : i < j => ms[i].file < ms[j].file
      /\ \A n \in 1 .. d : Listing[n] # path => \E i \in 1 .. Len(ms) : ms[i] = Read(n)
  BY LenProperties DEF ReadTo
<1>7. \A n \in 1 .. e : n \in 1 .. d \/ n = e
  BY <1>0, <1>1
<1>8. \A n \in 1 .. d : n \in 1 .. e
  BY <1>0, <1>1
<1>9. ASSUME p = path PROVE ReadTo(ms, path, e)
  BY <1>6, <1>7, <1>8, <1>9 DEF ReadTo
<1>10. ASSUME p # path, Parses(disk[p])
       PROVE  ReadTo(Append(ms, Read(e)), path, e)
  <2> DEFINE ks == Append(ms, Read(e))
             l == Len(ms)
  <2>1. Read(e) \in ReadModules
    <3>1. e \in 1 .. Size
      BY <1>2, ListingIs, PathsNumbered
    <3> QED BY <1>5, <3>1 DEF Read, ReadModules
  <2>2. /\ ks \in Seq(ReadModules) /\ Len(ks) = l + 1 /\ ks[l + 1] = Read(e)
        /\ \A i \in 1 .. l : ks[i] = ms[i]
    BY <1>6, <2>1, WithLast
  <2> HIDE DEF ks
  <2>3. \A i \in 1 .. (l + 1) : i \in 1 .. l \/ i = l + 1
    BY <1>6
  <2>4. \A i \in 1 .. l : i \in 1 .. (l + 1)
    BY <1>6
  <2>5. l + 1 \in 1 .. (l + 1)
    BY <1>6
  <2> HIDE DEF l
  <2>6. \A i \in 1 .. Len(ks) :
          \E n \in 1 .. e : /\ Listing[n] # path /\ Parses(disk[Listing[n]])
                            /\ ks[i] = Read(n)
    <3> TAKE i \in 1 .. Len(ks)
    <3>1. CASE i = l + 1
      <4>1. e \in 1 .. e
        BY <1>2
      <4> QED BY <1>10, <2>2, <3>1, <4>1
    <3>2. CASE i \in 1 .. l
      BY <1>6, <1>8, <2>2, <3>2 DEF l
    <3> QED BY <2>2, <2>3, <3>1, <3>2
  <2>7. \A i, j \in 1 .. Len(ks) : i < j => ks[i].file < ks[j].file
    <3> SUFFICES ASSUME NEW i \in 1 .. Len(ks), NEW j \in 1 .. Len(ks), i < j
                 PROVE  ks[i].file < ks[j].file
      OBVIOUS
    <3>1. l \in Nat
      BY <1>6 DEF l
    <3>2. i \in 1 .. l
      BY <2>2, <2>3, <3>1
    <3>3. CASE j \in 1 .. l
      BY <1>6, <2>2, <3>2, <3>3 DEF l
    <3>4. CASE j = l + 1
      <4>1. PICK n \in 1 .. d : ms[i] = Read(n)
        BY <1>6, <3>2 DEF l
      <4>2. ks[i].file = n /\ ks[j].file = e
        BY <2>2, <3>2, <3>4, <4>1 DEF Read
      <4> QED BY <1>0, <1>1, <4>2
    <3> QED BY <2>2, <2>3, <3>3, <3>4
  <2>8. \A n \in 1 .. e : Listing[n] # path => \E i \in 1 .. Len(ks) : ks[i] = Read(n)
    <3> SUFFICES ASSUME NEW n \in 1 .. e, Listing[n] # path
                 PROVE  \E i \in 1 .. Len(ks) : ks[i] = Read(n)
      OBVIOUS
    <3>1. CASE n = e
      BY <2>2, <2>5, <3>1
    <3>2. CASE n \in 1 .. d
      <4>1. PICK i \in 1 .. l : ms[i] = Read(n)
        BY <1>6, <3>2 DEF l
      <4> QED BY <2>2, <2>4, <4>1
    <3> QED BY <1>7, <3>1, <3>2
  <2>9. ReadTo(ks, path, e)
    BY <2>2, <2>6, <2>7, <2>8 DEF ReadTo
  <2> QED BY <2>9 DEF ks
<1>11. Read(e) = [file |-> Head(todo).file, path |-> p, text |-> disk[p]]
  BY <1>3 DEF Read
<1> QED BY <1>1, <1>3, <1>4, <1>5, <1>9, <1>10, <1>11

\* At first nothing has been read, and in the end everything.
LEMMA ReadFirst ==
  ASSUME NEW path
  PROVE  LeftOf(Numbered(Listing), 0) /\ ReadTo(<<>>, path, 0)
<1>1. /\ Listing \in Seq(Paths) /\ Len(Listing) \in Nat
      /\ DOMAIN Listing = 1 .. Len(Listing)
  BY ListingIs
<1>2. Numbered(Listing) \in Seq(Upcomings)
  BY <1>1, NumberedPaths
<1>3. Numbered(Listing) = [n \in 1 .. Len(Listing) |-> [path |-> Listing[n], file |-> n]]
  BY <1>1 DEF Numbered
<1>4. Len(Numbered(Listing)) = Len(Listing)
  BY <1>1, <1>3
<1>5. LeftOf(Numbered(Listing), 0)
  BY <1>1, <1>2, <1>3, <1>4 DEF LeftOf
<1>6. ReadTo(<<>>, path, 0)
  BY DEF ReadTo
<1> QED BY <1>5, <1>6

LEMMA ReadLast ==
  ASSUME NEW d, LeftOf(<<>>, d)
  PROVE  d = Len(Listing)
<1>1. Len(<<>>) = Len(Listing) - d /\ d \in 0 .. Len(Listing) /\ Len(Listing) \in Nat
  BY ListingIs DEF LeftOf
<1>2. Len(<<>>) = 0
  OBVIOUS
<1> QED BY <1>1, <1>2

-----------------------------------------------------------------------------
(* What is run, and what was checked                                       *)

\* The library, the files that were read, and the entry.
PutTogether(all, ms, text) ==
  LET a == Len(Library)
      b == Len(ms)
  IN /\ a \in Nat /\ b \in Nat /\ Len(all) = a + b + 1 /\ Modules(all)
     /\ \A n \in 1 .. a : all[n] = [file |-> LibraryStart + n, text |-> Library[n]]
     /\ \A n \in 1 .. b : all[a + n] = ms[n]
     /\ all[a + b + 1] = EntryModule(text)

LEMMA MergedIs ==
  ASSUME NEW ms \in Seq(ReadModules), NEW text \in Texts, NEW all,
         all = Append(LibraryModules \o ms, EntryModule(text))
  PROVE  PutTogether(all, ms, text)
<1> DEFINE a == Len(Library)
           b == Len(ms)
           S == {m \in [file : Int, path : Paths, text : Texts]
                   \union [file : Int, text : Texts] : IsModule(m)}
<1>1. /\ Library \in Seq(Texts) /\ a \in Nat /\ DOMAIN Library = 1 .. a /\ b \in Nat
      /\ \A n \in 1 .. a : Library[n] \in Texts
  BY LibraryParses, LenProperties
<1>2. /\ LibraryModules \in Seq(S) /\ Len(LibraryModules) = a
      /\ \A n \in 1 .. a : LibraryModules[n] = [file |-> LibraryStart + n, text |-> Library[n]]
  <2>1. LibraryModules = [n \in 1 .. a |-> [file |-> LibraryStart + n, text |-> Library[n]]]
    BY <1>1 DEF LibraryModules
  <2>2. \A n \in 1 .. a : [file |-> LibraryStart + n, text |-> Library[n]] \in S
    BY <1>1 DEF IsModule, Texts, LibraryStart
  <2> HIDE DEF S
  <2>3. LibraryModules \in [1 .. a -> S]
    BY <2>1, <2>2
  <2>4. PICK c \in Nat : c = a
    BY <1>1
  <2>5. LibraryModules \in Seq(S) /\ Len(LibraryModules) = a
    BY ONLY c \in Nat, <2>3, <2>4
  <2> QED BY <2>1, <2>5
<1>3. ms \in Seq(S)
  <2>1. ReadModules \subseteq S
    BY PathsNumbered DEF IsModule, Texts, ReadModules
  <2> HIDE DEF S
  <2> QED BY <2>1, WiderSeq
<1>4. EntryModule(text) \in S
  BY DEF EntryModule, IsModule, Texts, Entry
<1>5. \A m \in S : IsModule(m)
  OBVIOUS
<1> HIDE DEF S
<1> DEFINE both == LibraryModules \o ms
<1>6. /\ both \in Seq(S) /\ Len(both) = a + b
      /\ \A n \in 1 .. a : both[n] = LibraryModules[n]
      /\ \A n \in 1 .. b : both[a + n] = ms[n]
  <2>1. both \in Seq(S)
    BY <1>2, <1>3, ConcatProperties
  <2>2. Joined(LibraryModules, ms)
    BY <1>2, <1>3, JoinedIs
  <2> QED BY <1>2, <2>1, <2>2, Zenon DEF Joined
<1> HIDE DEF both
<1>7. /\ all \in Seq(S) /\ Len(all) = a + b + 1 /\ all[a + b + 1] = EntryModule(text)
      /\ \A n \in 1 .. (a + b) : all[n] = both[n]
  <2>0. PICK e \in S : e = EntryModule(text)
    BY <1>4
  <2>1. all = Append(both, e)
    BY <2>0 DEF both
  <2>a. both \in Seq(S)
    BY <1>6
  <2>3. Append(both, e) \in Seq(S) /\ Len(Append(both, e)) = Len(both) + 1
    BY ONLY <2>a, e \in S, WithLast
  <2>4. Append(both, e)[Len(both) + 1] = e
    BY ONLY <2>a, e \in S, WithLast
  <2>5. \A n \in 1 .. Len(both) : Append(both, e)[n] = both[n]
    BY ONLY <2>a, e \in S, WithLast
  <2>2. /\ all \in Seq(S) /\ Len(all) = Len(both) + 1 /\ all[Len(both) + 1] = EntryModule(text)
        /\ \A n \in 1 .. Len(both) : all[n] = both[n]
    BY <2>0, <2>1, <2>3, <2>4, <2>5
  <2> QED BY <1>6, <2>2
<1> HIDE DEF a, b
<1>8. \A n \in 1 .. a : all[n] = [file |-> LibraryStart + n, text |-> Library[n]]
  <2> TAKE n \in 1 .. a
  <2>1. n \in 1 .. (a + b)
    BY <1>1 DEF a, b
  <2> QED BY <1>2, <1>6, <1>7, <2>1
<1>9. \A n \in 1 .. b : all[a + n] = ms[n]
  <2> TAKE n \in 1 .. b
  <2>1. a + n \in 1 .. (a + b)
    BY <1>1
  <2> QED BY <1>6, <1>7, <2>1
<1>10. Modules(all)
  <2>1. Len(all) \in Nat /\ DOMAIN all = 1 .. Len(all) /\ \A n \in 1 .. Len(all) : all[n] \in S
    BY <1>7, LenProperties
  <2> QED BY <1>5, <2>1 DEF Modules
<1> QED BY <1>1, <1>7, <1>8, <1>9, <1>10 DEF PutTogether, a, b

\* What is given to the phases: the library, what was read, and the entry.
GivenTo(all, ms, path, d, text) ==
  /\ d \in 0 .. Len(Listing) /\ ReadTo(ms, path, d) /\ text \in Texts
  /\ all = Append(LibraryModules \o ms, EntryModule(text))

\* Each file has an id of its own.
LEMMA FilesApart ==
  ASSUME NEW ms, NEW path, NEW d, NEW text, NEW all, GivenTo(all, ms, path, d, text),
         NEW i \in 1 .. Len(all), NEW j \in 1 .. Len(all), all[i].file = all[j].file
  PROVE  i = j /\ (all[i].file = Entry => i = Len(all))
<1> DEFINE a == Len(Library)
           b == Len(ms)
<1>1. /\ ms \in Seq(ReadModules)
      /\ \A k \in 1 .. b : \E n \in 1 .. d : ms[k] = Read(n)
      /\ \A k, l \in 1 .. b : k < l => ms[k].file < ms[l].file
      /\ d \in 0 .. Len(Listing) /\ text \in Texts
      /\ all = Append(LibraryModules \o ms, EntryModule(text))
  BY DEF ReadTo, GivenTo
<1>2. /\ a \in Nat /\ b \in Nat /\ Len(all) = a + b + 1
      /\ \A n \in 1 .. a : all[n] = [file |-> LibraryStart + n, text |-> Library[n]]
      /\ \A n \in 1 .. b : all[a + n] = ms[n]
      /\ all[a + b + 1] = EntryModule(text)
  <2>1. PutTogether(all, ms, text)
    BY <1>1, MergedIs
  <2> QED BY <2>1, Zenon DEF PutTogether
<1>3. \A k \in 1 .. b : ms[k].file \in 1 .. LibraryStart
  <2> TAKE k \in 1 .. b
  <2>1. PICK n \in 1 .. d : ms[k] = Read(n)
    BY <1>1
  <2>2. ms[k].file = n
    BY <2>1 DEF Read
  <2>3. d <= Size /\ Size <= LibraryStart /\ Size \in Nat /\ d \in Nat
    BY <1>1, ListingIs, PathsNumbered
  <2> QED BY <2>2, <2>3 DEF LibraryStart
<1> HIDE DEF a, b
<1> DEFINE Kind(k) == \/ k \in 1 .. a /\ all[k].file = LibraryStart + k
                      \/ \E n \in 1 .. b : k = a + n /\ all[k].file = ms[n].file
                      \/ k = a + b + 1 /\ all[k].file = 0
<1>4. \A k \in 1 .. Len(all) : Kind(k)
  <2> TAKE k \in 1 .. Len(all)
  <2>1. \/ k \in 1 .. a
        \/ \E n \in 1 .. b : k = a + n
        \/ k = a + b + 1
    <3>1. k \in Nat /\ k >= 1 /\ k <= a + b + 1
      BY <1>2
    <3>2. CASE k > a /\ k # a + b + 1
      <4>1. k - a \in 1 .. b /\ k = a + (k - a)
        BY <1>2, <3>1, <3>2
      <4> QED BY <4>1
    <3> QED BY <1>2, <3>1, <3>2
  <2>2. CASE k \in 1 .. a
    <3>1. all[k] = [file |-> LibraryStart + k, text |-> Library[k]]
      BY <1>2, <2>2
    <3>2. all[k].file = LibraryStart + k
      BY ONLY <3>1
    <3> QED BY <2>2, <3>2
  <2>3. CASE \E n \in 1 .. b : k = a + n
    BY <1>2, <2>3
  <2>4. CASE k = a + b + 1
    BY <1>2, <2>4 DEF EntryModule, Entry
  <2> QED BY <2>1, <2>2, <2>3, <2>4
<1>5. Kind(i) /\ Kind(j)
  BY <1>4
<1> HIDE DEF Kind
<1>6. CASE i \in 1 .. a /\ all[i].file = LibraryStart + i
  <2>0. PICK k \in Nat : k = i /\ k >= 1
    BY <1>6
  <2>1. ~ \E n \in 1 .. b : j = a + n /\ all[j].file = ms[n].file
    <3> SUFFICES ASSUME NEW n \in 1 .. b, all[j].file = ms[n].file PROVE FALSE
      OBVIOUS
    <3>1. LibraryStart + k \in 1 .. LibraryStart
      BY <1>3, <1>6, <2>0
    <3> QED BY ONLY <3>1, <2>0, k \in Nat DEF LibraryStart
  <2>2. LibraryStart + i # 0
    BY <1>2, <1>6 DEF LibraryStart
  <2>3. j \in 1 .. a /\ all[j].file = LibraryStart + j
    BY <1>5, <1>6, <2>1, <2>2 DEF Kind
  <2>4. PICK n \in Nat : n = j
    BY <2>3
  <2>5. LibraryStart + k = LibraryStart + n
    BY <1>6, <2>0, <2>3, <2>4
  <2>6. k = n
    BY ONLY <2>5, k \in Nat, n \in Nat DEF LibraryStart
  <2> QED BY <1>6, <2>0, <2>2, <2>4, <2>6 DEF Entry
<1>7. CASE \E n \in 1 .. b : i = a + n /\ all[i].file = ms[n].file
  <2>1. PICK n \in 1 .. b : i = a + n /\ all[i].file = ms[n].file
    BY <1>7
  <2>2. CASE \E l \in 1 .. b : j = a + l /\ all[j].file = ms[l].file
    <3>1. PICK l \in 1 .. b : j = a + l /\ all[j].file = ms[l].file
      BY <2>2
    <3>2. ms[n].file = ms[l].file /\ ms[n].file \in Nat /\ ms[n].file # 0
      BY <1>3, <2>1, <3>1
    <3>3. ~(n < l) /\ ~(l < n)
      BY <1>1, <3>2 DEF b
    <3>4. n = l
      BY <1>2, <3>3
    <3> QED BY <2>1, <3>1, <3>2, <3>4 DEF Entry
  <2>3. ms[n].file \in 1 .. LibraryStart
    BY <1>3
  <2>4. ~(j \in 1 .. a /\ all[j].file = LibraryStart + j)
    <3> SUFFICES ASSUME j \in 1 .. a, ms[n].file = LibraryStart + j PROVE FALSE
      BY <2>1
    <3>1. PICK k \in Nat : k = j /\ k >= 1
      OBVIOUS
    <3>2. LibraryStart + k \in 1 .. LibraryStart
      BY <2>3, <3>1
    <3> QED BY ONLY <3>2, <3>1, k \in Nat DEF LibraryStart
  <2>6. ms[n].file # 0
    BY <2>3
  <2>5. all[j].file # 0
    BY <2>1, <2>6
  <2> QED BY <1>5, <2>2, <2>4, <2>5 DEF Kind
<1>8. CASE i = a + b + 1 /\ all[i].file = 0
  <2>1. CASE \E n \in 1 .. b : j = a + n /\ all[j].file = ms[n].file
    BY <1>3, <1>8, <2>1
  <2> QED BY <1>2, <1>5, <1>8, <2>1 DEF Kind, LibraryStart
<1> QED BY <1>5, <1>6, <1>7, <1>8 DEF Kind

\* The lines of the entry are those under its id.
EntryLaid(P, text) ==
  /\ IsText(P)
  /\ \A i \in DOMAIN P : P[i].file = Entry =>
       P[i].line \in DOMAIN text.lines /\ P[i].item = text.lines[P[i].line]
  /\ \A k \in DOMAIN text.lines : \E i \in DOMAIN P :
       P[i].file = Entry /\ P[i].line = k /\ P[i].item = text.lines[k]

LEMMA EntryPlaces ==
  ASSUME NEW ms, NEW path, NEW d, NEW text, NEW all, GivenTo(all, ms, path, d, text)
  PROVE  EntryLaid(Placed(all), text)
<1> DEFINE P == Placed(all)
           l == Len(all)
<1>1. Modules(all) /\ all[l] = EntryModule(text) /\ l \in Nat \ {0}
  <2>1. /\ ms \in Seq(ReadModules) /\ text \in Texts
        /\ all = Append(LibraryModules \o ms, EntryModule(text))
    BY DEF GivenTo, ReadTo
  <2>2. PICK a, b : /\ a \in Nat /\ b \in Nat /\ Len(all) = a + b + 1 /\ Modules(all)
                    /\ all[a + b + 1] = EntryModule(text)
    <3> DEFINE u == Len(Library)
               v == Len(ms)
    <3>1. PutTogether(all, ms, text)
      BY <2>1, MergedIs
    <3>2. /\ u \in Nat /\ v \in Nat /\ Len(all) = u + v + 1 /\ Modules(all)
          /\ all[u + v + 1] = EntryModule(text)
      BY <3>1, Zenon DEF PutTogether
    <3> QED BY ONLY <3>2, Zenon
  <2>3. l \in Nat \ {0}
    BY <2>2
  <2> QED BY <2>2, <2>3
<1>2. IsText(P) /\ \E start : Starts(start, all)
  BY <1>1, PlacedAt
<1>3. DOMAIN text.lines = 1 .. Len(text.lines)
  <2>1. text.lines \in Seq(Lines)
    BY DEF GivenTo, Texts
  <2> QED BY <2>1, LenProperties
<1>4. \A n \in 1 .. l : \A k \in 1 .. Len(all[n].text.lines) :
        /\ PlacedLines(all[n])[k].file = all[n].file
        /\ PlacedLines(all[n])[k].line = k
        /\ PlacedLines(all[n])[k].item = all[n].text.lines[k]
  BY <1>1, PlacedLinesOf DEF Modules
<1>5. PICK start : Starts(start, all)
  BY <1>2
<1>6. all[l].file = Entry /\ all[l].text = text
  BY <1>1 DEF EntryModule
<1>7. DOMAIN P = 1 .. Len(P)
  BY <1>2 DEF IsText
<1>8. ASSUME NEW i \in DOMAIN P, P[i].file = Entry
      PROVE  P[i].line \in DOMAIN text.lines /\ P[i].item = text.lines[P[i].line]
  <2>1. PICK n \in 1 .. l : \E k \in 1 .. Len(all[n].text.lines) : i = start[n - 1] + k
    BY <1>5, <1>7 DEF Starts
  <2>2. PICK k \in 1 .. Len(all[n].text.lines) : i = start[n - 1] + k
    BY <2>1
  <2>3. P[i] = PlacedLines(all[n])[k]
    BY <1>5, <2>2 DEF Starts
  <2>4. P[i].file = all[n].file /\ P[i].line = k /\ P[i].item = all[n].text.lines[k]
    BY <1>4, <2>1, <2>2, <2>3
  <2>5. n = l
    BY <1>8, <2>4, FilesApart
  <2> QED BY <1>3, <1>6, <2>4, <2>5
<1>9. ASSUME NEW k \in DOMAIN text.lines
      PROVE  \E i \in DOMAIN P :
               P[i].file = Entry /\ P[i].line = k /\ P[i].item = text.lines[k]
  <2>1. l \in 1 .. l /\ k \in 1 .. Len(all[l].text.lines)
    BY <1>1, <1>3, <1>6
  <2>2. PICK i : i = start[l - 1] + k
    OBVIOUS
  <2>3. i \in 1 .. Len(P) /\ P[i] = PlacedLines(all[l])[k]
    BY <1>5, <2>1, <2>2 DEF Starts
  <2> QED BY <1>4, <1>6, <1>7, <2>1, <2>3
<1> QED BY <1>2, <1>8, <1>9 DEF EntryLaid

\* The main function of a text without errors, and what it calls.
Mains(P) == {i \in DOMAIN P : /\ P[i].file = Entry /\ P[i].item.kind = "function"
                              /\ P[i].item.name = "main"}
MainMeans(P, text) ==
  LET main == Min(Mains(P))
      calls == P[main].item.calls
      to == Meant(P, main, calls).to
  IN /\ Mains(P) = {i \in DOMAIN P : P[i].file = Entry
                                     /\ P[i].line \in MainOf(text.lines)}
     /\ calls # Nowhere =>
          /\ to = 0 => Called(P, main, calls) = 0
          /\ to # 0 /\ P[to].item.kind = "function" => Called(P, main, calls) = to

LEMMA MainIs ==
  ASSUME NEW ms, NEW path, NEW d, NEW text, NEW all, GivenTo(all, ms, path, d, text),
         StaticErrors(Placed(all)) = {}, MainOf(text.lines) # {}
  PROVE  MainMeans(Placed(all), text)
<1> DEFINE P == Placed(all)
           main == Min(Mains(P))
           calls == P[main].item.calls
<1>1. /\ IsText(P)
      /\ \A i \in DOMAIN P : P[i].file = Entry =>
           P[i].line \in DOMAIN text.lines /\ P[i].item = text.lines[P[i].line]
      /\ \A k \in DOMAIN text.lines : \E i \in DOMAIN P :
           P[i].file = Entry /\ P[i].line = k /\ P[i].item = text.lines[k]
  <2>1. EntryLaid(P, text)
    BY EntryPlaces
  <2> HIDE DEF P
  <2> QED BY <2>1 DEF EntryLaid
<1> HIDE DEF P
<1>2. Mains(P) = {i \in DOMAIN P : P[i].file = Entry /\ P[i].line \in MainOf(text.lines)}
  BY <1>1 DEF Mains, MainOf
<1>3. main \in DOMAIN P
  <2>1. PICK k \in DOMAIN text.lines :
          text.lines[k].kind = "function" /\ text.lines[k].name = "main"
    BY DEF MainOf
  <2>2. Mains(P) # {}
    BY <1>1, <2>1 DEF Mains
  <2>3. Mains(P) \in SUBSET Nat
    BY <1>1 DEF Mains, IsText
  <2>4. Min(Mains(P)) \in Mains(P)
    BY <2>2, <2>3, LeastOf
  <2> QED BY <2>4 DEF Mains
<1>4. /\ Duplicates(P) = {}
      /\ \A i \in DOMAIN P : \A u \in Uses(P[i]) : Meant(P, i, u.name).code = "found"
  BY NoErrors DEF P
<1> HIDE DEF main
<1>5. ASSUME calls # Nowhere PROVE Meant(P, main, calls).code = "found"
  <2>1. [part |-> "calls", name |-> calls] \in Uses(P[main])
    BY <1>5 DEF Uses
  <2> QED BY <1>3, <1>4, <2>1
<1>6. ASSUME calls # Nowhere
      PROVE  /\ Meant(P, main, calls).to = 0 => Called(P, main, calls) = 0
             /\ Meant(P, main, calls).to # 0
                  /\ P[Meant(P, main, calls).to].item.kind = "function" =>
                    Called(P, main, calls) = Meant(P, main, calls).to
  BY <1>1, <1>3, <1>4, <1>5, <1>6, CalledIsMeant
<1> QED BY <1>2, <1>6 DEF MainMeans, P, main

-----------------------------------------------------------------------------
(* What run has of files that nobody edits                                 *)

\* What was checked: the library, every other file, and the entry.
Checked(w) ==
  /\ \E ms : GivenTo(w.checked, ms, w.path, Len(Listing), disk[w.path])
  /\ StaticErrors(Placed(w.checked)) = {}

\* What has been read so far, of the first d files.
Partly(w) == \E d : LeftOf(w.todo, d) /\ ReadTo(w.modules, w.path, d)

Sourced(s, w) ==
  /\ w.path \in {0} \union Paths
  /\ s \in {"entry", "list", "reread", "relist"} => w.modules = <<>>
  /\ s \in {"list", "load", "relist", "reload"} => w.entry = disk[w.path]
  /\ s = "load" /\ w.errors = {} => Partly(w)
  /\ s \in {"reread", "relist", "reload"} => Checked(w)
  /\ s \in {"relist", "reload"} => MainOf(w.entry.lines) # {}
  /\ s = "reload" => Partly(w)

RInv ==
  /\ ~disturbed /\ request.op = "run" => Sourced(stage, work)
  /\ RunsWhatWasChecked

\* All this is about the disk only.
LEMMA SourcedStill ==
  ASSUME NEW s, NEW w, Sourced(s, w), disk' = disk, stage' = s, work' = w
  PROVE  Sourced(stage, work)'
<1>1. Listing' = Listing
  BY DEF Listing, Present
<1>2. \A n : Read(n)' = Read(n)
  BY <1>1 DEF Read
<1>3. \A ms, path, d : ReadTo(ms, path, d)' <=> ReadTo(ms, path, d)
  BY <1>1, <1>2, ZenonT(60) DEF ReadTo
<1>4. \A todo, d : LeftOf(todo, d)' <=> LeftOf(todo, d)
  BY <1>1 DEF LeftOf
<1>5. \A all, ms, path, d, text :
        GivenTo(all, ms, path, d, text)' <=> GivenTo(all, ms, path, d, text)
  BY <1>1, <1>3 DEF GivenTo
<1>6. Partly(work)' <=> Partly(w)
  BY <1>3, <1>4 DEF Partly
<1>7. Checked(work)' <=> Checked(w)
  BY <1>1, <1>5 DEF Checked
<1> QED BY <1>6, <1>7 DEF Sourced

\* The command goes on, or ends with nothing run.
LEMMA OnwardRInv ==
  ASSUME NEW s, NEW w, ThenDo(s, w), s # "idle",
         ~disturbed /\ request.op = "run" => Sourced(s, w)
  PROVE  RInv'
<1>1. /\ stage' = s /\ work' = w /\ disk' = disk /\ request' = request
      /\ disturbed' = disturbed
  BY DEF ThenDo
<1>2. RunsWhatWasChecked'
  BY <1>1 DEF RunsWhatWasChecked, Agreed, Reported
<1>3. ASSUME ~disturbed', request'.op = "run" PROVE Sourced(stage, work)'
  <2>1. Sourced(s, w)
    BY <1>1, <1>3
  <2> QED BY <1>1, <2>1, SourcedStill
<1> QED BY <1>2, <1>3 DEF RInv

LEMMA SaidRInv ==
  ASSUME CInv, NEW r, Said(r), DOMAIN r = DOMAIN NoReport,
         request.op # "run" \/ r.errors # {}
  PROVE  RInv'
<1>1. /\ report' = [r EXCEPT !.op = request.op] /\ stage' = "idle" /\ work' = Fresh
      /\ request' = request /\ disturbed' = disturbed
  BY DEF Said
<1>2. report'.op = request.op /\ report'.errors = r.errors
  BY <1>1 DEF NoReport
<1>3. RunsWhatWasChecked'
  <2>1. ~Agreed("run")'
    BY <1>1, <1>2 DEF Agreed, Reported
  <2> QED BY <2>1, Zenon DEF RunsWhatWasChecked
<1>4. Sourced(stage, work)'
  BY <1>1 DEF Sourced, Fresh
<1> QED BY <1>3, <1>4 DEF RInv

LEMMA RefusedRInv ==
  ASSUME CInv, NEW errors, Refused(errors), errors # {}
  PROVE  RInv'
<1> DEFINE r == [NoReport EXCEPT !.errors = errors]
<1>1. Said(r) /\ DOMAIN r = DOMAIN NoReport /\ r.errors = errors
  BY DEF Refused, Answer, NoReport
<1> QED BY <1>1, SaidRInv

LEMMA AnswerRInv ==
  ASSUME CInv, NEW r, Answer(r), DOMAIN r = DOMAIN NoReport, request.op # "run"
  PROVE  RInv'
BY SaidRInv DEF Answer

LEMMA ResultRInv ==
  ASSUME CInv, NEW x, Answer(Result(x)), request.op # "run"
  PROVE  RInv'
BY AnswerRInv DEF Result

LEMMA WorkParts ==
  ASSUME CInv
  PROVE  DOMAIN work = {"entry", "path", "todo", "modules", "errors", "checked", "suite",
                        "results", "lines", "manifest", "syntax"}
BY DEF CInv, Holdings, Fresh

\* One file more has been read, or passed over.
LEMMA ReadNext ==
  ASSUME CInv, Partly(work), work.todo # <<>>, NEW w,
         LET path == Upcoming.path
         IN \/ path = work.path /\ w = Rest
            \/ path # work.path /\ Parses(disk[path]) /\ w = Loaded(path)
  PROVE  Partly(w)
<1> DEFINE path == Upcoming.path
<1>1. PICK d : LeftOf(work.todo, d) /\ ReadTo(work.modules, work.path, d)
  BY DEF Partly
<1>2. disk \in [{0} \union Paths -> Texts]
  BY DEF CInv, Holdings
<1>3. /\ LeftOf(Tail(work.todo), d + 1)
      /\ path = work.path => ReadTo(work.modules, work.path, d + 1)
      /\ path # work.path /\ Parses(disk[path]) =>
           ReadTo(Append(work.modules, [file |-> Upcoming.file, path |-> path,
                                        text |-> disk[path]]), work.path, d + 1)
  BY <1>1, <1>2, ReadOn DEF Upcoming
<1>4. DOMAIN work = {"entry", "path", "todo", "modules", "errors", "checked", "suite",
                     "results", "lines", "manifest", "syntax"}
  BY WorkParts
<1>5. Rest.todo = Tail(work.todo) /\ Rest.modules = work.modules /\ Rest.path = work.path
  BY <1>4 DEF Rest
<1>6. /\ Loaded(path).todo = Tail(work.todo) /\ Loaded(path).path = work.path
      /\ Loaded(path).modules = Append(work.modules, [file |-> Upcoming.file, path |-> path,
                                                      text |-> disk[path]])
  BY <1>4 DEF Loaded
<1> HIDE DEF path
<1> QED BY <1>3, <1>5, <1>6 DEF Partly, path

LEMMA LoadingRInv ==
  ASSUME CInv, RInv, ReadEntry \/ ListProject \/ LoadSibling \/ SupportFails
  PROVE  RInv'
<1> DEFINE Parts == {"entry", "path", "todo", "modules", "errors", "checked", "suite",
                     "results", "lines", "manifest", "syntax"}
           Running == ~disturbed /\ request.op = "run"
<1>1. DOMAIN work = Parts /\ (Running => Sourced(stage, work))
  BY WorkParts DEF RInv
<1>2. CASE ReadEntry
  <2>1. ASSUME ThenDo("list", [work EXCEPT !.entry = Text]) PROVE RInv'
    <3> DEFINE w == [work EXCEPT !.entry = Text]
    <3>1. w.path = work.path /\ w.modules = work.modules /\ w.entry = disk[work.path]
      BY <1>1 DEF Text
    <3>2. stage = "entry"
      BY <1>2 DEF ReadEntry
    <3> HIDE DEF w
    <3>3. Running => Sourced("list", w)
      BY <1>1, <3>1, <3>2 DEF Sourced
    <3> QED BY <2>1, <3>3, OnwardRInv DEF w
  <2>2. ASSUME request.op = "symbols", NEW x, Answer(Result(x)) PROVE RInv'
    BY <2>2, ResultRInv
  <2>3. ASSUME NEW e, Refused({e}) PROVE RInv'
    BY <2>3, RefusedRInv
  <2> QED BY <1>2, <2>1, <2>2, <2>3, Zenon DEF ReadEntry
<1>3. CASE ListProject
  <2> DEFINE w == IF request.bare THEN [work EXCEPT !.errors = {Trouble("scan")}]
                  ELSE [work EXCEPT !.todo = Numbered(Listing)]
  <2>1. ThenDo("load", w) /\ stage = "list"
    BY <1>3 DEF ListProject
  <2>2. /\ w.path = work.path /\ w.modules = work.modules /\ w.entry = work.entry
        /\ w.errors # {} \/ w.todo = Numbered(Listing)
    BY <1>1
  <2> HIDE DEF w
  <2>3. Running => Sourced("load", w)
    <3> SUFFICES ASSUME Running PROVE Sourced("load", w)
      OBVIOUS
    <3>1. /\ work.path \in {0} \union Paths /\ work.modules = <<>>
          /\ work.entry = disk[work.path]
      BY <1>1, <2>1 DEF Sourced
    <3>2. w.errors = {} => Partly(w)
      BY <2>2, <3>1, ReadFirst DEF Partly
    <3> QED BY <2>2, <3>1, <3>2 DEF Sourced
  <2> QED BY <2>1, <2>3, OnwardRInv
<1>4. CASE LoadSibling
  <2> DEFINE path == Upcoming.path
             bad(code) == [Rest EXCEPT !.errors = @ \union
                             {[code |-> code, file |-> Upcoming.file, line |-> 0]}]
             own == SkipsEntry /\ path = work.path
             w == CASE own -> Rest
                  [] ~own /\ disk[path] = Missing -> bad("read")
                  [] ~own /\ disk[path] # Missing /\ ~Parses(disk[path]) -> bad("parse")
                  [] OTHER -> Loaded(path)
  <2>1. ThenDo("load", w) /\ stage = "load" /\ work.todo # <<>>
    BY <1>4 DEF LoadSibling
  <2>2. /\ Rest.path = work.path /\ Rest.entry = work.entry /\ Rest.errors = work.errors
        /\ DOMAIN Rest = Parts
    BY <1>1 DEF Rest
  <2>3. /\ Loaded(path).path = work.path /\ Loaded(path).entry = work.entry
        /\ Loaded(path).errors = work.errors
    BY <1>1 DEF Loaded
  <2>4. \A code : /\ bad(code).path = work.path /\ bad(code).entry = work.entry
                  /\ bad(code).errors # {}
    BY <2>2
  <2>5. Missing.syntax = "missing"
    BY DEF Missing
  <2> HIDE DEF bad, path
  <2>6. ASSUME Running PROVE Sourced("load", w)
    <3>1. SkipsEntry
      BY <2>6 DEF SkipsEntry
    <3>2. /\ work.path \in {0} \union Paths /\ work.entry = disk[work.path]
          /\ work.errors = {} => Partly(work)
      BY <1>1, <2>1, <2>6 DEF Sourced
    <3>3. CASE path = work.path
      <4>1. w = Rest
        BY <3>1, <3>3
      <4>2. work.errors = {} => Partly(Rest)
        BY <2>1, <3>2, <3>3, ReadNext DEF path
      <4> HIDE DEF w
      <4> QED BY <2>2, <3>2, <4>1, <4>2 DEF Sourced
    <3>4. CASE path # work.path /\ ~Parses(disk[path])
      <4>1. w \in {bad("read"), bad("parse")}
        BY <3>4
      <4> HIDE DEF w
      <4>2. w.path = work.path /\ w.entry = work.entry /\ w.errors # {}
        BY <2>4, <4>1
      <4> QED BY <3>2, <4>2 DEF Sourced
    <3>5. CASE path # work.path /\ Parses(disk[path])
      <4>0. disk[path] # Missing
        BY <2>5, <3>5 DEF Parses
      <4>1. w = Loaded(path)
        BY <3>5, <4>0
      <4>2. work.errors = {} => Partly(Loaded(path))
        BY <2>1, <3>2, <3>5, ReadNext DEF path
      <4> HIDE DEF w
      <4> QED BY <2>3, <3>2, <4>1, <4>2 DEF Sourced
    <3> QED BY <3>3, <3>4, <3>5
  <2> HIDE DEF w
  <2> QED BY <2>1, <2>6, OnwardRInv
<1>5. CASE SupportFails
  BY <1>5, RefusedRInv DEF SupportFails
<1> QED BY <1>2, <1>3, <1>4, <1>5

LEMMA NoneWrong ==
  ASSUME NEW P, Errors(P) = {}
  PROVE  StaticErrors(P) = {}
<1> DEFINE static == StaticErrors(P)
<1>1. Errors(P) = IF static # {} THEN static ELSE VerifyErrors(P)
  BY DEF Errors
<1> HIDE DEF static
<1> QED BY <1>1 DEF static

\* What is run is what was checked, once everything is read again.
LEMMA ReadAgain ==
  ASSUME NEW w, Partly(w), w.todo = <<>>, w.entry = disk[w.path],
         NEW ms, GivenTo(w.checked, ms, w.path, Len(Listing), disk[w.path])
  PROVE  Append(LibraryModules \o w.modules, EntryModule(w.entry)) = w.checked
<1>1. PICK d : LeftOf(<<>>, d) /\ ReadTo(w.modules, w.path, d)
  BY DEF Partly
<1>2. d = Len(Listing)
  BY <1>1, ReadLast
<1>3. /\ ReadTo(ms, w.path, Len(Listing)) /\ Len(Listing) \in Nat
      /\ w.checked = Append(LibraryModules \o ms, EntryModule(disk[w.path]))
  BY ListingIs DEF GivenTo
<1>4. w.modules = ms
  BY <1>1, <1>2, <1>3, SameRead
<1> QED BY <1>3, <1>4

\* Everything parses that was checked.
LEMMA CheckedParses ==
  ASSUME NEW w, Checked(w), NEW d, LeftOf(w.todo, d), w.todo # <<>>,
         Head(w.todo).path # w.path
  PROVE  Parses(disk[Head(w.todo).path])
<1>1. PICK ms : GivenTo(w.checked, ms, w.path, Len(Listing), disk[w.path])
  BY DEF Checked
<1>2. ReadTo(ms, w.path, Len(Listing))
  BY <1>1 DEF GivenTo
<1>3. PICK n \in 1 .. Len(Listing) : Head(w.todo).path = Listing[n]
  <2>1. /\ w.todo \in Seq(Upcomings) /\ Len(w.todo) = Len(Listing) - d
        /\ d \in 0 .. Len(Listing) /\ Len(Listing) \in Nat
        /\ \A i \in 1 .. Len(w.todo) : w.todo[i] = [path |-> Listing[d + i], file |-> d + i]
    BY ListingIs DEF LeftOf
  <2>2. Len(w.todo) \in Nat \ {0} /\ Head(w.todo) = w.todo[1]
    BY <2>1, LenProperties, EmptySeq
  <2>3. PICK e : e = d + 1
    OBVIOUS
  <2>4. 1 \in 1 .. Len(w.todo) /\ e \in 1 .. Len(Listing)
    BY <2>1, <2>2, <2>3
  <2>5. w.todo[1] = [path |-> Listing[e], file |-> e]
    BY <2>1, <2>3, <2>4
  <2>6. w.todo[1].path = Listing[e]
    BY ONLY <2>5
  <2> QED BY <2>2, <2>4, <2>6
<1>4. PICK i \in 1 .. Len(ms) : ms[i] = Read(n)
  BY <1>2, <1>3 DEF ReadTo
<1>5. PICK k \in 1 .. Len(Listing) : Parses(disk[Listing[k]]) /\ ms[i] = Read(k)
  BY <1>2, <1>4 DEF ReadTo
<1>6. k = n
  BY <1>4, <1>5 DEF Read
<1> QED BY <1>3, <1>5, <1>6

LEMMA RunningRInv ==
  ASSUME CInv, RInv, Build \/ RereadEntry \/ Relist \/ Reload
  PROVE  RInv'
<1> DEFINE Parts == {"entry", "path", "todo", "modules", "errors", "checked", "suite",
                     "results", "lines", "manifest", "syntax"}
           Running == ~disturbed /\ request.op = "run"
<1>1. DOMAIN work = Parts /\ (Running => Sourced(stage, work))
  BY WorkParts DEF RInv
<1>2. CASE Build
  <2> DEFINE errors == Errors(Placed(Merged))
             w == [work EXCEPT !.checked = Merged, !.modules = <<>>]
  <2>0. stage = "load" /\ work.todo = <<>> /\ work.errors = {}
    BY <1>2 DEF Build, ReadAll
  <2>1. CASE errors # {} /\ Refused(errors)
    BY <2>1, RefusedRInv
  <2>2. CASE request.op = "build" /\ Answer(Result(None))
    BY <2>2, ResultRInv
  <2>3. CASE errors = {} /\ ThenDo("reread", w)
    <3>1. w.path = work.path /\ w.modules = <<>> /\ w.checked = Merged
      BY <1>1
    <3> HIDE DEF w
    <3>2. ASSUME Running PROVE Sourced("reread", w)
      <4>1. /\ work.path \in {0} \union Paths /\ work.entry = disk[work.path]
            /\ Partly(work)
        BY <1>1, <2>0, <3>2 DEF Sourced
      <4>2. PICK d : LeftOf(<<>>, d) /\ ReadTo(work.modules, work.path, d)
        BY <2>0, <4>1 DEF Partly
      <4>3. d = Len(Listing)
        BY <4>2, ReadLast
      <4>4. disk[work.path] \in Texts
        BY <4>1 DEF CInv, Holdings
      <4>5. GivenTo(Merged, work.modules, work.path, Len(Listing), disk[work.path])
        BY <4>1, <4>2, <4>3, <4>4, ListingIs DEF GivenTo, Merged, Support
      <4>6. StaticErrors(Placed(Merged)) = {}
        BY <2>3, NoneWrong
      <4>7. Checked(w)
        BY <3>1, <4>5, <4>6 DEF Checked
      <4> QED BY <3>1, <4>1, <4>7 DEF Sourced
    <3> QED BY <2>3, <3>2, OnwardRInv
  <2> HIDE DEF w
  <2> QED BY <1>2, <2>1, <2>2, <2>3, Zenon DEF Build, w
<1>3. CASE RereadEntry
  <2> DEFINE w == [work EXCEPT !.entry = Text]
  <2>1. CASE \E e : Refused({e})
    BY <2>1, RefusedRInv
  <2>2. CASE MainOf(Text.lines) # {} /\ ThenDo("relist", w)
    <3>1. /\ w.path = work.path /\ w.modules = work.modules /\ w.checked = work.checked
          /\ w.entry = disk[work.path] /\ stage = "reread"
      BY <1>1, <1>3 DEF Text, RereadEntry
    <3>2. MainOf(w.entry.lines) # {}
      BY <2>2, <3>1 DEF Text
    <3> HIDE DEF w
    <3>3. Running => Sourced("relist", w)
      BY <1>1, <3>1, <3>2 DEF Sourced, Checked
    <3> QED BY <2>2, <3>3, OnwardRInv
  <2> HIDE DEF w
  <2> QED BY <1>3, <2>1, <2>2, Zenon DEF RereadEntry, w
<1>4. CASE Relist
  <2> DEFINE w == [work EXCEPT !.todo = Numbered(Listing)]
  <2>1. ThenDo("reload", w) /\ stage = "relist"
    BY <1>4 DEF Relist
  <2>2. /\ w.path = work.path /\ w.modules = work.modules /\ w.checked = work.checked
        /\ w.entry = work.entry /\ w.todo = Numbered(Listing)
    BY <1>1
  <2> HIDE DEF w
  <2>3. ASSUME Running PROVE Sourced("reload", w)
    <3>1. /\ work.path \in {0} \union Paths /\ work.modules = <<>> /\ Checked(work)
          /\ work.entry = disk[work.path] /\ MainOf(work.entry.lines) # {}
      BY <1>1, <2>1, <2>3 DEF Sourced
    <3>2. Partly(w)
      BY <2>2, <3>1, ReadFirst DEF Partly
    <3>3. Checked(w)
      BY <2>2, <3>1 DEF Checked
    <3> QED BY <2>2, <3>1, <3>2, <3>3 DEF Sourced
  <2> QED BY <2>1, <2>3, OnwardRInv
<1>5. CASE Reload
  <2> DEFINE path == Upcoming.path
             w == IF path = work.path \/ ~Parses(disk[path]) THEN Rest ELSE Loaded(path)
  <2>1. ThenDo("reload", w) /\ stage = "reload" /\ work.todo # <<>>
    BY <1>5 DEF Reload
  <2>2. /\ Rest.path = work.path /\ Rest.entry = work.entry /\ Rest.checked = work.checked
        /\ Loaded(path).path = work.path /\ Loaded(path).entry = work.entry
        /\ Loaded(path).checked = work.checked
    BY <1>1 DEF Rest, Loaded
  <2>3. w.path = work.path /\ w.entry = work.entry /\ w.checked = work.checked
    BY <2>2
  <2>4. ASSUME Running PROVE Sourced("reload", w)
    <3>1. /\ work.path \in {0} \union Paths /\ Checked(work) /\ Partly(work)
          /\ work.entry = disk[work.path] /\ MainOf(work.entry.lines) # {}
      BY <1>1, <2>1, <2>4 DEF Sourced
    <3>2. path # work.path => Parses(disk[path])
      <4>1. PICK d : LeftOf(work.todo, d)
        BY <3>1 DEF Partly
      <4> QED BY <2>1, <3>1, <4>1, CheckedParses DEF Upcoming
    <3>3. Partly(w)
      BY <2>1, <3>1, <3>2, ReadNext
    <3> HIDE DEF w
    <3>4. Checked(w)
      BY <2>3, <3>1 DEF Checked
    <3> QED BY <2>3, <3>1, <3>3, <3>4 DEF Sourced
  <2> HIDE DEF w
  <2> QED BY <2>1, <2>4, OnwardRInv
<1> QED BY <1>2, <1>3, <1>4, <1>5

\* What run says of the program it has run.
RanAsChecked(said) ==
  LET checked == Placed(said.ran.checked)
      main == Min(Mains(checked))
      calls == checked[main].item.calls
      callee == IF calls = Nowhere THEN 0 ELSE Meant(checked, main, calls).to
  IN /\ TypesFit(said.ran.checked, said.ran.registered)
     /\ {m.file : m \in Range(said.ran.checked)} =
          {m.file : m \in Range(said.ran.registered)}
     /\ callee = 0 => said.answer.out = 0
     /\ callee # 0 /\ checked[callee].item.kind = "function" =>
          said.answer.out = checked[callee].item.value

LEMMA RanIs == RunsWhatWasChecked <=> (Agreed("run") => RanAsChecked(report))
BY DEF RunsWhatWasChecked, RanAsChecked, Mains

\* The main function that is run, and what it calls.
Runs(P, text) ==
  LET main == Min({i \in DOMAIN P : P[i].file = Entry /\ P[i].line \in MainOf(text.lines)})
      calls == P[main].item.calls
  IN IF calls = Nowhere THEN 0 ELSE Called(P, main, calls)

LEMMA RunsAsChecked ==
  ASSUME NEW ms, NEW path, NEW d, NEW text, NEW all, GivenTo(all, ms, path, d, text),
         StaticErrors(Placed(all)) = {}, MainOf(text.lines) # {},
         NEW said, said.ran.checked = all, said.ran.registered = all,
         LET callee == Runs(Placed(all), text)
         IN said.answer.out = IF callee = 0 THEN 0 ELSE Placed(all)[callee].item.value
  PROVE  RanAsChecked(said)
<1> DEFINE P == Placed(all)
           main == Min(Mains(P))
           calls == P[main].item.calls
           to == Meant(P, main, calls).to
           callee == IF calls = Nowhere THEN 0 ELSE to
           other == Runs(P, text)
<1>1. /\ Mains(P) = {i \in DOMAIN P : P[i].file = Entry
                                      /\ P[i].line \in MainOf(text.lines)}
      /\ calls # Nowhere =>
           /\ to = 0 => Called(P, main, calls) = 0
           /\ to # 0 /\ P[to].item.kind = "function" => Called(P, main, calls) = to
  <2>1. MainMeans(P, text)
    BY MainIs, Zenon
  <2> QED BY <2>1, Zenon DEF MainMeans
<1> HIDE DEF P
<1>2. other = IF calls = Nowhere THEN 0 ELSE Called(P, main, calls)
  BY <1>1 DEF Runs
<1> HIDE DEF main, other, to
<1>3. /\ callee = 0 => other = 0
      /\ callee # 0 /\ P[callee].item.kind = "function" => other = callee
  BY <1>1, <1>2
<1>4. TypesFit(all, all)
  <2>1. \A i, j \in 1 .. Len(all) : all[i].file = all[j].file => i = j
    BY FilesApart
  <2>2. DOMAIN all = 1 .. Len(all)
    <3>1. Modules(all)
      <4>1. /\ ms \in Seq(ReadModules) /\ text \in Texts
            /\ all = Append(LibraryModules \o ms, EntryModule(text))
        BY DEF GivenTo, ReadTo
      <4>2. PutTogether(all, ms, text)
        BY <4>1, MergedIs
      <4> QED BY <4>2, Zenon DEF PutTogether
    <3> QED BY <3>1 DEF Modules
  <2> QED BY <2>1, <2>2 DEF TypesFit, Range
<1>5. said.answer.out = IF other = 0 THEN 0 ELSE P[other].item.value
  BY DEF P, other
<1>6. /\ callee = 0 => said.answer.out = 0
      /\ callee # 0 /\ P[callee].item.kind = "function" =>
           said.answer.out = P[callee].item.value
  BY <1>3, <1>5
<1> QED BY <1>4, <1>6 DEF RanAsChecked, P, main, to

LEMMA ExecuteRInv ==
  ASSUME CInv, RInv, Execute
  PROVE  RInv'
<1> DEFINE P == Placed(Merged)
           callee == Runs(P, work.entry)
           x == [out |-> IF callee = 0 THEN 0 ELSE P[callee].item.value]
           y == [checked |-> work.checked, registered |-> Merged]
           r == [Result(x) EXCEPT !.ran = y]
           Running == ~disturbed /\ request.op = "run"
<1>0. Running => Sourced(stage, work)
  BY DEF RInv
<1>1. stage = "reload" /\ work.todo = <<>>
  BY DEF Execute
<1>2. CASE Refused({Trouble("runtime")})
  BY <1>2, RefusedRInv
<1>3. CASE Answer(r)
  <2>1. DOMAIN r = DOMAIN NoReport /\ r.answer = x /\ r.ran = y
    BY DEF Result, NoReport
  <2>2. /\ report' = [r EXCEPT !.op = request.op] /\ stage' = "idle" /\ work' = Fresh
        /\ request' = request /\ disturbed' = disturbed
    BY <1>3 DEF Answer, Said
  <2> HIDE DEF r, y, x
  <2>3. report'.op = request.op /\ report'.answer = x /\ report'.ran = y
    BY <2>1, <2>2 DEF NoReport
  <2>4. Sourced(stage, work)'
    BY <2>2 DEF Sourced, Fresh
  <2>5. CASE ~Running
    <3>1. ~Agreed("run")'
      BY <2>2, <2>3, <2>5 DEF Agreed, Reported
    <3>2. RunsWhatWasChecked'
      BY <3>1, Zenon DEF RunsWhatWasChecked
    <3> QED BY <2>4, <3>2 DEF RInv
  <2>6. CASE Running
    <3>1. /\ Partly(work) /\ Checked(work) /\ work.entry = disk[work.path]
          /\ MainOf(work.entry.lines) # {}
      BY <1>0, <1>1, <2>6 DEF Sourced
    <3>2. PICK ms : GivenTo(work.checked, ms, work.path, Len(Listing), disk[work.path])
      BY <3>1 DEF Checked
    <3>3. Merged = work.checked
      BY <1>1, <3>1, <3>2, ReadAgain DEF Merged, Support
    <3>4. PICK all : all = Merged
      OBVIOUS
    <3>5. PICK text : text = work.entry
      OBVIOUS
    <3>6. PICK path, d : GivenTo(all, ms, path, d, text)
      BY <3>1, <3>2, <3>3, <3>4, <3>5
    <3>7. StaticErrors(Placed(all)) = {} /\ MainOf(text.lines) # {}
      BY <3>1, <3>3, <3>4, <3>5 DEF Checked
    <3>8. PICK said : said = report'
      OBVIOUS
    <3>9. said.ran.checked = all /\ said.ran.registered = all
      BY <2>3, <3>3, <3>4, <3>8 DEF y
    <3>10. LET to == Runs(Placed(all), text)
           IN said.answer.out = IF to = 0 THEN 0 ELSE Placed(all)[to].item.value
      BY <2>3, <3>4, <3>5, <3>8 DEF x
    <3>11. RanAsChecked(said)
      BY <3>6, <3>7, <3>9, <3>10, RunsAsChecked
    <3>12. RanAsChecked(report)'
      BY <3>8, <3>11
    <3>13. RunsWhatWasChecked'
      BY <3>12, RanIs, PTL
    <3> QED BY <2>4, <3>13 DEF RInv
  <2> QED BY <2>5, <2>6
<1>4. Refused({Trouble("runtime")}) \/ Answer(r)
  BY Zenon DEF Execute, Runs
<1> QED BY <1>2, <1>3, <1>4

\* The steps of the other commands.
LEMMA ElsewhereRInv ==
  ASSUME CInv, request.op # "run",
         NEW s, NEW w, NEW r,
         \/ ThenDo(s, w) /\ s # "idle"
         \/ Said(r) /\ DOMAIN r = DOMAIN NoReport
  PROVE  RInv'
BY OnwardRInv, SaidRInv

LEMMA OthersRInv ==
  ASSUME CInv, RInv,
         \/ Collect \/ NextFile \/ SuiteEnds \/ TestFile
         \/ QueryRegistry \/ QueryPosition
         \/ Inputs \/ Gather \/ Validate \/ WriteBundle
         \/ FormatRead \/ FormatCompare \/ FormatReread \/ WriteFormatted
  PROVE  RInv'
<1>1. request.op # "run"
  <2>1. CASE Collect \/ NextFile \/ SuiteEnds
    BY <2>1 DEF Collect, NextFile, SuiteEnds, CInv, Staged
  <2>2. CASE TestFile
    BY <2>2 DEF TestFile
  <2>3. CASE QueryRegistry
    BY <2>3 DEF QueryRegistry
  <2>4. CASE QueryPosition
    BY <2>4 DEF QueryPosition
  <2>5. CASE Inputs \/ Gather \/ Validate
    BY <2>5 DEF Inputs, Gather, Validate, CInv, Staged
  <2>6. CASE WriteBundle \/ WriteFormatted
    BY <2>6 DEF WriteBundle, WriteFormatted
  <2>7. CASE FormatRead \/ FormatReread
    BY <2>7 DEF FormatRead, FormatReread, Formats
  <2>8. CASE FormatCompare
    BY <2>8 DEF FormatCompare, CInv, Staged, Formats
  <2> QED BY <2>1, <2>2, <2>3, <2>4, <2>5, <2>6, <2>7, <2>8
<1>2. \A x : DOMAIN Result(x) = DOMAIN NoReport
  BY DEF Result, NoReport
<1>3. \A x : DOMAIN [NoReport EXCEPT !.errors = x] = DOMAIN NoReport
  OBVIOUS
<1>4. \A x : DOMAIN [NoReport EXCEPT !.results = x] = DOMAIN NoReport
  OBVIOUS
<1>5. \A x : DOMAIN [NoReport EXCEPT !.manifest = x] = DOMAIN NoReport
  OBVIOUS
<1> DEFINE Onward == \E s, w : ThenDo(s, w) /\ s # "idle"
           Ends == \E r : Said(r) /\ DOMAIN r = DOMAIN NoReport
<1>6. Onward \/ Ends => RInv'
  BY <1>1, ElsewhereRInv
<1>7. \A x : Refused(x) => Ends
  BY <1>3 DEF Refused, Answer
<1>8. \A x : Answer(Result(x)) => Ends
  BY <1>2 DEF Answer
<1>9. \A x : Answer([NoReport EXCEPT !.results = x]) => Ends
  BY <1>4 DEF Answer
<1>10. \A s, w : ThenDo(s, w) /\ s # "idle" => Onward
  OBVIOUS
<1>11. \A w : /\ ThenDo("suite", w) => Onward
              /\ ThenDo("entry", w) => Onward
              /\ ThenDo("gather", w) => Onward
              /\ ThenDo("write", w) => Onward
              /\ ThenDo("original", w) => Onward
              /\ ThenDo("reread", w) => Onward
  BY <1>10
<1> HIDE DEF Onward, Ends
<1>12. CASE Collect \/ NextFile \/ SuiteEnds \/ TestFile
  BY <1>6, <1>7, <1>9, <1>11, <1>12, Zenon DEF Collect, NextFile, SuiteEnds, TestFile
<1>13. CASE QueryRegistry \/ QueryPosition
  BY <1>6, <1>7, <1>8, <1>13, Zenon DEF QueryRegistry, QueryPosition
<1>14. CASE Inputs \/ Gather \/ Validate
  BY <1>6, <1>7, <1>11, <1>14, Zenon DEF Inputs, Gather, Validate
<1>15. CASE WriteBundle
  BY <1>5, <1>6, <1>15 DEF WriteBundle, Ends
<1>16. CASE WriteFormatted
  BY <1>2, <1>6, <1>16 DEF WriteFormatted, Ends
<1>17. CASE FormatRead \/ FormatCompare \/ FormatReread
  BY <1>6, <1>7, <1>8, <1>11, <1>17, Zenon DEF FormatRead, FormatCompare, FormatReread
<1> QED BY <1>12, <1>13, <1>14, <1>15, <1>16, <1>17

LEMMA InitRInv == Init => RInv
<1> SUFFICES ASSUME Init PROVE RInv
  OBVIOUS
<1>1. /\ request = [op |-> "none", path |-> 0, bare |-> FALSE] /\ report = NoReport
  BY DEF Init, ShellInit
<1>2. ~Agreed("run")
  BY <1>1 DEF Agreed, Reported, NoReport
<1>3. RunsWhatWasChecked
  BY <1>2, Zenon DEF RunsWhatWasChecked
<1> QED BY <1>1, <1>3 DEF RInv

LEMMA StartRInv ==
  ASSUME CInv, RInv, Start
  PROVE  RInv'
<1>1. PICK q \in Requests :
        /\ request' = q
        /\ stage' = CASE q.op \in {"namespaces", "signature"} -> "list"
                    [] q.op = "bundle" -> "inputs"
                    [] q.op = "suite" -> "collect"
                    [] OTHER -> "entry"
        /\ work' = [Fresh EXCEPT !.path = q.path]
  BY DEF Start
<1>2. report' = NoReport
  BY DEF Start
<1>3. RunsWhatWasChecked'
  <2>1. ~Agreed("run")'
    BY <1>2 DEF Agreed, Reported, NoReport
  <2> QED BY <2>1, Zenon DEF RunsWhatWasChecked
<1>4. ASSUME request'.op = "run" PROVE Sourced(stage, work)'
  <2>1. stage' = "entry"
    BY <1>1, <1>4
  <2>2. work'.path \in {0} \union Paths /\ work'.modules = <<>>
    BY <1>1, ProjectsHoldTexts DEF Fresh
  <2> QED BY <2>1, <2>2 DEF Sourced
<1> QED BY <1>3, <1>4 DEF RInv

LEMMA EditRInv ==
  ASSUME Edit
  PROVE  RInv'
<1>1. disturbed' = TRUE
  BY DEF Edit
<1>2. ~Agreed("run")'
  BY <1>1 DEF Agreed, Reported
<1>3. RunsWhatWasChecked'
  BY <1>2, Zenon DEF RunsWhatWasChecked
<1> QED BY <1>1, <1>3 DEF RInv

LEMMA StillRInv ==
  ASSUME RInv, UNCHANGED shell
  PROVE  RInv'
<1>1. /\ disk' = disk /\ request' = request /\ stage' = stage /\ work' = work
      /\ disturbed' = disturbed /\ report' = report
  BY DEF shell
<1>2. RunsWhatWasChecked'
  BY <1>1, ZenonT(60) DEF RInv, RunsWhatWasChecked, Agreed, Reported
<1>3. CASE disturbed \/ request.op # "run"
  BY <1>1, <1>2, <1>3 DEF RInv
<1>4. CASE ~disturbed /\ request.op = "run"
  <2>1. Sourced(stage, work)
    BY <1>4 DEF RInv
  <2>2. PICK s, w : s = stage /\ w = work
    OBVIOUS
  <2>9. Sourced(stage, work)'
    BY <1>1, <2>1, <2>2, SourcedStill
  <2> QED BY <1>2, <2>9 DEF RInv
<1> QED BY <1>3, <1>4

LEMMA StepRInv == CInv /\ RInv /\ [Next]_vars => RInv'
<1> SUFFICES ASSUME CInv, RInv, [Next]_vars PROVE RInv'
  OBVIOUS
<1>1. CASE UNCHANGED shell
  BY <1>1, StillRInv
<1>2. CASE Start \/ Edit
  BY <1>2, StartRInv, EditRInv
<1>3. CASE Work
  BY <1>3, LoadingRInv, RunningRInv, ExecuteRInv, OthersRInv DEF Work
<1> QED BY <1>1, <1>2, <1>3 DEF Next, ShellNext, vars

-----------------------------------------------------------------------------
(* Two texts with the same declarations                                    *)

\* Two texts with the same declarations, in another order perhaps: f takes
\* each place of the one to its place in the other.
SameDeclared(P, Q, f) ==
  /\ IsText(P) /\ IsText(Q) /\ f \in [DOMAIN P -> DOMAIN Q]
  /\ \A i, j \in DOMAIN P : f[i] = f[j] => i = j
  /\ \A k \in DOMAIN Q : \E i \in DOMAIN P : f[i] = k
  /\ \A i \in DOMAIN P :
       /\ Q[f[i]].ns = P[i].ns
       /\ InLibrary(Q[f[i]]) <=> InLibrary(P[i])
       /\ Declares(Q[f[i]]) <=> Declares(P[i])
       /\ Declares(P[i]) => Q[f[i]].item = P[i].item

LEMMA SameOwner ==
  ASSUME NEW P, NEW Q, NEW f, SameDeclared(P, Q, f), NEW i \in DOMAIN P, Declares(P[i])
  PROVE  /\ Declares(Q[f[i]]) /\ f[i] \in DOMAIN Q /\ Q[f[i]].item = P[i].item
         /\ Owner(Q[f[i]]) = Owner(P[i]) /\ FullName(Q[f[i]]) = FullName(P[i])
         /\ IsPublic(Q[f[i]]) = IsPublic(P[i])
<1>1. /\ Declares(Q[f[i]]) /\ f[i] \in DOMAIN Q /\ Q[f[i]].item = P[i].item
      /\ Q[f[i]].ns = P[i].ns
  BY DEF SameDeclared
<1>2. Owner(Q[f[i]]) = Owner(P[i])
  BY <1>1 DEF Owner
<1> QED BY <1>1, <1>2 DEF FullName, IsPublic

LEMMA SameDeclarations ==
  ASSUME NEW P, NEW Q, NEW f, SameDeclared(P, Q, f), NEW name
  PROVE  /\ \A i \in DOMAIN P :
              i \in Declarations(P, name) <=> f[i] \in Declarations(Q, name)
         /\ \A k \in Declarations(Q, name) : \E i \in Declarations(P, name) : f[i] = k
         /\ Declarations(P, name) = {} <=> Declarations(Q, name) = {}
         /\ Definition(P, name) = 0 <=> Definition(Q, name) = 0
<1>1. ASSUME NEW i \in DOMAIN P
      PROVE  i \in Declarations(P, name) <=> f[i] \in Declarations(Q, name)
  <2>1. f[i] \in DOMAIN Q /\ (Declares(Q[f[i]]) <=> Declares(P[i]))
    BY DEF SameDeclared
  <2>2. Declares(P[i]) => FullName(Q[f[i]]) = FullName(P[i])
    BY SameOwner
  <2> QED BY <2>1, <2>2 DEF Declarations
<1>2. \A k \in DOMAIN Q : \E i \in DOMAIN P : f[i] = k
  BY DEF SameDeclared
<1>3. \A k \in Declarations(Q, name) : \E i \in Declarations(P, name) : f[i] = k
  <2> TAKE k \in Declarations(Q, name)
  <2>1. k \in DOMAIN Q
    BY DEF Declarations
  <2> QED BY <1>1, <1>2, <2>1
<1>4. Declarations(P, name) = {} <=> Declarations(Q, name) = {}
  <2>1. \A i \in Declarations(P, name) : i \in DOMAIN P
    BY DEF Declarations
  <2> QED BY <1>1, <1>3, <2>1
<1>5. /\ IsText(P) /\ IsText(Q)
      /\ \A T : IsText(T) => (Definition(T, name) = 0 <=> Declarations(T, name) = {})
  <2>1. ASSUME NEW T, IsText(T)
        PROVE  Definition(T, name) = 0 <=> Declarations(T, name) = {}
    <3>1. 0 \notin Declarations(T, name)
      BY <2>1 DEF Declarations, IsText
    <3> QED BY <2>1, <3>1, DefinitionIs
  <2> QED BY <2>1 DEF SameDeclared
<1> QED BY <1>1, <1>3, <1>4, <1>5

\* The one in the other text that stands for what is defined here: it has the
\* name, the visibility, the kind and, if it is a function, the value.
Kin(x, y) ==
  /\ Owner(x) = Owner(y) /\ FullName(x) = FullName(y) /\ IsPublic(x) = IsPublic(y)
  /\ x.item.kind = y.item.kind
  /\ x.item.kind = "function" => x.item.value = y.item.value

StandsFor(P, Q, d, e) ==
  /\ d = 0 <=> e = 0
  /\ d # 0 => d \in DOMAIN P /\ e \in DOMAIN Q /\ Kin(P[d], Q[e])

LEMMA DefinitionKin ==
  ASSUME NEW P, NEW Q, NEW f, SameDeclared(P, Q, f), Duplicates(Q) = {}, NEW name
  PROVE  StandsFor(P, Q, Definition(P, name), Definition(Q, name))
<1> DEFINE d == Definition(P, name)
           e == Definition(Q, name)
<1>a. IsText(P) /\ IsText(Q) /\ (d = 0 <=> e = 0)
  BY SameDeclarations DEF SameDeclared
<1> SUFFICES ASSUME d # 0 PROVE d \in DOMAIN P /\ e \in DOMAIN Q /\ Kin(P[d], Q[e])
  BY <1>a DEF StandsFor
<1>1. IsText(P) /\ IsText(Q) /\ e # 0
  BY <1>a
<1>2. d \in Declarations(P, name) /\ e \in Declarations(Q, name)
  BY <1>1, DefinitionIs
<1>3. /\ d \in DOMAIN P /\ Declares(P[d]) /\ FullName(P[d]) = name
      /\ e \in DOMAIN Q /\ Declares(Q[e]) /\ FullName(Q[e]) = name
  BY <1>2 DEF Declarations
<1> HIDE DEF d, e
<1>4. /\ Declares(Q[f[d]]) /\ f[d] \in DOMAIN Q /\ Q[f[d]].item = P[d].item
      /\ Owner(Q[f[d]]) = Owner(P[d]) /\ FullName(Q[f[d]]) = FullName(P[d])
      /\ IsPublic(Q[f[d]]) = IsPublic(P[d])
  BY <1>3, SameOwner
<1>5. CASE f[d] = e
  BY <1>1, <1>3, <1>4, <1>5 DEF Kin, d, e
<1>6. CASE f[d] # e
  <2>1. LibraryBoth(Q, e, f[d])
    BY <1>1, <1>3, <1>4, <1>6, Unrepeated
  <2>2. P[d].item.kind = "namespace" /\ Q[e].item.kind = "namespace"
    BY <1>4, <2>1 DEF LibraryBoth
  <2>3. Owner(P[d]) = "" /\ Owner(Q[e]) = ""
    BY <2>2 DEF Owner
  <2>4. Kin(P[d], Q[e])
    BY <1>3, <2>2, <2>3 DEF Kin, IsPublic
  <2> QED BY <1>1, <1>3, <2>4 DEF d, e
<1> QED BY <1>5, <1>6

\* The same holds for the only other namespace's.
LEMMA ElsewhereKin ==
  ASSUME NEW P, NEW Q, NEW f, SameDeclared(P, Q, f), NEW ns, NEW leaf
  PROVE  StandsFor(P, Q, OnlyElsewhere(P, ns, leaf), OnlyElsewhere(Q, ns, leaf))
<1> DEFINE Found(T) == {i \in DOMAIN T : /\ Declares(T[i])
                                         /\ Owner(T[i]) \notin {"", ns}
                                         /\ T[i].item.name = leaf}
           A == Found(P)
           B == Found(Q)
           g == [i \in A |-> f[i]]
<1>1. /\ OnlyElsewhere(P, ns, leaf) = IF Cardinality(A) = 1 THEN Max(A) ELSE 0
      /\ OnlyElsewhere(Q, ns, leaf) = IF Cardinality(B) = 1 THEN Max(B) ELSE 0
  BY DEF OnlyElsewhere
<1>2. /\ IsText(P) /\ IsText(Q) /\ f \in [DOMAIN P -> DOMAIN Q]
      /\ \A i, j \in DOMAIN P : f[i] = f[j] => i = j
      /\ \A k \in DOMAIN Q : \E i \in DOMAIN P : f[i] = k
      /\ \A i \in DOMAIN P : Declares(Q[f[i]]) <=> Declares(P[i])
  BY DEF SameDeclared
<1>a. \A i \in DOMAIN P : Declares(P[i]) =>
        /\ Owner(Q[f[i]]) = Owner(P[i]) /\ Q[f[i]].item = P[i].item
        /\ FullName(Q[f[i]]) = FullName(P[i]) /\ IsPublic(Q[f[i]]) = IsPublic(P[i])
  BY SameOwner
<1>3. \A i \in DOMAIN P : i \in A <=> f[i] \in B
  <2> TAKE i \in DOMAIN P
  <2>1. f[i] \in DOMAIN Q /\ (Declares(Q[f[i]]) <=> Declares(P[i]))
    BY <1>2
  <2> QED BY <1>a, <2>1, Zenon
<1>4. A \subseteq DOMAIN P /\ B \subseteq DOMAIN Q
  OBVIOUS
<1>5. \A i \in A : Kin(P[i], Q[f[i]])
  <2> TAKE i \in A
  <2>1. i \in DOMAIN P /\ Declares(P[i])
    OBVIOUS
  <2> QED BY <1>a, <2>1 DEF Kin
<1> HIDE DEF Found
<1>6. g \in Bijection(A, B)
  <2>1. g \in [A -> B]
    BY <1>3, <1>4
  <2>2. \A i, j \in A : g[i] = g[j] => i = j
    BY <1>2, <1>4
  <2>3. \A k \in B : \E i \in A : g[i] = k
    BY <1>2, <1>3, <1>4
  <2> QED BY <2>1, <2>2, <2>3 DEF Bijection, Injection, Surjection, IsInjective
<1>7. IsFiniteSet(A) /\ A \in SUBSET (0 .. Len(P)) /\ B \in SUBSET (0 .. Len(Q))
      /\ Len(P) \in Nat /\ Len(Q) \in Nat
  <2>1. DOMAIN P = 1 .. Len(P) /\ DOMAIN Q = 1 .. Len(Q) /\ Len(P) \in Nat /\ Len(Q) \in Nat
    BY <1>2 DEF IsText
  <2>2. IsFiniteSet(1 .. Len(P))
    BY <2>1, FS_Interval
  <2> QED BY <1>4, <2>1, <2>2, FS_Subset
<1>8. Cardinality(A) = Cardinality(B)
  BY <1>6, <1>7, FS_Bijection DEF ExistsBijection
<1>9. CASE Cardinality(A) # 1
  BY <1>1, <1>8, <1>9 DEF StandsFor
<1>10. CASE Cardinality(A) = 1
  <2>1. PICK a : A = {a}
    BY <1>7, <1>10, FS_Singleton
  <2>2. B = {f[a]}
    <3>1. f[a] \in B
      BY <1>3, <1>4, <2>1
    <3>2. \A k \in B : k = f[a]
      BY <1>2, <1>3, <1>4, <2>1
    <3> QED BY <3>1, <3>2
  <2>3. Max(A) = a /\ Max(B) = f[a]
    <3>1. \A n \in Nat : \A S \in SUBSET (0 .. n) : S # {} => Max(S) \in S
      BY GreatestNatural DEF Max
    <3> QED BY <1>7, <2>1, <2>2, <3>1
  <2>4. a # 0 /\ f[a] # 0 /\ a \in DOMAIN P /\ f[a] \in DOMAIN Q
    <3>1. a \in DOMAIN P /\ f[a] \in DOMAIN Q
      BY <1>4, <2>1, <2>2
    <3> QED BY <1>2, <3>1 DEF IsText
  <2>5. OnlyElsewhere(P, ns, leaf) = a /\ OnlyElsewhere(Q, ns, leaf) = f[a]
    BY <1>1, <1>8, <1>10, <2>3
  <2>6. Kin(P[a], Q[f[a]])
    BY <1>5, <2>1
  <2> QED BY <2>4, <2>5, <2>6 DEF StandsFor
<1> QED BY <1>9, <1>10

\* What a reference is told of its definition depends on the order only in
\* whether it is forward.
LEMMA RecordedKin ==
  ASSUME NEW P, NEW Q, NEW i, NEW k, NEW d, NEW e, NEW name,
         P[i].ns = Q[k].ns, Kin(P[d], Q[e])
  PROVE  LET m == Recorded(P, i, name, d)
             n == Recorded(Q, k, name, e)
         IN /\ m.to = d /\ n.to = e
            /\ n.code = "found" => m.code \in {"found", "forward_reference"}
<1> DEFINE private == ~IsPublic(P[d]) /\ Owner(P[d]) # P[i].ns
           bare == name[1] = "" /\ Owner(P[d]) \notin {"", P[i].ns}
           m == Recorded(P, i, name, d)
           n == Recorded(Q, k, name, e)
<1>1. IsPublic(P[d]) = IsPublic(Q[e]) /\ Owner(P[d]) = Owner(Q[e])
  BY DEF Kin
<1>2. /\ m.to = d
      /\ m.code = IF private THEN "private" ELSE IF bare THEN "qualifier_required"
                  ELSE IF d > i THEN "forward_reference" ELSE "found"
  BY DEF Recorded
<1>3. /\ n.to = e
      /\ n.code = IF private THEN "private" ELSE IF bare THEN "qualifier_required"
                  ELSE IF e > k THEN "forward_reference" ELSE "found"
  BY <1>1 DEF Recorded
<1> HIDE DEF private, bare, m, n
<1>4. n.code = "found" => m.code \in {"found", "forward_reference"}
  BY <1>2, <1>3
<1> QED BY <1>2, <1>3, <1>4 DEF m, n

MeantAlike(P, Q, m, n) ==
  /\ n.code = "found" => m.code \in {"found", "forward_reference"}
  /\ StandsFor(P, Q, m.to, n.to)

\* So does what a name means.
LEMMA OrderOnly ==
  ASSUME NEW P, NEW Q, NEW f, SameDeclared(P, Q, f), Duplicates(Q) = {},
         NEW i \in DOMAIN P, NEW name
  PROVE  MeantAlike(P, Q, Meant(P, i, name), Meant(Q, f[i], name))
<1> DEFINE k == f[i]
           inside == <<P[i].ns, name[2]>>
           own(T) == IF inside \in Prelude THEN 0 ELSE Definition(T, inside)
           named(T) == Definition(T, name)
           elsewhere(T) == OnlyElsewhere(T, P[i].ns, name[2])
           prefix(T) == Definition(T, <<"", name[1]>>)
           plain == name[1] = ""
           unknown == [code |-> "unknown", to |-> 0]
           nearer(T) == plain /\ own(T) # 0
           known(T) == nearer(T) \/ name \in Prelude \/ named(T) # 0
           m == Meant(P, i, name)
           n == Meant(Q, k, name)
<1>1. Q[k].ns = P[i].ns /\ k \in DOMAIN Q
  BY DEF SameDeclared
<1>2. /\ own(P) = 0 <=> own(Q) = 0
      /\ named(P) = 0 <=> named(Q) = 0
      /\ prefix(P) = 0 <=> prefix(Q) = 0
      /\ elsewhere(P) = 0 <=> elsewhere(Q) = 0
  <2>1. StandsFor(P, Q, elsewhere(P), elsewhere(Q))
    BY ElsewhereKin
  <2>2. elsewhere(P) = 0 <=> elsewhere(Q) = 0
    BY <2>1 DEF StandsFor
  <2>3. \A x : Definition(P, x) = 0 <=> Definition(Q, x) = 0
    BY SameDeclarations
  <2> QED BY <2>2, <2>3
<1>4. CASE nearer(P)
  <2>1. nearer(Q)
    BY <1>2, <1>4
  <2>2. m = Recorded(P, i, inside, own(P))
    BY <1>4 DEF Meant
  <2>3. n = Recorded(Q, k, inside, own(Q))
    BY <1>1, <2>1 DEF Meant
  <2>4. StandsFor(P, Q, own(P), own(Q)) /\ own(P) # 0
    BY <1>4, DefinitionKin
  <2> HIDE DEF m, n, own
  <2>5. PICK d, e : d = own(P) /\ e = own(Q)
    OBVIOUS
  <2>6. /\ m.to = d /\ n.to = e
        /\ n.code = "found" => m.code \in {"found", "forward_reference"}
    BY <1>1, <2>2, <2>3, <2>4, <2>5, RecordedKin DEF StandsFor
  <2> QED BY <2>4, <2>5, <2>6 DEF MeantAlike, m, n
<1>5. CASE ~nearer(P) /\ name \in Prelude
  <2>1. ~nearer(Q)
    BY <1>2, <1>5
  <2>2. m = [code |-> "found", to |-> 0]
    BY <1>5 DEF Meant
  <2>3. n = [code |-> "found", to |-> 0]
    BY <1>1, <1>5, <2>1 DEF Meant
  <2> QED BY <2>2, <2>3 DEF MeantAlike, StandsFor
<1>6. CASE ~nearer(P) /\ name \notin Prelude /\ named(P) # 0
  <2>1. ~nearer(Q) /\ named(Q) # 0
    BY <1>2, <1>6
  <2>2. m = Recorded(P, i, name, named(P))
    BY <1>6 DEF Meant
  <2>3. n = Recorded(Q, k, name, named(Q))
    BY <1>1, <1>6, <2>1 DEF Meant
  <2>4. StandsFor(P, Q, named(P), named(Q)) /\ named(P) # 0
    BY <1>6, DefinitionKin
  <2> HIDE DEF m, n, named
  <2>5. PICK d, e : d = named(P) /\ e = named(Q)
    OBVIOUS
  <2>6. /\ m.to = d /\ n.to = e
        /\ n.code = "found" => m.code \in {"found", "forward_reference"}
    BY <1>1, <2>2, <2>3, <2>4, <2>5, RecordedKin DEF StandsFor
  <2> QED BY <2>4, <2>5, <2>6 DEF MeantAlike, m, n
<1>7. CASE ~known(P) /\ plain /\ elsewhere(P) # 0
  <2>1. ~known(Q) /\ elsewhere(Q) # 0
    BY <1>2, <1>7
  <2>2. m = Recorded(P, i, name, elsewhere(P))
    BY <1>7 DEF Meant
  <2>3. n = Recorded(Q, k, name, elsewhere(Q))
    BY <1>1, <1>7, <2>1 DEF Meant
  <2>4. StandsFor(P, Q, elsewhere(P), elsewhere(Q)) /\ elsewhere(P) # 0
    BY <1>7, ElsewhereKin
  <2> HIDE DEF m, n, elsewhere
  <2>5. PICK d, e : d = elsewhere(P) /\ e = elsewhere(Q)
    OBVIOUS
  <2>6. /\ m.to = d /\ n.to = e
        /\ n.code = "found" => m.code \in {"found", "forward_reference"}
    BY <1>1, <2>2, <2>3, <2>4, <2>5, RecordedKin DEF StandsFor
  <2> QED BY <2>4, <2>5, <2>6 DEF MeantAlike, m, n
<1>8. CASE ~known(P) /\ ~plain /\ prefix(P) # 0
  <2>1. ~known(Q) /\ prefix(Q) # 0
    BY <1>2, <1>8
  <2>2. m = [unknown EXCEPT !.code = IF prefix(P) > i THEN "forward_reference" ELSE @]
    BY <1>8 DEF Meant
  <2>3. n = [unknown EXCEPT !.code = IF prefix(Q) > k THEN "forward_reference" ELSE @]
    BY <1>1, <1>8, <2>1 DEF Meant
  <2> QED BY <2>2, <2>3 DEF MeantAlike, StandsFor
<1>9. CASE ~known(P) /\ ~(plain /\ elsewhere(P) # 0) /\ ~(~plain /\ prefix(P) # 0)
  <2>1. ~known(Q) /\ ~(plain /\ elsewhere(Q) # 0) /\ ~(~plain /\ prefix(Q) # 0)
    BY <1>2, <1>9
  <2>2. m = [unknown EXCEPT !.code = "undefined"]
    BY <1>9 DEF Meant
  <2>3. n = [unknown EXCEPT !.code = "undefined"]
    BY <1>1, <2>1 DEF Meant
  <2> QED BY <2>2, <2>3 DEF MeantAlike, StandsFor
<1> QED BY <1>4, <1>5, <1>6, <1>7, <1>8, <1>9

\* In the same order, everything is the same.
LEMMA SameMeant ==
  ASSUME NEW P, NEW Q, NEW f, SameDeclared(P, Q, f), DOMAIN P = DOMAIN Q,
         \A i \in DOMAIN P : f[i] = i
  PROVE  /\ \A i \in DOMAIN P : \A name : Meant(P, i, name) = Meant(Q, i, name)
         /\ Duplicates(P) = Duplicates(Q)
<1>1. \A i \in DOMAIN P :
        /\ i \in DOMAIN Q /\ Q[i].ns = P[i].ns /\ (InLibrary(Q[i]) <=> InLibrary(P[i]))
        /\ Declares(Q[i]) <=> Declares(P[i])
  BY DEF SameDeclared
<1>2. \A i \in DOMAIN P : Declares(P[i]) =>
        /\ Q[i].item = P[i].item /\ Owner(Q[i]) = Owner(P[i])
        /\ FullName(Q[i]) = FullName(P[i]) /\ IsPublic(Q[i]) = IsPublic(P[i])
  <2> SUFFICES ASSUME NEW i \in DOMAIN P, Declares(P[i])
               PROVE  /\ Q[i].item = P[i].item /\ Owner(Q[i]) = Owner(P[i])
                      /\ FullName(Q[i]) = FullName(P[i]) /\ IsPublic(Q[i]) = IsPublic(P[i])
    OBVIOUS
  <2>1. f[i] = i
    OBVIOUS
  <2> QED BY <2>1, SameOwner
<1>3. ASSUME NEW name
      PROVE  /\ Declarations(P, name) = Declarations(Q, name)
             /\ Definition(P, name) = Definition(Q, name)
  <2>1. Declarations(P, name) = Declarations(Q, name)
    BY <1>1, <1>2 DEF Declarations
  <2> QED BY <2>1 DEF Definition
<1>4. ASSUME NEW ns, NEW leaf
      PROVE  OnlyElsewhere(P, ns, leaf) = OnlyElsewhere(Q, ns, leaf)
  <2> DEFINE Found(T) == {j \in DOMAIN T : /\ Declares(T[j])
                                           /\ Owner(T[j]) \notin {"", ns}
                                           /\ T[j].item.name = leaf}
  <2>1. Found(P) = Found(Q)
    BY <1>1, <1>2
  <2> QED BY <2>1 DEF OnlyElsewhere
<1>5. ASSUME NEW i \in DOMAIN P, NEW name, NEW d \in DOMAIN P, Declares(P[d])
      PROVE  Recorded(P, i, name, d) = Recorded(Q, i, name, d)
  BY <1>1, <1>2, <1>5 DEF Recorded
<1>6. \A name : Definition(P, name) # 0 =>
        Definition(P, name) \in DOMAIN P /\ Declares(P[Definition(P, name)])
  BY DefinitionIs DEF Declarations, SameDeclared
<1>7. \A ns, leaf : OnlyElsewhere(P, ns, leaf) # 0 =>
        OnlyElsewhere(P, ns, leaf) \in DOMAIN P /\ Declares(P[OnlyElsewhere(P, ns, leaf)])
  <2> SUFFICES ASSUME NEW ns, NEW leaf, OnlyElsewhere(P, ns, leaf) # 0
               PROVE  /\ OnlyElsewhere(P, ns, leaf) \in DOMAIN P
                      /\ Declares(P[OnlyElsewhere(P, ns, leaf)])
    OBVIOUS
  <2> DEFINE found == {j \in DOMAIN P : /\ Declares(P[j])
                                        /\ Owner(P[j]) \notin {"", ns}
                                        /\ P[j].item.name = leaf}
  <2>1. Cardinality(found) = 1 /\ OnlyElsewhere(P, ns, leaf) = Max(found)
    BY DEF OnlyElsewhere
  <2>2. found \subseteq DOMAIN P /\ \A j \in found : Declares(P[j])
    OBVIOUS
  <2> HIDE DEF found
  <2>3. found \in SUBSET (0 .. Len(P)) /\ Len(P) \in Nat
    BY <2>2 DEF SameDeclared, IsText
  <2>4. found # {}
    BY <2>1, FS_EmptySet
  <2>5. Max(found) \in found
    BY <2>3, <2>4, GreatestNatural DEF Max
  <2> QED BY <2>1, <2>2, <2>5
<1>8. ASSUME NEW i \in DOMAIN P, NEW name
      PROVE  Meant(P, i, name) = Meant(Q, i, name)
  <2> DEFINE inside == <<P[i].ns, name[2]>>
             own(T) == IF inside \in Prelude THEN 0 ELSE Definition(T, inside)
             named(T) == Definition(T, name)
             elsewhere(T) == OnlyElsewhere(T, P[i].ns, name[2])
             prefix(T) == Definition(T, <<"", name[1]>>)
             plain == name[1] = ""
             unknown == [code |-> "unknown", to |-> 0]
             nearer(T) == plain /\ own(T) # 0
             known(T) == nearer(T) \/ name \in Prelude \/ named(T) # 0
             what(T) ==
               CASE nearer(T) -> Recorded(T, i, inside, own(T))
               [] ~nearer(T) /\ name \in Prelude -> [code |-> "found", to |-> 0]
               [] ~nearer(T) /\ name \notin Prelude /\ named(T) # 0 ->
                    Recorded(T, i, name, named(T))
               [] ~known(T) /\ plain /\ elsewhere(T) # 0 -> Recorded(T, i, name, elsewhere(T))
               [] ~known(T) /\ ~plain /\ prefix(T) # 0 ->
                    [unknown EXCEPT !.code =
                       IF prefix(T) > i THEN "forward_reference" ELSE @]
               [] OTHER -> [unknown EXCEPT !.code = "undefined"]
  <2>1. Q[i].ns = P[i].ns
    BY <1>1
  <2>2. Meant(P, i, name) = what(P) /\ Meant(Q, i, name) = what(Q)
    BY <2>1 DEF Meant
  <2>3. /\ own(P) = own(Q) /\ named(P) = named(Q) /\ elsewhere(P) = elsewhere(Q)
        /\ prefix(P) = prefix(Q)
    BY <1>3, <1>4
  <2>4. /\ own(P) # 0 => Recorded(P, i, inside, own(P)) = Recorded(Q, i, inside, own(P))
        /\ named(P) # 0 => Recorded(P, i, name, named(P)) = Recorded(Q, i, name, named(P))
        /\ elsewhere(P) # 0 =>
             Recorded(P, i, name, elsewhere(P)) = Recorded(Q, i, name, elsewhere(P))
    BY <1>5, <1>6, <1>7
  <2> HIDE DEF inside, own, named, elsewhere, prefix, plain
  <2>5. what(P) = what(Q)
    BY <2>3, <2>4
  <2> HIDE DEF what
  <2> QED BY <2>2, <2>5
<1>9. Duplicates(P) = Duplicates(Q)
  <2>0. DOMAIN P = DOMAIN Q
    OBVIOUS
  <2> DEFINE Twice(T, i) ==
               \/ FullName(T[i]) \in Prelude
               \/ LET first == Definition(T, FullName(T[i]))
                  IN /\ first # i
                     /\ ~ \A k \in {first, i} :
                            T[k].item.kind = "namespace" /\ InLibrary(T[k])
  <2>1. \A T : Duplicates(T) = {i \in DOMAIN T : Declares(T[i]) /\ Twice(T, i)}
    BY DEF Duplicates
  <2>2. ASSUME NEW i \in DOMAIN P, Declares(P[i]) PROVE Twice(P, i) <=> Twice(Q, i)
    <3> DEFINE n == FullName(P[i])
               d == Definition(P, n)
    <3>1. n = FullName(Q[i]) /\ d = Definition(Q, n)
      BY <1>2, <1>3, <2>2
    <3>2. i \in Declarations(P, n)
      BY <2>2 DEF Declarations
    <3>3. d \in Declarations(P, n)
      BY <3>2, DefinitionIs DEF SameDeclared
    <3>4. d \in DOMAIN P /\ Declares(P[d])
      BY <3>3 DEF Declarations
    <3>5. \A k \in {d, i} : (P[k].item.kind = "namespace" /\ InLibrary(P[k]))
                              <=> (Q[k].item.kind = "namespace" /\ InLibrary(Q[k]))
      BY <1>1, <1>2, <2>2, <3>4
    <3> HIDE DEF d, n
    <3> QED BY <3>1, <3>5 DEF d, n
  <2> HIDE DEF Twice
  <2> QED BY <1>1, <2>0, <2>1, <2>2
<1> QED BY <1>8, <1>9

-----------------------------------------------------------------------------
(* A text and the same text without the tests of other files               *)

\* A line of a support module without its test.
Stripped(line) ==
  IF line.kind = "verify"
  THEN [line EXCEPT !.kind = "comment", !.calls = Nowhere, !.type = Nowhere,
                    !.mistyped = FALSE]
  ELSE line
LinesAlike(s, t) ==
  /\ Len(s) = Len(t)
  /\ \A k \in 1 .. Len(s) : t[k] \in {s[k], Stripped(s[k])}

\* h takes each module to the one that has its lines, with or without tests.
Matched(ms, ks, h) ==
  /\ h \in [1 .. Len(ms) -> 1 .. Len(ks)]
  /\ \A n, m \in 1 .. Len(ms) : h[n] = h[m] => n = m
  /\ \A m \in 1 .. Len(ks) : \E n \in 1 .. Len(ms) : h[n] = m
  /\ \A n \in 1 .. Len(ms) :
       /\ ks[h[n]].file > LibraryStart <=> ms[n].file > LibraryStart
       /\ LinesAlike(ms[n].text.lines, ks[h[n]].text.lines)
FilesDiffer(ms) == \A n, m \in 1 .. Len(ms) : ms[n].file = ms[m].file => n = m

LEMMA StrippedLine ==
  ASSUME NEW x \in Lines, NEW y, y \in {x, Stripped(x)}
  PROVE  /\ y \in Lines
         /\ y.kind = "namespace" <=> x.kind = "namespace"
         /\ y.kind \in Declaring <=> x.kind \in Declaring
         /\ x.kind # "verify" => y = x
         /\ Stripped(x).kind # "verify"
         /\ x.kind = "verify" => /\ Stripped(x).calls = Nowhere
                                 /\ Stripped(x).type = Nowhere
                                 /\ Stripped(x).mistyped = FALSE
<1>1. CASE x.kind # "verify"
  BY <1>1 DEF Stripped
<1>2. CASE x.kind = "verify"
  <2>1. /\ Stripped(x) = [x EXCEPT !.kind = "comment", !.calls = Nowhere,
                                   !.type = Nowhere, !.mistyped = FALSE]
    BY <1>2 DEF Stripped
  <2>2. Nowhere \in Names
    BY NoneIsWord DEF Nowhere, Names
  <2>3. /\ Stripped(x) \in Lines /\ Stripped(x).kind = "comment"
        /\ Stripped(x).calls = Nowhere /\ Stripped(x).type = Nowhere
        /\ Stripped(x).mistyped = FALSE
    BY <2>1, <2>2 DEF Lines
  <2> HIDE DEF Stripped
  <2> QED BY <1>2, <2>3 DEF Declaring
<1> QED BY <1>1, <1>2

LEMMA NamespaceAlike ==
  ASSUME NEW s \in Seq(Lines), NEW t \in Seq(Lines), LinesAlike(s, t),
         NEW k \in 1 .. Len(s)
  PROVE  NamespaceAt(t, k) = NamespaceAt(s, k)
<1>1. Len(s) \in Nat /\ \A n \in 1 .. Len(s) : s[n] \in Lines /\ t[n] \in {s[n], Stripped(s[n])}
  BY DEF LinesAlike
<1>2. \A n \in 1 .. k : n \in 1 .. Len(s)
  BY <1>1
<1>3. \A n \in 1 .. k : /\ t[n].kind = "namespace" <=> s[n].kind = "namespace"
                        /\ s[n].kind = "namespace" => t[n] = s[n]
  <2> TAKE n \in 1 .. k
  <2>1. s[n] \in Lines /\ t[n] \in {s[n], Stripped(s[n])}
    BY <1>1, <1>2
  <2> QED BY <2>1, StrippedLine
<1> DEFINE above == {n \in 1 .. k : s[n].kind = "namespace"}
<1>4. above = {n \in 1 .. k : t[n].kind = "namespace"}
  BY <1>3
<1>5. CASE above = {}
  BY <1>4, <1>5 DEF NamespaceAt
<1>6. CASE above # {}
  <2>1. Max(above) \in above
    <3>1. above \in SUBSET (0 .. k) /\ k \in Nat
      BY <1>1
    <3> HIDE DEF above
    <3> QED BY <1>6, <3>1, GreatestNatural DEF Max
  <2>2. t[Max(above)] = s[Max(above)]
    BY <1>3, <2>1
  <2> QED BY <1>4, <1>6, <2>2 DEF NamespaceAt
<1> QED BY <1>5, <1>6

\* Where two texts have the same modules: what stands at a place, and where
\* in the other text.
PlacesAlike(P, Q, ms, ks, h, f) ==
  \A i \in DOMAIN P : \E n \in 1 .. Len(ms) : \E k \in 1 .. Len(ms[n].text.lines) :
    /\ P[i].file = ms[n].file /\ P[i].line = k /\ P[i].item = ms[n].text.lines[k]
    /\ Q[f[i]].file = ks[h[n]].file /\ Q[f[i]].line = k
    /\ Q[f[i]].item = ks[h[n]].text.lines[k]

LEMMA StartsSame ==
  ASSUME NEW ms, NEW ks, NEW s, NEW t, Starts(s, ms), Starts(t, ks), Len(ms) \in Nat,
         Len(ks) = Len(ms),
         \A n \in 1 .. Len(ms) : Len(ks[n].text.lines) = Len(ms[n].text.lines)
  PROVE  \A n \in 0 .. Len(ms) : s[n] = t[n]
<1>1. PICK N \in Nat : N = Len(ms)
  OBVIOUS
<1>2. /\ s[0] = 0 /\ t[0] = 0
      /\ \A n \in 1 .. N : /\ s[n] = s[n - 1] + Len(ms[n].text.lines)
                           /\ t[n] = t[n - 1] + Len(ms[n].text.lines)
  BY <1>1 DEF Starts
<1> DEFINE T == {n \in Nat : n <= N => s[n] = t[n]}
<1>3. 0 \in T
  BY <1>2
<1>4. \A n \in T : n + 1 \in T
  <2> TAKE n \in T
  <2>1. PICK m \in Nat : m = n + 1 /\ m - 1 = n
    OBVIOUS
  <2>2. ASSUME m <= N PROVE s[m] = t[m]
    <3>1. m \in 1 .. N /\ s[n] = t[n]
      BY <2>1, <2>2
    <3>2. s[m] = s[m - 1] + Len(ms[m].text.lines) /\ t[m] = t[m - 1] + Len(ms[m].text.lines)
      BY <1>2, <3>1
    <3> QED BY <2>1, <3>1, <3>2
  <2> QED BY <2>1, <2>2
<1>5. \A n \in Nat : n \in T
  <2>1. T \in SUBSET Nat
    OBVIOUS
  <2> HIDE DEF T
  <2> QED BY <1>3, <1>4, <2>1, Inductive
<1> QED BY <1>1, <1>5

LEMMA TextsAlign ==
  ASSUME NEW ms, NEW ks, NEW h, Modules(ms), Modules(ks), FilesDiffer(ms),
         FilesDiffer(ks), Matched(ms, ks, h)
  PROVE  \E f : /\ SameDeclared(Placed(ms), Placed(ks), f)
                /\ PlacesAlike(Placed(ms), Placed(ks), ms, ks, h, f)
                /\ Len(ks) = Len(ms) /\ (\A n \in 1 .. Len(ms) : h[n] = n) =>
                     DOMAIN Placed(ms) = DOMAIN Placed(ks)
                     /\ \A i \in DOMAIN Placed(ms) : f[i] = i
<1> DEFINE P == Placed(ms)
           Q == Placed(ks)
           Lines1(n) == Len(ms[n].text.lines)
           Lines2(m) == Len(ks[m].text.lines)
<1>1. IsText(P) /\ IsText(Q) /\ DOMAIN P = 1 .. Len(P) /\ DOMAIN Q = 1 .. Len(Q)
  BY PlacedAt DEF IsText
<1>2. PICK s, t : Starts(s, ms) /\ Starts(t, ks)
  BY PlacedAt
<1>3. /\ Len(ms) \in Nat /\ Len(ks) \in Nat
      /\ \A n \in 1 .. Len(ms) : IsModule(ms[n])
      /\ \A n \in 1 .. Len(ks) : IsModule(ks[n])
  BY DEF Modules
<1>4. /\ \A n \in 1 .. Len(ms) : \A k \in 1 .. Lines1(n) :
           s[n - 1] + k \in DOMAIN P /\ P[s[n - 1] + k] = PlacedLines(ms[n])[k]
      /\ \A i \in DOMAIN P : \E n \in 1 .. Len(ms) : \E k \in 1 .. Lines1(n) :
           i = s[n - 1] + k
  BY <1>1, <1>2 DEF Starts
<1>5. /\ \A n \in 1 .. Len(ks) : \A k \in 1 .. Lines2(n) :
           t[n - 1] + k \in DOMAIN Q /\ Q[t[n - 1] + k] = PlacedLines(ks[n])[k]
      /\ \A i \in DOMAIN Q : \E n \in 1 .. Len(ks) : \E k \in 1 .. Lines2(n) :
           i = t[n - 1] + k
  BY <1>1, <1>2 DEF Starts
<1>6. /\ \A n \in 1 .. Len(ms) : \A k \in 1 .. Lines1(n) :
           /\ PlacedLines(ms[n])[k].file = ms[n].file /\ PlacedLines(ms[n])[k].line = k
           /\ PlacedLines(ms[n])[k].ns = NamespaceAt(ms[n].text.lines, k)
           /\ PlacedLines(ms[n])[k].item = ms[n].text.lines[k]
      /\ \A n \in 1 .. Len(ks) : \A k \in 1 .. Lines2(n) :
           /\ PlacedLines(ks[n])[k].file = ks[n].file /\ PlacedLines(ks[n])[k].line = k
           /\ PlacedLines(ks[n])[k].ns = NamespaceAt(ks[n].text.lines, k)
           /\ PlacedLines(ks[n])[k].item = ks[n].text.lines[k]
  BY <1>3, PlacedLinesOf
<1>7. /\ h \in [1 .. Len(ms) -> 1 .. Len(ks)]
      /\ \A n, m \in 1 .. Len(ms) : h[n] = h[m] => n = m
      /\ \A m \in 1 .. Len(ks) : \E n \in 1 .. Len(ms) : h[n] = m
      /\ \A n \in 1 .. Len(ms) :
           /\ ks[h[n]].file > LibraryStart <=> ms[n].file > LibraryStart
           /\ LinesAlike(ms[n].text.lines, ks[h[n]].text.lines)
           /\ Lines1(n) = Lines2(h[n])
  BY DEF Matched, LinesAlike
<1> HIDE DEF P, Q
<1> DEFINE Stands(i, n, k) == n \in 1 .. Len(ms) /\ k \in 1 .. Lines1(n) /\ i = s[n - 1] + k
           Goes(i, j) == \E n, k : Stands(i, n, k) /\ j = t[h[n] - 1] + k
           f == [i \in DOMAIN P |-> CHOOSE j : Goes(i, j)]
<1>8. ASSUME NEW i \in DOMAIN P
      PROVE  \E n \in 1 .. Len(ms) : \E k \in 1 .. Lines1(n) :
               /\ i = s[n - 1] + k /\ f[i] = t[h[n] - 1] + k
               /\ h[n] \in 1 .. Len(ks) /\ k \in 1 .. Lines2(h[n])
               /\ P[i] = PlacedLines(ms[n])[k]
               /\ f[i] \in DOMAIN Q /\ Q[f[i]] = PlacedLines(ks[h[n]])[k]
  <2>1. PICK n \in 1 .. Len(ms) : \E k \in 1 .. Lines1(n) : i = s[n - 1] + k
    BY <1>4
  <2>2. PICK k \in 1 .. Lines1(n) : i = s[n - 1] + k
    BY <2>1
  <2>3. P[i] = PlacedLines(ms[n])[k]
    BY <1>4, <2>2
  <2>4. ASSUME NEW m, NEW l, Stands(i, m, l) PROVE m = n /\ l = k
    <3>1. P[i] = PlacedLines(ms[m])[l]
      BY <1>4, <2>4
    <3>2. P[i].file = ms[m].file /\ P[i].line = l
      BY <1>3, <1>6, <2>4, <3>1
    <3>3. P[i].file = ms[n].file /\ P[i].line = k
      BY <1>3, <1>6, <2>3
    <3> QED BY <2>4, <3>2, <3>3 DEF FilesDiffer
  <2>5. Stands(i, n, k)
    BY <2>2
  <2> HIDE DEF Stands
  <2>6. \A j : Goes(i, j) <=> j = t[h[n] - 1] + k
    BY <2>4, <2>5
  <2> HIDE DEF Goes
  <2>7. f[i] = t[h[n] - 1] + k
    BY <2>6
  <2> HIDE DEF f
  <2>8. h[n] \in 1 .. Len(ks) /\ k \in 1 .. Lines2(h[n])
    BY <1>7
  <2>9. f[i] \in DOMAIN Q /\ Q[f[i]] = PlacedLines(ks[h[n]])[k]
    BY <1>5, <2>7, <2>8
  <2> QED BY <2>2, <2>3, <2>7, <2>8, <2>9
<1>9. DOMAIN f = DOMAIN P
  OBVIOUS
<1>10. f = [i \in DOMAIN P |-> f[i]]
  OBVIOUS
<1> HIDE DEF f
<1>11. f \in [DOMAIN P -> DOMAIN Q]
  <2>1. \A i \in DOMAIN P : f[i] \in DOMAIN Q
    BY <1>8
  <2> QED BY <1>10, <2>1
<1>12. ASSUME NEW i \in DOMAIN P, NEW j \in DOMAIN P, f[i] = f[j] PROVE i = j
  <2>1. PICK n \in 1 .. Len(ms) : \E k \in 1 .. Lines1(n) :
          /\ i = s[n - 1] + k
          /\ h[n] \in 1 .. Len(ks) /\ k \in 1 .. Lines2(h[n])
          /\ Q[f[i]] = PlacedLines(ks[h[n]])[k]
    BY <1>8
  <2>2. PICK k \in 1 .. Lines1(n) :
          /\ i = s[n - 1] + k
          /\ h[n] \in 1 .. Len(ks) /\ k \in 1 .. Lines2(h[n])
          /\ Q[f[i]] = PlacedLines(ks[h[n]])[k]
    BY <2>1
  <2>3. PICK m \in 1 .. Len(ms) : \E l \in 1 .. Lines1(m) :
          /\ j = s[m - 1] + l
          /\ h[m] \in 1 .. Len(ks) /\ l \in 1 .. Lines2(h[m])
          /\ Q[f[j]] = PlacedLines(ks[h[m]])[l]
    BY <1>8
  <2>4. PICK l \in 1 .. Lines1(m) :
          /\ j = s[m - 1] + l
          /\ h[m] \in 1 .. Len(ks) /\ l \in 1 .. Lines2(h[m])
          /\ Q[f[j]] = PlacedLines(ks[h[m]])[l]
    BY <2>3
  <2>5. PICK a \in 1 .. Len(ks), b \in 1 .. Len(ks) : a = h[n] /\ b = h[m]
    BY <2>2, <2>4
  <2>6. /\ k \in 1 .. Lines2(a) /\ Q[f[i]] = PlacedLines(ks[a])[k]
        /\ l \in 1 .. Lines2(b) /\ Q[f[j]] = PlacedLines(ks[b])[l]
    BY <2>2, <2>4, <2>5, Zenon
  <2> HIDE DEF Lines1, Lines2
  <2>7. Q[f[i]].file = ks[a].file /\ Q[f[i]].line = k
    BY <1>6, <2>6
  <2>8. Q[f[j]].file = ks[b].file /\ Q[f[j]].line = l
    BY <1>6, <2>6
  <2>9. ks[a].file = ks[b].file /\ k = l
    BY <1>12, <2>7, <2>8, Zenon
  <2>10. a = b
    BY <2>9 DEF FilesDiffer
  <2>11. n = m
    BY <1>7, <2>5, <2>10
  <2>12. i = s[n - 1] + k
    BY <2>2
  <2>13. j = s[m - 1] + l
    BY <2>4
  <2> QED BY <2>9, <2>11, <2>12, <2>13, Zenon
<1>13. ASSUME NEW j \in DOMAIN Q PROVE \E i \in DOMAIN P : f[i] = j
  <2>1. PICK m \in 1 .. Len(ks) : \E k \in 1 .. Lines2(m) : j = t[m - 1] + k
    BY <1>5
  <2>2. PICK k \in 1 .. Lines2(m) : j = t[m - 1] + k
    BY <2>1
  <2>3. PICK n \in 1 .. Len(ms) : h[n] = m
    BY <1>7
  <2>4. k \in 1 .. Lines1(n)
    BY <1>7, <2>3
  <2>5. PICK i : i = s[n - 1] + k
    OBVIOUS
  <2>6. i \in DOMAIN P /\ P[i] = PlacedLines(ms[n])[k]
    BY <1>4, <2>4, <2>5
  <2>7. PICK u \in 1 .. Len(ms) : \E l \in 1 .. Lines1(u) :
          f[i] = t[h[u] - 1] + l /\ P[i] = PlacedLines(ms[u])[l]
    BY <1>8, <2>6
  <2>8. PICK l \in 1 .. Lines1(u) :
          f[i] = t[h[u] - 1] + l /\ P[i] = PlacedLines(ms[u])[l]
    BY <2>7
  <2>9. P[i].file = ms[n].file /\ P[i].line = k
    BY <1>3, <1>6, <2>4, <2>6
  <2>10. P[i].file = ms[u].file /\ P[i].line = l
    BY <1>3, <1>6, <2>8
  <2>11. u = n /\ l = k
    BY <2>9, <2>10 DEF FilesDiffer
  <2> QED BY <2>2, <2>3, <2>6, <2>8, <2>11
<1>14. PlacesAlike(P, Q, ms, ks, h, f)
  <2> SUFFICES ASSUME NEW i \in DOMAIN P
               PROVE  \E n \in 1 .. Len(ms) : \E k \in 1 .. Len(ms[n].text.lines) :
                        /\ P[i].file = ms[n].file /\ P[i].line = k
                        /\ P[i].item = ms[n].text.lines[k]
                        /\ Q[f[i]].file = ks[h[n]].file /\ Q[f[i]].line = k
                        /\ Q[f[i]].item = ks[h[n]].text.lines[k]
    BY DEF PlacesAlike
  <2>1. PICK n \in 1 .. Len(ms) : \E k \in 1 .. Lines1(n) :
          /\ h[n] \in 1 .. Len(ks) /\ k \in 1 .. Lines2(h[n])
          /\ P[i] = PlacedLines(ms[n])[k] /\ Q[f[i]] = PlacedLines(ks[h[n]])[k]
    BY <1>8
  <2>2. PICK k \in 1 .. Lines1(n) :
          /\ h[n] \in 1 .. Len(ks) /\ k \in 1 .. Lines2(h[n])
          /\ P[i] = PlacedLines(ms[n])[k] /\ Q[f[i]] = PlacedLines(ks[h[n]])[k]
    BY <2>1
  <2>3. PICK m \in 1 .. Len(ks) : m = h[n]
    BY <2>2
  <2>4. k \in 1 .. Lines2(m) /\ Q[f[i]] = PlacedLines(ks[m])[k]
    BY <2>2, <2>3, Zenon
  <2> HIDE DEF Lines1, Lines2
  <2>5. /\ P[i].file = ms[n].file /\ P[i].line = k /\ P[i].item = ms[n].text.lines[k]
    BY <1>6, <2>2
  <2>6. /\ Q[f[i]].file = ks[m].file /\ Q[f[i]].line = k
        /\ Q[f[i]].item = ks[m].text.lines[k]
    BY <1>6, <2>4
  <2>7. k \in 1 .. Len(ms[n].text.lines)
    BY DEF Lines1
  <2> QED BY <2>3, <2>5, <2>6, <2>7, Zenon
<1>15. ASSUME NEW i \in DOMAIN P
       PROVE  /\ Q[f[i]].ns = P[i].ns
              /\ InLibrary(Q[f[i]]) <=> InLibrary(P[i])
              /\ Declares(Q[f[i]]) <=> Declares(P[i])
              /\ Declares(P[i]) => Q[f[i]].item = P[i].item
  <2>1. PICK n \in 1 .. Len(ms) : \E k \in 1 .. Lines1(n) :
          /\ h[n] \in 1 .. Len(ks) /\ k \in 1 .. Lines2(h[n])
          /\ P[i] = PlacedLines(ms[n])[k] /\ Q[f[i]] = PlacedLines(ks[h[n]])[k]
    BY <1>8
  <2>2. PICK k \in 1 .. Lines1(n) :
          /\ h[n] \in 1 .. Len(ks) /\ k \in 1 .. Lines2(h[n])
          /\ P[i] = PlacedLines(ms[n])[k] /\ Q[f[i]] = PlacedLines(ks[h[n]])[k]
    BY <2>1
  <2>3. IsModule(ms[n]) /\ IsModule(ks[h[n]])
    BY <1>3, <2>2
  <2>4. PICK x, y : x = ms[n].text.lines /\ y = ks[h[n]].text.lines
    OBVIOUS
  <2>5. /\ P[i].file = ms[n].file /\ P[i].ns = NamespaceAt(x, k) /\ P[i].item = x[k]
        /\ Q[f[i]].file = ks[h[n]].file /\ Q[f[i]].ns = NamespaceAt(y, k)
        /\ Q[f[i]].item = y[k]
    <3>1. PICK m \in 1 .. Len(ks) : m = h[n]
      BY <2>2
    <3>2. k \in 1 .. Lines2(m) /\ Q[f[i]] = PlacedLines(ks[m])[k] /\ y = ks[m].text.lines
      BY <2>2, <2>4, <3>1, Zenon
    <3> HIDE DEF Lines1, Lines2
    <3>3. P[i].file = ms[n].file /\ P[i].ns = NamespaceAt(x, k) /\ P[i].item = x[k]
      BY <1>6, <2>2, <2>4
    <3>4. /\ Q[f[i]].file = ks[m].file /\ Q[f[i]].ns = NamespaceAt(y, k)
          /\ Q[f[i]].item = y[k]
      BY <1>6, <3>2
    <3> QED BY <3>1, <3>3, <3>4, Zenon
  <2>6. x \in Seq(Lines) /\ y \in Seq(Lines) /\ LinesAlike(x, y) /\ k \in 1 .. Len(x)
    BY <1>7, <2>3, <2>4 DEF IsModule
  <2>7. P[i].ns = Q[f[i]].ns
    BY <2>5, <2>6, NamespaceAlike
  <2>8. x[k] \in Lines /\ y[k] \in {x[k], Stripped(x[k])}
    BY <2>6 DEF LinesAlike
  <2>9. /\ y[k].kind \in Declaring <=> x[k].kind \in Declaring
        /\ x[k].kind # "verify" => y[k] = x[k]
    BY <2>8, StrippedLine
  <2>10. InLibrary(Q[f[i]]) <=> InLibrary(P[i])
    BY <1>7, <2>5 DEF InLibrary
  <2> QED BY <2>5, <2>7, <2>9, <2>10 DEF Declares, Declaring
<1>16. ASSUME Len(ks) = Len(ms), \A n \in 1 .. Len(ms) : h[n] = n
       PROVE  DOMAIN P = DOMAIN Q /\ \A i \in DOMAIN P : f[i] = i
  <2>1. \A n \in 0 .. Len(ms) : s[n] = t[n]
    BY <1>2, <1>3, <1>7, <1>16, StartsSame
  <2>2. \A i \in DOMAIN P : f[i] = i
    <3> TAKE i \in DOMAIN P
    <3>1. PICK n \in 1 .. Len(ms) : \E k \in 1 .. Lines1(n) :
            i = s[n - 1] + k /\ f[i] = t[h[n] - 1] + k
      BY <1>8
    <3>2. n - 1 \in 0 .. Len(ms) /\ h[n] = n
      BY <1>3, <1>16
    <3> QED BY <2>1, <3>1, <3>2
  <2> QED BY <1>11, <1>13, <2>2
<1>17. SameDeclared(P, Q, f)
  BY <1>1, <1>11, <1>12, <1>13, <1>15 DEF SameDeclared
<1> QED BY <1>14, <1>16, <1>17 DEF P, Q

Clean(Q) == StaticErrors(Q) = {} /\ \A i \in Verifies(Q) : Passes(Q, i)

\* Q is P without the tests of other files than the entry.
Strips(P, Q) ==
  /\ DOMAIN P = DOMAIN Q
  /\ \E f : SameDeclared(P, Q, f) /\ \A i \in DOMAIN P : f[i] = i
  /\ \A i \in DOMAIN P :
       Q[i].item = IF P[i].file = Entry THEN P[i].item ELSE Stripped(P[i].item)

\* The test at i is one of the entry in another clean text.
TestedApart(P, i) ==
  \E Q, f : SameDeclared(P, Q, f) /\ Q[f[i]].item = P[i].item /\ Clean(Q)

LEMMA NoneFound ==
  ASSUME NEW P, Duplicates(P) = {},
         \A i \in DOMAIN P : /\ ~P[i].item.mistyped
                             /\ \A u \in Uses(P[i]) : Meant(P, i, u.name).code = "found"
  PROVE  StaticErrors(P) = {}
<1>1. \A i \in DOMAIN P : UseErrors(P, i, FALSE) = {} /\ UseErrors(P, i, TRUE) = {}
  BY DEF UseErrors
<1>2. ResolveErrors(P) = {} /\ CheckErrors(P) = {}
  BY <1>1 DEF ResolveErrors, CheckErrors
<1> QED BY <1>2 DEF StaticErrors

LEMMA StripsItems ==
  ASSUME NEW P, NEW Q, Strips(P, Q), NEW i \in DOMAIN P
  PROVE  /\ P[i].item \in Lines
         /\ P[i].file = Entry \/ P[i].item.kind # "verify" => Q[i].item = P[i].item
         /\ P[i].file # Entry /\ P[i].item.kind = "verify" =>
              Q[i].item.kind # "verify" /\ Q[i].item.mistyped = FALSE /\ Uses(Q[i]) = {}
<1>1. PICK f : SameDeclared(P, Q, f)
  BY DEF Strips
<1>2. P \in Seq(Places) /\ DOMAIN P = 1 .. Len(P)
  BY <1>1 DEF SameDeclared, IsText
<1>3. P[i] \in Places
  BY <1>2
<1>4. P[i].item \in Lines
  BY <1>3 DEF Places
<1>5. PICK x : x = P[i].item
  OBVIOUS
<1>6. Q[i].item = IF P[i].file = Entry THEN x ELSE Stripped(x)
  BY <1>5 DEF Strips
<1>7. /\ x.kind # "verify" => Stripped(x) = x
      /\ Stripped(x).kind # "verify"
      /\ x.kind = "verify" => /\ Stripped(x).calls = Nowhere
                              /\ Stripped(x).type = Nowhere
                              /\ Stripped(x).mistyped = FALSE
  BY <1>4, <1>5, StrippedLine
<1>8. ASSUME P[i].file # Entry, x.kind = "verify" PROVE Uses(Q[i]) = {}
  <2>1. Q[i].item.calls = Nowhere /\ Q[i].item.type = Nowhere
    BY <1>6, <1>7, <1>8
  <2> QED BY <2>1 DEF Uses
<1> QED BY <1>4, <1>5, <1>6, <1>7, <1>8

LEMMA StripsMeant ==
  ASSUME NEW P, NEW Q, Strips(P, Q)
  PROVE  /\ \A i \in DOMAIN P : \A name : Meant(P, i, name) = Meant(Q, i, name)
         /\ Duplicates(P) = Duplicates(Q) /\ IsText(P) /\ IsText(Q)
         /\ \A i \in DOMAIN P : P[i].item.kind = "function" => Q[i].item = P[i].item
         /\ \A i \in DOMAIN P : Q[i].item.kind = "function" => Q[i].item = P[i].item
<1>1. PICK f : SameDeclared(P, Q, f) /\ DOMAIN P = DOMAIN Q /\ \A i \in DOMAIN P : f[i] = i
  BY DEF Strips
<1>2. \A i \in DOMAIN P : Declares(Q[i]) <=> Declares(P[i])
  BY <1>1 DEF SameDeclared
<1>3. \A i \in DOMAIN P : Declares(P[i]) => Q[i].item = P[i].item
  BY <1>1 DEF SameDeclared
<1>4. \A x : x.item.kind = "function" => Declares(x)
  BY DEF Declares, Declaring
<1> QED BY <1>1, <1>2, <1>3, <1>4, SameMeant DEF SameDeclared

\* A meaning other than none is a declaration of the text.
LEMMA MeantPlace ==
  ASSUME NEW P, IsText(P), NEW i, NEW name, Meant(P, i, name).to # 0
  PROVE  Meant(P, i, name).to \in DOMAIN P
<1> DEFINE inside == <<P[i].ns, name[2]>>
           own == IF inside \in Prelude THEN 0 ELSE Definition(P, inside)
           named == Definition(P, name)
           elsewhere == OnlyElsewhere(P, P[i].ns, name[2])
           prefix == Definition(P, <<"", name[1]>>)
           plain == name[1] = ""
           unknown == [code |-> "unknown", to |-> 0]
           nearer == plain /\ own # 0
           known == nearer \/ name \in Prelude \/ named # 0
           m == Meant(P, i, name)
<1>1. \A n : Definition(P, n) # 0 => Definition(P, n) \in DOMAIN P
  BY DefinitionIs DEF Declarations
<1>2. elsewhere # 0 => elsewhere \in DOMAIN P
  <2> SUFFICES ASSUME elsewhere # 0 PROVE elsewhere \in DOMAIN P
    OBVIOUS
  <2> DEFINE found == {j \in DOMAIN P : /\ Declares(P[j])
                                        /\ Owner(P[j]) \notin {"", P[i].ns}
                                        /\ P[j].item.name = name[2]}
  <2>1. Cardinality(found) = 1 /\ elsewhere = Max(found)
    BY DEF OnlyElsewhere
  <2>2. found \subseteq DOMAIN P
    OBVIOUS
  <2> HIDE DEF found, elsewhere
  <2>3. found \in SUBSET (0 .. Len(P)) /\ Len(P) \in Nat
    BY <2>2 DEF IsText
  <2>4. found # {}
    BY <2>1, FS_EmptySet
  <2>5. Max(found) \in found
    BY <2>3, <2>4, GreatestNatural DEF Max
  <2> QED BY <2>1, <2>2, <2>5
<1>3. \A n, d : Recorded(P, i, n, d).to = d
  BY DEF Recorded
<1>4. CASE nearer
  <2>1. m = Recorded(P, i, inside, own)
    BY <1>4 DEF Meant
  <2>2. own # 0 => own \in DOMAIN P
    BY <1>1
  <2> HIDE DEF own, inside, m
  <2>3. m.to = own
    BY <1>3, <2>1
  <2> QED BY <1>4, <2>2, <2>3 DEF m
<1>5. CASE ~nearer /\ name \in Prelude
  <2>1. m = [code |-> "found", to |-> 0]
    BY <1>5 DEF Meant
  <2> QED BY <2>1
<1>6. CASE ~nearer /\ name \notin Prelude /\ named # 0
  <2>1. m = Recorded(P, i, name, named)
    BY <1>6 DEF Meant
  <2>2. named \in DOMAIN P
    BY <1>1, <1>6
  <2> HIDE DEF named, m
  <2>3. m.to = named
    BY <1>3, <2>1
  <2> QED BY <2>2, <2>3 DEF m
<1>7. CASE ~known /\ plain /\ elsewhere # 0
  <2>1. m = Recorded(P, i, name, elsewhere)
    BY <1>7 DEF Meant
  <2> HIDE DEF elsewhere, m
  <2>2. m.to = elsewhere
    BY <1>3, <2>1
  <2> QED BY <1>2, <1>7, <2>2 DEF m
<1>8. CASE ~known /\ ~plain /\ prefix # 0
  <2>1. m = [unknown EXCEPT !.code = IF prefix > i THEN "forward_reference" ELSE @]
    BY <1>8 DEF Meant
  <2> QED BY <2>1
<1>9. CASE ~known /\ ~(plain /\ elsewhere # 0) /\ ~(~plain /\ prefix # 0)
  <2>1. m = [unknown EXCEPT !.code = "undefined"]
    BY <1>9 DEF Meant
  <2> QED BY <2>1
<1> QED BY <1>4, <1>5, <1>6, <1>7, <1>8, <1>9

\* A test passes in the one if it does in the other.
LEMMA StripsPasses ==
  ASSUME NEW P, NEW Q, Strips(P, Q), NEW i \in DOMAIN P, Q[i].item = P[i].item
  PROVE  Passes(P, i) <=> Passes(Q, i)
<1>1. /\ Meant(P, i, P[i].item.calls) = Meant(Q, i, Q[i].item.calls)
      /\ IsText(P) /\ IsText(Q) /\ DOMAIN P = DOMAIN Q
  BY StripsMeant DEF Strips
<1>2. PICK to : to = Meant(P, i, P[i].item.calls).to
  OBVIOUS
<1>3. /\ Passes(P, i) <=> /\ to # 0 /\ P[to].item.kind = "function"
                          /\ P[to].item.value = P[i].item.value
      /\ Passes(Q, i) <=> /\ to # 0 /\ Q[to].item.kind = "function"
                          /\ Q[to].item.value = P[i].item.value
  BY <1>1, <1>2 DEF Passes
<1>4. to # 0 => to \in DOMAIN P
  BY <1>1, <1>2, MeantPlace
<1> QED BY <1>3, <1>4, StripsMeant

\* If the build has no errors, neither has the test.
LEMMA BuildsClean ==
  ASSUME NEW P, NEW Q, Strips(P, Q), Errors(P) = {}
  PROVE  Clean(Q)
<1>1. /\ Duplicates(P) = {}
      /\ \A i \in DOMAIN P : /\ ~P[i].item.mistyped
                             /\ \A u \in Uses(P[i]) : Meant(P, i, u.name).code = "found"
  BY NoneWrong, NoErrors
<1>2. \A i \in Verifies(P) : Passes(P, i)
  <2>1. VerifyErrors(P) = {}
    <3>1. StaticErrors(P) = {}
      BY NoneWrong
    <3> QED BY <3>1 DEF Errors
  <2> QED BY <2>1 DEF VerifyErrors
<1>3. DOMAIN P = DOMAIN Q
  BY DEF Strips
<1>4. ASSUME NEW i \in DOMAIN Q
      PROVE  /\ ~Q[i].item.mistyped
             /\ \A u \in Uses(Q[i]) : Meant(Q, i, u.name).code = "found"
  <2>1. CASE P[i].file = Entry \/ P[i].item.kind # "verify"
    <3>1. i \in DOMAIN P
      BY <1>3
    <3>2. Q[i].item = P[i].item
      <4>1. Q[i].item = IF P[i].file = Entry THEN P[i].item ELSE Stripped(P[i].item)
        BY <3>1, Zenon DEF Strips
      <4>2. P[i].item.kind # "verify" => Stripped(P[i].item) = P[i].item
        BY Zenon DEF Stripped
      <4> QED BY <2>1, <4>1, <4>2, Zenon
    <3>3. Uses(Q[i]) = Uses(P[i])
      BY <3>2 DEF Uses
    <3> QED BY <1>1, <3>1, <3>2, <3>3, StripsMeant
  <2>2. CASE P[i].file # Entry /\ P[i].item.kind = "verify"
    BY <1>3, <2>2, StripsItems
  <2> QED BY <2>1, <2>2
<1>5. StaticErrors(Q) = {}
  BY <1>1, <1>4, StripsMeant, NoneFound
<1>6. ASSUME NEW i \in Verifies(Q) PROVE Passes(Q, i)
  <2>1. i \in DOMAIN P /\ Q[i].item.kind = "verify"
    BY <1>3 DEF Verifies
  <2>2. P[i].file = Entry \/ P[i].item.kind # "verify"
    BY <2>1, StripsItems, Zenon
  <2>3. Q[i].item = P[i].item
    BY <2>1, <2>2, StripsItems, Zenon
  <2> QED BY <1>2, <2>1, <2>3, StripsPasses DEF Verifies
<1> QED BY <1>5, <1>6 DEF Clean

\* A test that is clean as one of the entry can fail to build in another
\* order only because what it calls comes after it.
LEMMA ApartForward ==
  ASSUME NEW P, NEW i \in DOMAIN P, TestedApart(P, i), P[i].item.kind = "verify"
  PROVE  /\ ~P[i].item.mistyped /\ Passes(P, i)
         /\ \A u \in Uses(P[i]) :
              Meant(P, i, u.name).code \in {"found", "forward_reference"}
<1>1. PICK Q, f : SameDeclared(P, Q, f) /\ Q[f[i]].item = P[i].item /\ Clean(Q)
  BY DEF TestedApart
<1>2. f[i] \in DOMAIN Q
  BY <1>1 DEF SameDeclared
<1>3. /\ Duplicates(Q) = {} /\ ~Q[f[i]].item.mistyped
      /\ \A u \in Uses(Q[f[i]]) : Meant(Q, f[i], u.name).code = "found"
  BY <1>1, <1>2, NoErrors DEF Clean
<1>4. Uses(Q[f[i]]) = Uses(P[i])
  BY <1>1 DEF Uses
<1>5. ASSUME NEW u \in Uses(P[i])
      PROVE  Meant(P, i, u.name).code \in {"found", "forward_reference"}
  <2>1. PICK name : name = u.name
    OBVIOUS
  <2>2. MeantAlike(P, Q, Meant(P, i, name), Meant(Q, f[i], name))
    BY <1>1, <1>3, OrderOnly
  <2> QED BY <1>3, <1>4, <2>1, <2>2 DEF MeantAlike
<1>6. Passes(Q, f[i])
  BY <1>1, <1>2 DEF Clean, Verifies
<1>7. Passes(P, i)
  <2>1. PICK name : name = P[i].item.calls /\ name = Q[f[i]].item.calls
    BY <1>1
  <2>2. MeantAlike(P, Q, Meant(P, i, name), Meant(Q, f[i], name))
    BY <1>1, <1>3, OrderOnly
  <2>3. PICK d, e : d = Meant(P, i, name).to /\ e = Meant(Q, f[i], name).to
    OBVIOUS
  <2>4. StandsFor(P, Q, d, e)
    BY <2>2, <2>3 DEF MeantAlike
  <2>5. e # 0 /\ Q[e].item.kind = "function" /\ Q[e].item.value = P[i].item.value
    BY <1>1, <1>6, <2>1, <2>3 DEF Passes
  <2>6. d # 0 /\ P[d].item.kind = "function" /\ P[d].item.value = P[i].item.value
    BY <2>4, <2>5 DEF StandsFor, Kin
  <2> QED BY <2>1, <2>3, <2>6 DEF Passes
<1> QED BY <1>1, <1>3, <1>5, <1>7

\* What keeps a file from being built, if it and the others are clean when
\* tested, are tests of others.
BarredByTests(P) ==
  \A e \in Errors(P) : \E i \in Verifies(P) :
    /\ At(P[i]) = [file |-> e.file, line |-> e.line] /\ P[i].file # Entry
    /\ InLibrary(P[i]) \/ e.code = "forward_reference"

LEMMA OthersBar ==
  ASSUME NEW P, NEW Q, Strips(P, Q), Clean(Q),
         \A i \in DOMAIN P : P[i].file # Entry /\ ~InLibrary(P[i]) => TestedApart(P, i)
  PROVE  BarredByTests(P)
<1> DEFINE Barred(e) == \E i \in Verifies(P) :
             /\ At(P[i]) = [file |-> e.file, line |-> e.line] /\ P[i].file # Entry
             /\ InLibrary(P[i]) \/ e.code = "forward_reference"
<1>1. /\ Duplicates(P) = {} /\ DOMAIN P = DOMAIN Q
      /\ \A i \in DOMAIN Q : /\ ~Q[i].item.mistyped
                             /\ \A u \in Uses(Q[i]) : Meant(Q, i, u.name).code = "found"
  <2>1. Duplicates(P) = Duplicates(Q)
    BY StripsMeant
  <2> QED BY <2>1, NoErrors DEF Clean, Strips
<1>2. ASSUME NEW i \in DOMAIN P, P[i].file = Entry \/ P[i].item.kind # "verify"
      PROVE  /\ ~P[i].item.mistyped
             /\ \A u \in Uses(P[i]) : Meant(P, i, u.name).code = "found"
             /\ P[i].item.kind = "verify" => Passes(P, i)
  <2>1. Q[i].item = P[i].item
    BY <1>2, StripsItems
  <2>2. Uses(Q[i]) = Uses(P[i])
    BY <2>1 DEF Uses
  <2>3. P[i].item.kind = "verify" => Passes(P, i)
    BY <1>1, <2>1, StripsPasses DEF Clean, Verifies
  <2> QED BY <1>1, <2>1, <2>2, <2>3, StripsMeant
<1>3. ASSUME NEW i \in DOMAIN P, P[i].file # Entry, P[i].item.kind = "verify",
             ~InLibrary(P[i])
      PROVE  /\ ~P[i].item.mistyped /\ Passes(P, i)
             /\ \A u \in Uses(P[i]) :
                  Meant(P, i, u.name).code \in {"found", "forward_reference"}
  BY <1>3, ApartForward
<1>4. ASSUME NEW i \in DOMAIN P, NEW code,
             P[i].file # Entry /\ P[i].item.kind = "verify",
             InLibrary(P[i]) \/ code = "forward_reference"
      PROVE  Barred(Error(P[i], code))
  <2>1. At(P[i]) = [file |-> Error(P[i], code).file, line |-> Error(P[i], code).line]
    BY DEF At, Error
  <2>2. Error(P[i], code).code = code
    BY DEF Error
  <2> QED BY <1>4, <2>1, <2>2 DEF Verifies
<1> HIDE DEF Barred
<1>5. ASSUME NEW i \in DOMAIN P, NEW checking, NEW e \in UseErrors(P, i, checking)
      PROVE  Barred(e)
  <2>1. PICK u \in Uses(P[i]) : /\ Meant(P, i, u.name).code # "found"
                                /\ e = Error(P[i], Meant(P, i, u.name).code)
    BY <1>5 DEF UseErrors
  <2>2. P[i].file # Entry /\ P[i].item.kind = "verify"
    BY <1>2, <2>1
  <2>3. InLibrary(P[i]) \/ Meant(P, i, u.name).code = "forward_reference"
    BY <1>3, <2>1, <2>2
  <2> QED BY <1>4, <2>1, <2>2, <2>3
<1>6. ASSUME NEW e \in StaticErrors(P) PROVE Barred(e)
  <2>1. e \in ResolveErrors(P) \/ e \in CheckErrors(P)
    BY <1>6 DEF StaticErrors
  <2>2. CASE e \in ResolveErrors(P)
    <3>1. PICK i \in DOMAIN P : e \in UseErrors(P, i, FALSE)
      BY <1>1, <2>2 DEF ResolveErrors
    <3> QED BY <1>5, <3>1
  <2>3. CASE e \in CheckErrors(P)
    <3>1. \/ \E i \in DOMAIN P : P[i].item.mistyped /\ e = Error(P[i], "mistyped")
          \/ \E i \in DOMAIN P : e \in UseErrors(P, i, TRUE)
      BY <2>3 DEF CheckErrors
    <3>2. CASE \E i \in DOMAIN P : P[i].item.mistyped /\ e = Error(P[i], "mistyped")
      BY <1>2, <1>3, <1>4, <3>2
    <3> QED BY <1>5, <3>1, <3>2
  <2> QED BY <2>1, <2>2, <2>3
<1>7. ASSUME NEW e \in VerifyErrors(P) PROVE Barred(e)
  <2>1. PICK i \in Verifies(P) : ~Passes(P, i) /\ e = Error(P[i], "verify_failed")
    BY <1>7 DEF VerifyErrors
  <2>2. i \in DOMAIN P /\ P[i].item.kind = "verify"
    BY DEF Verifies
  <2> QED BY <1>2, <1>3, <1>4, <2>1, <2>2
<1>8. \A e \in Errors(P) : e \in StaticErrors(P) \/ e \in VerifyErrors(P)
  BY DEF Errors
<1>9. \A e \in Errors(P) : Barred(e)
  BY <1>6, <1>7, <1>8
<1> QED BY <1>9 DEF BarredByTests, Barred

-----------------------------------------------------------------------------
(* What a file is built of, and what it is tested in                       *)

\* What a file is built of, and what it is tested in, when the others are ms.
Whole(p, ms) == Append(LibraryModules \o ms, EntryModule(disk[p]))
TestOf(p, ms) == Append(WithoutTests(LibraryModules \o ms), EntryModule(disk[p]))
AllRead(p, ms) == p \in Paths /\ ReadTo(ms, p, Len(Listing))

\* Where a path of the project stands in the listing.
LEMMA NumbersIs ==
  ASSUME NEW p \in Present
  PROVE  Numbers(p) \in 1 .. Len(Listing) /\ Listing[Numbers(p)] = p
BY ListingIs DEF Numbers

\* The other files, in the order of paths, are those that were read.
LEMMA SiblingsRead ==
  ASSUME NEW p, NEW ms, disk \in [{0} \union Paths -> Texts], AllRead(p, ms)
  PROVE  /\ Len(Siblings(p)) = Len(ms) /\ DOMAIN Siblings(p) = 1 .. Len(ms)
         /\ \A n \in 1 .. Len(ms) :
              Siblings(p)[n] = [file |-> ms[n].file, text |-> ms[n].text]
<1> DEFINE paths == InOrder(Present \ {p})
           L == Len(Listing)
           b == Len(paths)
           ks == [n \in 1 .. b |-> Read(Numbers(paths[n]))]
<1>1. /\ paths \in Seq(Nat) /\ DOMAIN paths = 1 .. b /\ b \in Nat
      /\ Increases(paths)
      /\ \A q \in Present \ {p} : \E n \in 1 .. b : paths[n] = q
      /\ \A n \in 1 .. b : paths[n] \in Present \ {p}
  <2>1. Present \ {p} \in SUBSET Paths
    BY DEF Present
  <2> QED BY <2>1, InOrderIs
<1>2. /\ L \in Nat /\ L <= Size /\ \A n \in 1 .. L : Listing[n] \in Present
      /\ \A m, n \in 1 .. L : Listing[m] = Listing[n] => m = n
      /\ Increases(Listing) /\ Listing \in Seq(Nat) /\ DOMAIN Listing = 1 .. L
  <2>1. Present \in SUBSET Paths
    BY DEF Present
  <2> QED BY <2>1, InOrderIs, ListingIs DEF Listing
<1> HIDE DEF paths, b
<1>3. \A n \in 1 .. b : /\ Numbers(paths[n]) \in 1 .. L
                        /\ Listing[Numbers(paths[n])] = paths[n] /\ paths[n] # p
  BY <1>1, NumbersIs
<1>4. \A n : Read(n).file = n
  BY DEF Read
<1>5. ReadTo(ms, p, L)
  BY DEF AllRead
<1>6. ASSUME NEW n \in 1 .. L, Listing[n] # p
      PROVE  Parses(disk[Listing[n]]) /\ Read(n) \in ReadModules
  <2>1. PICK i \in 1 .. Len(ms) : ms[i] = Read(n)
    BY <1>5, <1>6 DEF ReadTo
  <2>2. PICK m \in 1 .. L : Parses(disk[Listing[m]]) /\ ms[i] = Read(m)
    BY <1>5 DEF ReadTo
  <2>3. m = n
    <3>1. Read(m) = Read(n) /\ Read(m).file = m /\ Read(n).file = n
      BY <1>4, <2>1, <2>2
    <3> QED BY <3>1
  <2>4. ms[i] \in ReadModules
    <3>1. ms \in Seq(ReadModules)
      BY <1>5 DEF ReadTo
    <3> QED BY <3>1
  <2> QED BY <2>1, <2>2, <2>3, <2>4
<1>7. /\ ks \in Seq(ReadModules) /\ Len(ks) = b
      /\ \A n \in 1 .. b : ks[n] = Read(Numbers(paths[n])) /\ ks[n].file = Numbers(paths[n])
  <2>1. \A n \in 1 .. b : Read(Numbers(paths[n])) \in ReadModules
    BY <1>3, <1>6
  <2> QED BY <1>1, <1>4, <2>1
<1> HIDE DEF ks
<1>8. \A i, j \in 1 .. b : i < j => ks[i].file < ks[j].file
  <2> SUFFICES ASSUME NEW i \in 1 .. b, NEW j \in 1 .. b, i < j
               PROVE  Numbers(paths[i]) < Numbers(paths[j])
    BY <1>7
  <2>1. PICK m, n : m = Numbers(paths[i]) /\ n = Numbers(paths[j])
    OBVIOUS
  <2>2. m \in 1 .. L /\ n \in 1 .. L /\ Listing[m] = paths[i] /\ Listing[n] = paths[j]
    BY <1>3, <2>1
  <2>3. paths[i] < paths[j] /\ paths[i] \in Nat /\ paths[j] \in Nat
    BY <1>1 DEF Increases, b
  <2>4. n < m => Listing[n] < Listing[m]
    BY <1>2, <2>2 DEF Increases
  <2>5. n # m /\ ~(n < m)
    BY <2>2, <2>3, <2>4
  <2> QED BY <1>2, <2>1, <2>2, <2>5
<1>9. \A n \in 1 .. L : Listing[n] # p => \E i \in 1 .. b : ks[i] = Read(n)
  <2> SUFFICES ASSUME NEW n \in 1 .. L, Listing[n] # p
               PROVE  \E i \in 1 .. b : ks[i] = Read(n)
    OBVIOUS
  <2>1. PICK i \in 1 .. b : paths[i] = Listing[n]
    BY <1>1, <1>2
  <2>2. Numbers(paths[i]) = n
    BY <1>2, <1>3, <2>1
  <2> QED BY <1>7, <2>2
<1>10. ReadTo(ks, p, L)
  <2>1. \A i \in 1 .. b :
          \E n \in 1 .. L : /\ Listing[n] # p /\ Parses(disk[Listing[n]])
                            /\ ks[i] = Read(n)
    <3> TAKE i \in 1 .. b
    <3>1. PICK n \in 1 .. L : n = Numbers(paths[i]) /\ Listing[n] # p
      BY <1>3
    <3> QED BY <1>6, <1>7, <3>1
  <2> QED BY <1>7, <1>8, <1>9, <2>1 DEF ReadTo
<1>11. ks = ms
  BY <1>2, <1>5, <1>10, SameRead
<1>12. Len(ms) = b
  BY <1>7, <1>11
<1>13. Siblings(p) = [n \in 1 .. b |-> [file |-> Numbers(paths[n]), text |-> disk[paths[n]]]]
  BY <1>1 DEF Siblings, paths
<1>14. \A n \in 1 .. b : ms[n].file = Numbers(paths[n]) /\ ms[n].text = disk[paths[n]]
  <2> TAKE n \in 1 .. b
  <2>1. ms[n] = Read(Numbers(paths[n]))
    BY <1>7, <1>11
  <2>2. Read(Numbers(paths[n])).text = disk[Listing[Numbers(paths[n])]]
    BY DEF Read
  <2> QED BY <1>3, <1>4, <2>1, <2>2
<1>15. DOMAIN Siblings(p) = 1 .. b /\ Len(Siblings(p)) = b
  BY <1>1, <1>13
<1> QED BY <1>12, <1>13, <1>14, <1>15

LEMMA WholeGiven ==
  ASSUME NEW p, NEW ms, disk \in [{0} \union Paths -> Texts], AllRead(p, ms)
  PROVE  /\ GivenTo(Whole(p, ms), ms, p, Len(Listing), disk[p])
         /\ PutTogether(Whole(p, ms), ms, disk[p])
         /\ Len(Whole(p, ms)) = Len(Library) + Len(ms) + 1
         /\ Modules(Whole(p, ms)) /\ FilesDiffer(Whole(p, ms))
         /\ \A n \in 1 .. Len(Whole(p, ms)) :
              Whole(p, ms)[n].file = Entry <=> n = Len(Whole(p, ms))
         /\ Whole(p, ms)[Len(Whole(p, ms))] = EntryModule(disk[p])
<1> DEFINE all == Whole(p, ms)
           a == Len(Library)
           b == Len(ms)
<1>1. disk[p] \in Texts /\ ReadTo(ms, p, Len(Listing)) /\ Len(Listing) \in 0 .. Len(Listing)
  BY ListingIs DEF AllRead
<1>2. GivenTo(all, ms, p, Len(Listing), disk[p])
  BY <1>1 DEF GivenTo, Whole
<1>3. PutTogether(all, ms, disk[p])
  BY <1>1, MergedIs DEF Whole, ReadTo
<1> HIDE DEF all
<1>4. /\ a \in Nat /\ b \in Nat /\ Len(all) = a + b + 1 /\ Modules(all)
      /\ all[a + b + 1] = EntryModule(disk[p])
  BY <1>3, Zenon DEF PutTogether
<1>5. \A i, j \in 1 .. Len(all) :
        all[i].file = all[j].file => i = j /\ (all[i].file = Entry => i = Len(all))
  BY <1>2, FilesApart
<1>6. all[Len(all)] = EntryModule(disk[p]) /\ all[Len(all)].file = Entry
  BY <1>4 DEF EntryModule
<1>7. FilesDiffer(all)
  BY <1>5 DEF FilesDiffer
<1>8. \A n \in 1 .. Len(all) : all[n].file = Entry <=> n = Len(all)
  BY <1>5, <1>6
<1> QED BY <1>2, <1>3, <1>4, <1>6, <1>7, <1>8 DEF all

LibraryTexts == [file : Int, text : Texts]
SupportTexts == LibraryTexts \union [file : Int, path : Paths, text : Texts]

LEMMA LibraryIs ==
  /\ LibraryModules \in Seq(LibraryTexts) /\ Len(LibraryModules) = Len(Library)
  /\ DOMAIN LibraryModules = 1 .. Len(Library) /\ Len(Library) \in Nat
  /\ \A n \in 1 .. Len(Library) :
       /\ LibraryModules[n] = [file |-> LibraryStart + n, text |-> Library[n]]
       /\ LibraryModules[n] \in LibraryTexts
<1>1. PICK a \in Nat : a = Len(Library)
  BY LibraryParses, LenProperties
<1>2. DOMAIN Library = 1 .. a /\ \A n \in 1 .. a : Library[n] \in Texts
  BY <1>1, LibraryParses, LenProperties
<1>3. LibraryModules = [n \in 1 .. a |-> [file |-> LibraryStart + n, text |-> Library[n]]]
  BY <1>2 DEF LibraryModules
<1>4. \A n \in 1 .. a : [file |-> LibraryStart + n, text |-> Library[n]] \in LibraryTexts
  BY <1>2 DEF LibraryTexts, LibraryStart
<1>5. LibraryModules \in [1 .. a -> LibraryTexts]
  BY <1>3, <1>4
<1>6. LibraryModules \in Seq(LibraryTexts) /\ Len(LibraryModules) = a
  BY ONLY a \in Nat, <1>5
<1> QED BY <1>1, <1>3, <1>4, <1>6

\* The library and what was read, at their places in the whole.
LEMMA SupportIs ==
  ASSUME NEW p, NEW ms, disk \in [{0} \union Paths -> Texts], AllRead(p, ms)
  PROVE  LET both == LibraryModules \o ms
             l == Len(Library) + Len(ms)
         IN /\ DOMAIN both = 1 .. l /\ Len(both) = l /\ l \in Nat
            /\ Len(Whole(p, ms)) = l + 1
            /\ both \in Seq(SupportTexts)
            /\ \A n \in 1 .. l : both[n] \in SupportTexts /\ Whole(p, ms)[n] = both[n]
            /\ \A n \in 1 .. Len(Library) : both[n] = LibraryModules[n]
            /\ \A n \in 1 .. Len(ms) : both[Len(Library) + n] = ms[n]
<1> DEFINE both == LibraryModules \o ms
           a == Len(Library)
           b == Len(ms)
<1>1. ms \in Seq(ReadModules) /\ b \in Nat
  BY LenProperties DEF AllRead, ReadTo
<1>2. ReadModules \subseteq SupportTexts
  BY PathsNumbered DEF ReadModules, SupportTexts
<1>3. ms \in Seq(SupportTexts)
  BY <1>1, <1>2, WiderSeq
<1>4. LibraryModules \in Seq(SupportTexts) /\ Len(LibraryModules) = a /\ a \in Nat
  BY LibraryIs, WiderSeq DEF SupportTexts
<1>5. Joined(LibraryModules, ms) /\ both \in Seq(SupportTexts)
  BY <1>3, <1>4, JoinedIs, ConcatProperties
<1>6. /\ Len(both) = a + b
      /\ \A n \in 1 .. a : both[n] = LibraryModules[n]
      /\ \A n \in 1 .. b : both[a + n] = ms[n]
  BY <1>4, <1>5, Zenon DEF Joined
<1>7. EntryModule(disk[p]) \in SupportTexts
  BY DEF AllRead, EntryModule, SupportTexts, LibraryTexts, Entry
<1> HIDE DEF both
<1>8. /\ Len(Whole(p, ms)) = a + b + 1
      /\ \A n \in 1 .. (a + b) : Whole(p, ms)[n] = both[n]
  <2>1. Whole(p, ms) = Append(both, EntryModule(disk[p]))
    BY DEF Whole, both
  <2>2. /\ Len(Append(both, EntryModule(disk[p]))) = Len(both) + 1
        /\ \A n \in 1 .. Len(both) : Append(both, EntryModule(disk[p]))[n] = both[n]
    BY <1>5, <1>7, WithLast
  <2> QED BY <1>6, <2>1, <2>2
<1>9. DOMAIN both = 1 .. (a + b) /\ a + b \in Nat
      /\ \A n \in 1 .. (a + b) : both[n] \in SupportTexts
  BY <1>1, <1>4, <1>5, <1>6, LenProperties
<1> QED BY <1>5, <1>6, <1>8, <1>9 DEF both

\* What a build of the file now would read is the whole.
LEMMA ModulesRead ==
  ASSUME NEW p, NEW ms, disk \in [{0} \union Paths -> Texts], AllRead(p, ms)
  PROVE  LET B == ModulesOf(p)
             W == Whole(p, ms)
         IN /\ Modules(B) /\ Len(B) = Len(W)
            /\ \A n \in 1 .. Len(W) : B[n].file = W[n].file /\ B[n].text = W[n].text
<1> DEFINE B == ModulesOf(p)
           W == Whole(p, ms)
           a == Len(Library)
           b == Len(ms)
           e == EntryModule(disk[p])
           rest == Append(Siblings(p), e)
<1>1. /\ a \in Nat /\ b \in Nat /\ Len(W) = a + b + 1
      /\ \A n \in 1 .. a : W[n] = LibraryModules[n]
      /\ \A n \in 1 .. b : W[a + n] = ms[n]
      /\ W[Len(W)] = e
  <2>1. a \in Nat /\ b \in Nat
    BY LibraryIs, LenProperties DEF AllRead, ReadTo
  <2>2. /\ \A n \in 1 .. a : n \in 1 .. (a + b)
        /\ \A n \in 1 .. b : a + n \in 1 .. (a + b)
    BY <2>1
  <2>3. /\ Len(W) = a + b + 1 /\ W[Len(W)] = e
        /\ \A n \in 1 .. (a + b) : W[n] = (LibraryModules \o ms)[n]
        /\ \A n \in 1 .. a : (LibraryModules \o ms)[n] = LibraryModules[n]
        /\ \A n \in 1 .. b : (LibraryModules \o ms)[a + n] = ms[n]
    BY SupportIs, WholeGiven
  <2> HIDE DEF W, a, b, e
  <2> QED BY <2>1, <2>2, <2>3
<1>2. /\ Len(Siblings(p)) = b /\ DOMAIN Siblings(p) = 1 .. b
      /\ \A n \in 1 .. b : Siblings(p)[n] = [file |-> ms[n].file, text |-> ms[n].text]
  BY SiblingsRead
<1>3. Siblings(p) \in Seq(LibraryTexts)
  <2>1. \A n \in 1 .. b : Siblings(p)[n] \in LibraryTexts
    <3> TAKE n \in 1 .. b
    <3>1. ms[n] \in ReadModules
      BY DEF AllRead, ReadTo
    <3>2. ms[n].file \in Int /\ ms[n].text \in Texts
      BY <3>1, PathsNumbered DEF ReadModules
    <3> QED BY <1>2, <3>2 DEF LibraryTexts
  <2>2. Siblings(p) = [n \in 1 .. b |-> Siblings(p)[n]]
    BY <1>2 DEF Siblings
  <2>3. Siblings(p) \in [1 .. b -> LibraryTexts]
    BY <2>1, <2>2
  <2> QED BY <1>1, <2>3
<1>4. e \in LibraryTexts /\ e.file = Entry
  BY DEF AllRead, EntryModule, LibraryTexts, Entry
<1> HIDE DEF e
<1>5. /\ rest \in Seq(LibraryTexts) /\ Len(rest) = b + 1 /\ rest[b + 1] = e
      /\ \A n \in 1 .. b : rest[n] = Siblings(p)[n]
  BY <1>2, <1>3, <1>4, WithLast
<1>6. B = LibraryModules \o rest
  BY DEF ModulesOf, e
<1> HIDE DEF rest, B
<1>7. B \in Seq(LibraryTexts) /\ Joined(LibraryModules, rest)
  BY <1>5, <1>6, LibraryIs, JoinedIs, ConcatProperties
<1>8. /\ Len(B) = a + (b + 1)
      /\ \A n \in 1 .. a : B[n] = LibraryModules[n]
      /\ \A n \in 1 .. (b + 1) : B[a + n] = rest[n]
  <2>1. Len(LibraryModules) = a
    BY LibraryIs
  <2> QED BY <1>5, <1>6, <1>7, <2>1, Zenon DEF Joined
<1>9. Modules(B)
  <2>1. \A m \in LibraryTexts : IsModule(m)
    BY DEF LibraryTexts, IsModule, Texts
  <2> QED BY <1>7, <2>1, LenProperties DEF Modules
<1> HIDE DEF W
<1>10. ASSUME NEW n \in 1 .. Len(W) PROVE B[n].file = W[n].file /\ B[n].text = W[n].text
  <2>1. CASE n \in 1 .. a
    BY <1>1, <1>8, <2>1
  <2>2. CASE n \notin 1 .. a /\ n # Len(W)
    <3>1. PICK k \in 1 .. b : n = a + k
      <4>1. n \in Nat /\ ~(n <= a) /\ n <= Len(W) /\ n # Len(W)
        BY <1>1, <2>2
      <4>2. n - a \in 1 .. b /\ n = a + (n - a)
        BY <1>1, <4>1
      <4> QED BY <4>2
    <3>2. W[n] = ms[k] /\ B[n] = [file |-> ms[k].file, text |-> ms[k].text]
      <4>1. k \in 1 .. (b + 1)
        BY <1>1
      <4> QED BY <1>1, <1>2, <1>5, <1>8, <3>1, <4>1
    <3> QED BY <3>2
  <2>3. CASE n = Len(W)
    <3>1. n = a + (b + 1) /\ b + 1 \in 1 .. (b + 1)
      BY <1>1, <2>3
    <3>2. B[n] = e
      BY <1>5, <1>8, <3>1
    <3> QED BY <1>1, <2>3, <3>2
  <2> QED BY <2>1, <2>2, <2>3
<1>11. Len(B) = Len(W)
  BY <1>1, <1>8
<1> QED BY <1>9, <1>10, <1>11 DEF B, W

\* The same files and lines make the same text.
LEMMA SamePlaced ==
  ASSUME NEW ms, NEW ks, Modules(ms), Modules(ks), FilesDiffer(ms), Len(ms) = Len(ks),
         \A n \in 1 .. Len(ms) : ms[n].file = ks[n].file /\ ms[n].text = ks[n].text
  PROVE  Placed(ms) = Placed(ks)
<1> DEFINE h == [n \in 1 .. Len(ms) |-> n]
           P == Placed(ms)
           Q == Placed(ks)
<1>1. FilesDiffer(ks)
  BY DEF FilesDiffer
<1>2. Matched(ms, ks, h)
  BY DEF Matched, LinesAlike
<1>a. \A n \in 1 .. Len(ms) : h[n] = n
  OBVIOUS
<1> HIDE DEF h
<1>3. PICK f : /\ SameDeclared(P, Q, f) /\ PlacesAlike(P, Q, ms, ks, h, f)
               /\ DOMAIN P = DOMAIN Q /\ \A i \in DOMAIN P : f[i] = i
  BY <1>1, <1>2, <1>a, TextsAlign
<1> HIDE DEF P, Q
<1>4. IsText(P) /\ IsText(Q)
  BY <1>3 DEF SameDeclared
<1>6. /\ P = [i \in DOMAIN P |-> P[i]] /\ Q = [i \in DOMAIN Q |-> Q[i]]
      /\ \A i \in DOMAIN P : P[i] \in Places
      /\ \A i \in DOMAIN Q : Q[i] \in Places
  <2>1. \A T : IsText(T) => T = [i \in DOMAIN T |-> T[i]] /\ \A i \in DOMAIN T : T[i] \in Places
    BY DEF IsText
  <2> QED BY <1>4, <2>1
<1>5. ASSUME NEW i \in DOMAIN P PROVE P[i] = Q[i]
  <2>1. PICK n \in 1 .. Len(ms) : \E k \in 1 .. Len(ms[n].text.lines) :
          /\ P[i].file = ms[n].file /\ P[i].line = k /\ P[i].item = ms[n].text.lines[k]
          /\ Q[i].file = ks[h[n]].file /\ Q[i].line = k
          /\ Q[i].item = ks[h[n]].text.lines[k]
    BY <1>3 DEF PlacesAlike
  <2>2. h[n] = n
    BY <1>a
  <2>3. P[i].file = Q[i].file /\ P[i].line = Q[i].line /\ P[i].item = Q[i].item
    BY <2>1, <2>2
  <2>4. P[i].ns = Q[i].ns
    BY <1>3 DEF SameDeclared
  <2>5. P[i] \in Places /\ Q[i] \in Places
    BY <1>3, <1>6
  <2> QED BY <2>3, <2>4, <2>5 DEF Places
<1>7. P = Q
  BY <1>3, <1>5, <1>6
<1> QED BY <1>7 DEF P, Q

LEMMA BuiltIs ==
  ASSUME NEW p, NEW ms, disk \in [{0} \union Paths -> Texts], AllRead(p, ms)
  PROVE  Placed(ModulesOf(p)) = Placed(Whole(p, ms))
BY ModulesRead, WholeGiven, SamePlaced

\* A support module without its tests.
StrippedModule(m) ==
  [m EXCEPT !.text.lines =
     [k \in DOMAIN @ |->
        IF @[k].kind = "verify" THEN [@[k] EXCEPT !.kind = "comment", !.calls = Nowhere,
                                                  !.type = Nowhere, !.mistyped = FALSE]
        ELSE @[k]]]

LEMMA StrippedModuleIs ==
  ASSUME NEW m \in SupportTexts
  PROVE  LET t == StrippedModule(m)
         IN /\ t \in SupportTexts /\ t.file = m.file
            /\ Len(t.text.lines) = Len(m.text.lines) /\ Len(m.text.lines) \in Nat
            /\ \A k \in 1 .. Len(m.text.lines) : t.text.lines[k] = Stripped(m.text.lines[k])
<1> DEFINE x == m.text.lines
           y == [k \in DOMAIN x |-> Stripped(x[k])]
           t == StrippedModule(m)
<1>1. m.text \in Texts /\ x \in Seq(Lines) /\ m.file \in Int
  BY DEF SupportTexts, LibraryTexts, Texts
<1>2. Len(x) \in Nat /\ DOMAIN x = 1 .. Len(x) /\ \A k \in 1 .. Len(x) : x[k] \in Lines
  BY <1>1, LenProperties
<1>3. t = [m EXCEPT !.text.lines = y]
  BY DEF StrippedModule, Stripped
<1> HIDE DEF t, x
<1>4. \A k \in 1 .. Len(x) : Stripped(x[k]) \in Lines
  BY <1>2, StrippedLine
<1>5. y \in [1 .. Len(x) -> Lines]
  BY <1>2, <1>4
<1>6. y \in Seq(Lines) /\ Len(y) = Len(x) /\ \A k \in 1 .. Len(x) : y[k] = Stripped(x[k])
  BY <1>2, <1>5
<1> HIDE DEF y
<1>7. t \in SupportTexts /\ t.file = m.file /\ t.text.lines = y
  BY <1>1, <1>3, <1>6 DEF SupportTexts, LibraryTexts, Texts
<1> QED BY <1>2, <1>6, <1>7 DEF t, x

LEMMA TestRead ==
  ASSUME NEW p, NEW ms, disk \in [{0} \union Paths -> Texts], AllRead(p, ms)
  PROVE  LET T == TestOf(p, ms)
             W == Whole(p, ms)
         IN /\ Modules(T) /\ Len(T) = Len(W) /\ FilesDiffer(T)
            /\ \A n \in 1 .. Len(W) :
                 /\ T[n].file = W[n].file /\ Len(T[n].text.lines) = Len(W[n].text.lines)
                 /\ \A k \in 1 .. Len(W[n].text.lines) :
                      T[n].text.lines[k] = IF n = Len(W) THEN W[n].text.lines[k]
                                           ELSE Stripped(W[n].text.lines[k])
<1> DEFINE T == TestOf(p, ms)
           W == Whole(p, ms)
           both == LibraryModules \o ms
           l == Len(Library) + Len(ms)
           bare == [n \in 1 .. l |-> StrippedModule(both[n])]
           e == EntryModule(disk[p])
<1>1. /\ DOMAIN both = 1 .. l /\ l \in Nat /\ Len(W) = l + 1 /\ W[l + 1] = e
      /\ \A n \in 1 .. l : both[n] \in SupportTexts /\ W[n] = both[n]
  BY SupportIs, WholeGiven
<1>2. FilesDiffer(W)
  BY WholeGiven
<1> HIDE DEF both, l, W
<1>3. T = Append(bare, e)
  <2>1. WithoutTests(both) = bare
    BY <1>1 DEF WithoutTests, StrippedModule
  <2> QED BY <2>1 DEF TestOf, both, e
<1>4. \A n \in 1 .. l : bare[n] \in SupportTexts
  BY <1>1, StrippedModuleIs
<1>5. bare \in Seq(SupportTexts) /\ Len(bare) = l
  <2>1. bare \in [1 .. l -> SupportTexts]
    BY <1>4
  <2> HIDE DEF bare
  <2> QED BY <1>1, <2>1
<1>6. e \in SupportTexts
  BY DEF AllRead, EntryModule, SupportTexts, LibraryTexts, Entry
<1>7. \A n \in 1 .. l : bare[n] = StrippedModule(both[n])
  OBVIOUS
<1> HIDE DEF bare, e, T
<1>8. /\ T \in Seq(SupportTexts) /\ Len(T) = l + 1 /\ T[l + 1] = e
      /\ \A n \in 1 .. l : T[n] = bare[n]
  BY <1>3, <1>5, <1>6, WithLast
<1>9. Modules(T)
  <2>1. \A m \in SupportTexts : IsModule(m)
    BY PathsNumbered DEF SupportTexts, LibraryTexts, IsModule, Texts
  <2> QED BY <1>8, <2>1, LenProperties DEF Modules
<1>10. ASSUME NEW n \in 1 .. Len(W)
       PROVE  /\ T[n].file = W[n].file /\ Len(T[n].text.lines) = Len(W[n].text.lines)
              /\ \A k \in 1 .. Len(W[n].text.lines) :
                   T[n].text.lines[k] = IF n = Len(W) THEN W[n].text.lines[k]
                                        ELSE Stripped(W[n].text.lines[k])
  <2>1. CASE n = l + 1
    BY <1>1, <1>8, <2>1
  <2>2. CASE n \in 1 .. l
    <3>1. T[n] = StrippedModule(W[n]) /\ W[n] \in SupportTexts /\ n # Len(W)
      BY <1>1, <1>7, <1>8, <2>2
    <3> QED BY <3>1, StrippedModuleIs
  <2>3. n \in 1 .. l \/ n = l + 1
    BY <1>1
  <2> QED BY <2>1, <2>2, <2>3
<1>11. Len(T) = Len(W)
  BY <1>1, <1>8
<1>12. FilesDiffer(T)
  BY <1>2, <1>10, <1>11 DEF FilesDiffer
<1> QED BY <1>9, <1>10, <1>11, <1>12 DEF T, W

\* The entry's tests are those of the text that is tested.
OwnTests(Q, text) ==
  /\ EntryLaid(Q, text)
  /\ \A i \in Verifies(Q) : Q[i].file = Entry

LEMMA TestStrips ==
  ASSUME NEW p, NEW ms, disk \in [{0} \union Paths -> Texts], AllRead(p, ms)
  PROVE  /\ Strips(Placed(Whole(p, ms)), Placed(TestOf(p, ms)))
         /\ OwnTests(Placed(TestOf(p, ms)), disk[p])
<1> DEFINE T == TestOf(p, ms)
           W == Whole(p, ms)
           P == Placed(W)
           Q == Placed(T)
           h == [n \in 1 .. Len(W) |-> n]
<1>1. /\ Modules(T) /\ Len(T) = Len(W) /\ FilesDiffer(T)
      /\ \A n \in 1 .. Len(W) :
           /\ T[n].file = W[n].file /\ Len(T[n].text.lines) = Len(W[n].text.lines)
           /\ \A k \in 1 .. Len(W[n].text.lines) :
                T[n].text.lines[k] = IF n = Len(W) THEN W[n].text.lines[k]
                                     ELSE Stripped(W[n].text.lines[k])
  BY TestRead
<1>2. /\ Modules(W) /\ FilesDiffer(W)
      /\ \A n \in 1 .. Len(W) : W[n].file = Entry <=> n = Len(W)
  BY WholeGiven
<1>3. EntryLaid(P, disk[p])
  BY WholeGiven, EntryPlaces
<1> HIDE DEF T, W
<1>4. Matched(W, T, h)
  BY <1>1 DEF Matched, LinesAlike
<1>5. \A n \in 1 .. Len(W) : h[n] = n
  OBVIOUS
<1> HIDE DEF h
<1>6. PICK f : /\ SameDeclared(P, Q, f) /\ PlacesAlike(P, Q, W, T, h, f)
               /\ DOMAIN P = DOMAIN Q /\ \A i \in DOMAIN P : f[i] = i
  BY <1>1, <1>2, <1>4, <1>5, TextsAlign
<1> HIDE DEF P, Q
<1>7. ASSUME NEW i \in DOMAIN P
      PROVE  /\ Q[i].file = P[i].file /\ Q[i].line = P[i].line
             /\ Q[i].item = IF P[i].file = Entry THEN P[i].item ELSE Stripped(P[i].item)
  <2>1. PICK n \in 1 .. Len(W) : \E k \in 1 .. Len(W[n].text.lines) :
          /\ P[i].file = W[n].file /\ P[i].line = k /\ P[i].item = W[n].text.lines[k]
          /\ Q[f[i]].file = T[h[n]].file /\ Q[f[i]].line = k
          /\ Q[f[i]].item = T[h[n]].text.lines[k]
    BY <1>6 DEF PlacesAlike
  <2>2. h[n] = n /\ f[i] = i
    BY <1>5, <1>6
  <2> QED BY <1>1, <1>2, <2>1, <2>2
<1>8. Strips(P, Q)
  BY <1>6, <1>7 DEF Strips
<1>9. EntryLaid(Q, disk[p])
  BY <1>3, <1>6, <1>7 DEF EntryLaid, SameDeclared
<1>10. ASSUME NEW i \in Verifies(Q) PROVE Q[i].file = Entry
  <2>1. i \in DOMAIN P /\ Q[i].item.kind = "verify"
    BY <1>6 DEF Verifies
  <2>2. P[i].file = Entry
    <3>1. P[i].item \in Lines
      BY <1>8, <2>1, StripsItems
    <3>2. Stripped(P[i].item).kind # "verify"
      BY <3>1, StrippedLine
    <3> QED BY <1>7, <2>1, <3>2
  <2> QED BY <1>7, <2>1, <2>2
<1> QED BY <1>8, <1>9, <1>10 DEF OwnTests, P, Q, T, W

-----------------------------------------------------------------------------
(* Tests counted, and the files left by one or the other                   *)

\* A text by the number it has when it is not the entry.
KeyOf(m, own) == IF m.file = Entry THEN own ELSE m.file
Keys == {LibraryStart + n : n \in 1 .. Len(Library)} \union (1 .. Len(Listing))
AtKey(k) == IF k > LibraryStart THEN Library[k - LibraryStart] ELSE disk[Listing[k]]
Keyed(W, own) ==
  /\ \A n \in 1 .. Len(W) :
       /\ KeyOf(W[n], own) \in Keys /\ W[n].text = AtKey(KeyOf(W[n], own))
       /\ W[n].file > LibraryStart <=> KeyOf(W[n], own) > LibraryStart
  /\ \A n, m \in 1 .. Len(W) : KeyOf(W[n], own) = KeyOf(W[m], own) => n = m
  /\ \A k \in Keys : \E n \in 1 .. Len(W) : KeyOf(W[n], own) = k

\* The whole that a file is built of has every file once.
LEMMA WholeKeyed ==
  ASSUME NEW p \in Present, NEW ms, disk \in [{0} \union Paths -> Texts], AllRead(p, ms)
  PROVE  Keyed(Whole(p, ms), Numbers(p))
<1> DEFINE W == Whole(p, ms)
           a == Len(Library)
           b == Len(ms)
           L == Len(Listing)
<1>1. PICK own : own = Numbers(p)
  OBVIOUS
<1>2. own \in 1 .. L /\ Listing[own] = p /\ L \in Nat /\ L <= LibraryStart
      /\ \A m, n \in 1 .. L : Listing[m] = Listing[n] => m = n
  BY <1>1, NumbersIs, ListingIs, PathsNumbered DEF LibraryStart
<1>3. /\ a \in Nat /\ b \in Nat /\ Len(W) = a + b + 1
      /\ \A n \in 1 .. a : W[n] = [file |-> LibraryStart + n, text |-> Library[n]]
      /\ \A n \in 1 .. b : W[a + n] = ms[n]
      /\ W[a + b + 1] = EntryModule(disk[p])
  <2>1. PutTogether(W, ms, disk[p])
    BY WholeGiven
  <2> HIDE DEF W
  <2> QED BY <2>1, Zenon DEF PutTogether
<1>4. /\ FilesDiffer(W)
      /\ \A n \in 1 .. Len(W) : W[n].file = Entry <=> n = Len(W)
  BY WholeGiven
<1>5. /\ \A k \in 1 .. b : \E n \in 1 .. L : Listing[n] # p /\ ms[k] = Read(n)
      /\ \A n \in 1 .. L : Listing[n] # p => \E k \in 1 .. b : ms[k] = Read(n)
  BY DEF AllRead, ReadTo
<1> HIDE DEF W, a, b, L
<1>6. ASSUME NEW n \in 1 .. a
      PROVE  /\ n \in 1 .. Len(W) /\ KeyOf(W[n], own) = LibraryStart + n
             /\ W[n].file = LibraryStart + n /\ LibraryStart + n > LibraryStart
             /\ W[n].text = AtKey(LibraryStart + n) /\ LibraryStart + n \in Keys
  <2>1. PICK m \in Nat : m = n /\ m >= 1 /\ m <= a
    OBVIOUS
  <2>2. m \in 1 .. Len(W) /\ W[m].file = LibraryStart + m /\ W[m].text = Library[m]
    <3>1. W[n] = [file |-> LibraryStart + n, text |-> Library[n]]
      BY <1>3
    <3> QED BY <1>3, <2>1, <3>1
  <2>3. LibraryStart + m > LibraryStart /\ LibraryStart + m # 0
        /\ (LibraryStart + m) - LibraryStart = m
    BY <2>1 DEF LibraryStart
  <2>4. LibraryStart + n \in Keys
    BY DEF Keys, a
  <2> QED BY <2>1, <2>2, <2>3, <2>4 DEF KeyOf, AtKey, Entry
<1>7. ASSUME NEW k \in 1 .. b, NEW n \in 1 .. L, ms[k] = Read(n)
      PROVE  /\ a + k \in 1 .. Len(W) /\ KeyOf(W[a + k], own) = n
             /\ W[a + k].file = n /\ ~(n > LibraryStart)
             /\ W[a + k].text = AtKey(n) /\ n \in Keys
  <2>1. W[a + k].file = n /\ W[a + k].text = disk[Listing[n]]
    BY <1>3, <1>7 DEF Read
  <2>2. n # 0 /\ ~(n > LibraryStart) /\ a + k \in 1 .. Len(W)
    BY <1>2, <1>3 DEF LibraryStart
  <2>3. n \in Keys
    BY DEF Keys, L
  <2> QED BY <2>1, <2>2, <2>3 DEF KeyOf, AtKey, Entry
<1>8. /\ Len(W) \in 1 .. Len(W) /\ KeyOf(W[Len(W)], own) = own
      /\ W[Len(W)].file = Entry /\ ~(own > LibraryStart) /\ ~(Entry > LibraryStart)
      /\ W[Len(W)].text = AtKey(own) /\ own \in Keys
  <2>1. Len(W) \in 1 .. Len(W) /\ W[Len(W)].file = Entry /\ W[Len(W)].text = disk[p]
    BY <1>3 DEF EntryModule
  <2>2. ~(own > LibraryStart) /\ ~(Entry > LibraryStart)
    BY <1>2 DEF LibraryStart, Entry
  <2>3. own \in Keys
    BY <1>2 DEF Keys, L
  <2> QED BY <1>2, <2>1, <2>2, <2>3 DEF KeyOf, AtKey
<1>9. ASSUME NEW n \in 1 .. Len(W)
      PROVE  \/ n \in 1 .. a
             \/ \E k \in 1 .. b : n = a + k
             \/ n = Len(W)
  <2>1. CASE n > a /\ n # Len(W)
    <3>1. n - a \in 1 .. b /\ n = a + (n - a)
      BY <1>3, <2>1
    <3> QED BY <3>1
  <2> QED BY <1>3, <2>1
<1>10. ASSUME NEW n \in 1 .. Len(W)
       PROVE  /\ KeyOf(W[n], own) \in Keys /\ W[n].text = AtKey(KeyOf(W[n], own))
              /\ W[n].file > LibraryStart <=> KeyOf(W[n], own) > LibraryStart
              /\ n # Len(W) => KeyOf(W[n], own) = W[n].file /\ W[n].file # own
  <2>1. CASE n \in 1 .. a
    <3>1. LibraryStart + n # own
      BY <1>6, <1>8, <2>1
    <3> QED BY <1>6, <2>1, <3>1
  <2>2. CASE \E k \in 1 .. b : n = a + k
    <3>1. PICK k \in 1 .. b : n = a + k
      BY <2>2
    <3>2. PICK m \in 1 .. L : Listing[m] # p /\ ms[k] = Read(m)
      BY <1>5
    <3> QED BY <1>2, <1>7, <3>1, <3>2
  <2>3. CASE n = Len(W)
    BY <1>8, <2>3
  <2> QED BY <1>9, <2>1, <2>2, <2>3
<1>11. ASSUME NEW n \in 1 .. Len(W), NEW m \in 1 .. Len(W),
              KeyOf(W[n], own) = KeyOf(W[m], own)
       PROVE  n = m
  <2>1. CASE n # Len(W) /\ m # Len(W)
    BY <1>4, <1>10, <1>11, <2>1 DEF FilesDiffer
  <2>2. CASE n = Len(W) \/ m = Len(W)
    BY <1>8, <1>10, <1>11, <2>2
  <2> QED BY <2>1, <2>2
<1>12. ASSUME NEW k \in Keys PROVE \E n \in 1 .. Len(W) : KeyOf(W[n], own) = k
  <2>1. CASE \E n \in 1 .. a : k = LibraryStart + n
    BY <1>6, <2>1
  <2>2. CASE k \in 1 .. L /\ k # own
    <3>1. Listing[k] # p
      BY <1>2, <2>2
    <3>2. PICK j \in 1 .. b : ms[j] = Read(k)
      BY <1>5, <2>2, <3>1
    <3> QED BY <1>7, <2>2, <3>2
  <2>3. CASE k = own
    BY <1>8, <2>3
  <2> QED BY <2>1, <2>2, <2>3 DEF Keys, a, L
<1>13. Keyed(W, own)
  BY <1>10, <1>11, <1>12 DEF Keyed
<1> QED BY <1>1, <1>13 DEF W

\* A file that is not the entry is the entry of another text.
LEMMA ApartFrom ==
  ASSUME NEW p \in Present, NEW q \in Present, NEW ms, NEW ks,
         disk \in [{0} \union Paths -> Texts], AllRead(p, ms), AllRead(q, ks),
         Clean(Placed(TestOf(q, ks))), NEW i \in DOMAIN Placed(Whole(p, ms)),
         Placed(Whole(p, ms))[i].file = Numbers(q)
  PROVE  TestedApart(Placed(Whole(p, ms)), i)
<1> DEFINE W == Whole(p, ms)
           V == Whole(q, ks)
           T == TestOf(q, ks)
           P == Placed(W)
           Q == Placed(T)
           Same(n, m) == KeyOf(V[m], Numbers(q)) = KeyOf(W[n], Numbers(p))
           h == [n \in 1 .. Len(W) |-> CHOOSE m \in 1 .. Len(V) : Same(n, m)]
<1>1. Keyed(W, Numbers(p)) /\ Keyed(V, Numbers(q))
  BY WholeKeyed
<1>2. /\ Modules(W) /\ FilesDiffer(W) /\ \A n \in 1 .. Len(W) : W[n].text.lines \in Seq(Lines)
      /\ Len(V) \in Nat /\ Len(V) \in 1 .. Len(V) /\ V[Len(V)].file = Entry
  <2>1. Modules(W) /\ FilesDiffer(W) /\ Modules(V)
    BY WholeGiven
  <2>2. V[Len(V)] = EntryModule(disk[q]) /\ Len(V) = Len(Library) + Len(ks) + 1
    BY WholeGiven
  <2>3. Len(Library) \in Nat /\ Len(ks) \in Nat
    BY LibraryIs, LenProperties DEF AllRead, ReadTo
  <2> HIDE DEF V, W
  <2> QED BY <2>1, <2>2, <2>3 DEF Modules, IsModule, EntryModule
<1>3. /\ Modules(T) /\ Len(T) = Len(V) /\ FilesDiffer(T)
      /\ \A n \in 1 .. Len(V) :
           /\ T[n].file = V[n].file /\ Len(T[n].text.lines) = Len(V[n].text.lines)
           /\ \A k \in 1 .. Len(V[n].text.lines) :
                T[n].text.lines[k] = IF n = Len(V) THEN V[n].text.lines[k]
                                     ELSE Stripped(V[n].text.lines[k])
  BY TestRead
<1>4. Numbers(q) # Entry
  BY NumbersIs DEF Entry
<1> HIDE DEF W, V, T
<1>5. \A n \in 1 .. Len(W) : h[n] \in 1 .. Len(V) /\ Same(n, h[n])
  <2> TAKE n \in 1 .. Len(W)
  <2>1. \E m \in 1 .. Len(V) : Same(n, m)
    BY <1>1 DEF Keyed
  <2>2. h[n] = CHOOSE m \in 1 .. Len(V) : Same(n, m)
    OBVIOUS
  <2> HIDE DEF Same, h
  <2> QED BY <2>1, <2>2
<1>6. h = [n \in 1 .. Len(W) |-> h[n]]
  OBVIOUS
<1> HIDE DEF h
<1>7. ASSUME NEW n \in 1 .. Len(W)
      PROVE  /\ V[h[n]].text = W[n].text
             /\ T[h[n]].file > LibraryStart <=> W[n].file > LibraryStart
             /\ LinesAlike(W[n].text.lines, T[h[n]].text.lines)
  <2>1. h[n] \in 1 .. Len(V) /\ KeyOf(V[h[n]], Numbers(q)) = KeyOf(W[n], Numbers(p))
    BY <1>5
  <2>2. V[h[n]].text = W[n].text
    BY <1>1, <2>1 DEF Keyed
  <2>3. T[h[n]].file > LibraryStart <=> W[n].file > LibraryStart
    BY <1>1, <1>3, <2>1 DEF Keyed
  <2>4. LinesAlike(W[n].text.lines, T[h[n]].text.lines)
    <3>1. PICK m \in 1 .. Len(V) : m = h[n]
      BY <2>1
    <3>2. PICK x : x = W[n].text.lines /\ x = V[m].text.lines
      BY <2>2, <3>1
    <3>3. PICK y : y = T[m].text.lines
      OBVIOUS
    <3>4. /\ Len(y) = Len(x)
          /\ \A k \in 1 .. Len(x) : y[k] = IF m = Len(V) THEN x[k] ELSE Stripped(x[k])
      BY <1>3, <3>2, <3>3
    <3>5. LinesAlike(x, y)
      BY <3>4 DEF LinesAlike
    <3> QED BY <3>1, <3>2, <3>3, <3>5
  <2> QED BY <2>2, <2>3, <2>4
<1>8. \A n, m \in 1 .. Len(W) : h[n] = h[m] => n = m
  BY <1>1, <1>5 DEF Keyed
<1>9. \A m \in 1 .. Len(T) : \E n \in 1 .. Len(W) : h[n] = m
  <2> TAKE m \in 1 .. Len(T)
  <2>1. m \in 1 .. Len(V)
    BY <1>3
  <2>2. PICK n \in 1 .. Len(W) : KeyOf(W[n], Numbers(p)) = KeyOf(V[m], Numbers(q))
    BY <1>1, <2>1 DEF Keyed
  <2>3. h[n] = m
    BY <1>1, <1>5, <2>1, <2>2 DEF Keyed
  <2> QED BY <2>3
<1>10. Matched(W, T, h)
  <2>1. h \in [1 .. Len(W) -> 1 .. Len(T)]
    BY <1>3, <1>5, <1>6
  <2> QED BY <1>7, <1>8, <1>9, <2>1 DEF Matched
<1>11. PICK f : SameDeclared(P, Q, f) /\ PlacesAlike(P, Q, W, T, h, f)
  BY <1>2, <1>3, <1>10, TextsAlign
<1>12. i \in DOMAIN P /\ P[i].file = Numbers(q) /\ Clean(Q)
  BY DEF W, T
<1> HIDE DEF P, Q
<1>13. PICK n \in 1 .. Len(W) : \E k \in 1 .. Len(W[n].text.lines) :
         /\ P[i].file = W[n].file /\ P[i].item = W[n].text.lines[k]
         /\ Q[f[i]].item = T[h[n]].text.lines[k]
  BY <1>11, <1>12 DEF PlacesAlike
<1>14. PICK k \in 1 .. Len(W[n].text.lines) :
         /\ P[i].file = W[n].file /\ P[i].item = W[n].text.lines[k]
         /\ Q[f[i]].item = T[h[n]].text.lines[k]
  BY <1>13
<1>15. h[n] = Len(V)
  <2>1. KeyOf(W[n], Numbers(p)) = Numbers(q)
    BY <1>4, <1>12, <1>14 DEF KeyOf
  <2>2. KeyOf(V[Len(V)], Numbers(q)) = Numbers(q)
    BY <1>2 DEF KeyOf
  <2>3. PICK m \in 1 .. Len(V) : m = h[n]
    BY <1>5
  <2>4. KeyOf(V[m], Numbers(q)) = Numbers(q)
    BY <1>5, <2>1, <2>3
  <2>5. PICK last \in 1 .. Len(V) : last = Len(V)
    BY <1>2
  <2>6. m = last
    BY <1>1, <2>2, <2>4, <2>5 DEF Keyed
  <2> QED BY <2>3, <2>5, <2>6
<1>16. Q[f[i]].item = P[i].item
  <2>1. T[h[n]].text.lines[k] = V[h[n]].text.lines[k]
    <3>1. k \in 1 .. Len(V[h[n]].text.lines)
      BY <1>7
    <3> QED BY <1>2, <1>3, <1>15, <3>1
  <2> QED BY <1>7, <1>14, <2>1
<1>17. TestedApart(P, i)
  BY <1>11, <1>12, <1>16 DEF TestedApart
<1> QED BY <1>17 DEF P, W

\* Every place of a text is in one of its modules.
LEMMA PlacesOf ==
  ASSUME NEW ms, Modules(ms)
  PROVE  /\ \A i \in DOMAIN Placed(ms) : \E n \in 1 .. Len(ms) : Placed(ms)[i].file = ms[n].file
         /\ FilesDiffer(ms) => \A i, j \in DOMAIN Placed(ms) :
              At(Placed(ms)[i]) = At(Placed(ms)[j]) => i = j
<1> DEFINE P == Placed(ms)
<1>1. PICK start : Starts(start, ms)
  BY PlacedAt
<1>2. DOMAIN P = 1 .. Len(P)
  BY PlacedAt DEF IsText
<1>3. \A n \in 1 .. Len(ms) : \A k \in 1 .. Len(ms[n].text.lines) :
        PlacedLines(ms[n])[k].file = ms[n].file /\ PlacedLines(ms[n])[k].line = k
  BY PlacedLinesOf DEF Modules
<1> HIDE DEF P
<1>4. ASSUME NEW i \in DOMAIN P
      PROVE  \E n \in 1 .. Len(ms) : \E k \in 1 .. Len(ms[n].text.lines) :
               i = start[n - 1] + k /\ P[i].file = ms[n].file /\ P[i].line = k
  <2>1. PICK n \in 1 .. Len(ms) : \E k \in 1 .. Len(ms[n].text.lines) : i = start[n - 1] + k
    BY <1>1, <1>2 DEF Starts, P
  <2>2. PICK k \in 1 .. Len(ms[n].text.lines) : i = start[n - 1] + k
    BY <2>1
  <2>3. P[i] = PlacedLines(ms[n])[k]
    BY <1>1, <2>2 DEF Starts, P
  <2> QED BY <1>3, <2>2, <2>3
<1>5. ASSUME FilesDiffer(ms), NEW i \in DOMAIN P, NEW j \in DOMAIN P,
             P[i].file = P[j].file, P[i].line = P[j].line
      PROVE  i = j
  <2>1. PICK n \in 1 .. Len(ms) : \E k \in 1 .. Len(ms[n].text.lines) :
          i = start[n - 1] + k /\ P[i].file = ms[n].file /\ P[i].line = k
    BY <1>4
  <2>2. PICK m \in 1 .. Len(ms) : \E k \in 1 .. Len(ms[m].text.lines) :
          j = start[m - 1] + k /\ P[j].file = ms[m].file /\ P[j].line = k
    BY <1>4
  <2>3. n = m
    BY <1>5, <2>1, <2>2 DEF FilesDiffer
  <2> QED BY <1>5, <2>1, <2>2, <2>3
<1>6. /\ \A i \in DOMAIN P : \E n \in 1 .. Len(ms) : P[i].file = ms[n].file
      /\ FilesDiffer(ms) => \A i, j \in DOMAIN P : At(P[i]) = At(P[j]) => i = j
  <2>1. \A i \in DOMAIN P : \E n \in 1 .. Len(ms) : P[i].file = ms[n].file
    BY <1>4
  <2> QED BY <1>5, <2>1 DEF At
<1> QED BY <1>6 DEF P

\* As many tests are found in the text as the entry has.
BlocksOf(text) == {n \in DOMAIN text.lines : text.lines[n].kind = "verify"}
LEMMA TestsCounted ==
  ASSUME NEW Q, NEW text, OwnTests(Q, text),
         \A i, j \in DOMAIN Q : At(Q[i]) = At(Q[j]) => i = j
  PROVE  /\ IsFiniteSet(Verifies(Q))
         /\ Cardinality(Verifies(Q)) = Cardinality(BlocksOf(text))
<1> DEFINE V == Verifies(Q)
           B == BlocksOf(text)
           g == [i \in V |-> Q[i].line]
<1>1. /\ IsText(Q)
      /\ \A i \in DOMAIN Q : Q[i].file = Entry =>
           Q[i].line \in DOMAIN text.lines /\ Q[i].item = text.lines[Q[i].line]
      /\ \A k \in DOMAIN text.lines : \E i \in DOMAIN Q :
           Q[i].file = Entry /\ Q[i].line = k /\ Q[i].item = text.lines[k]
      /\ \A i \in V : Q[i].file = Entry
  BY DEF OwnTests, EntryLaid
<1>2. V \subseteq DOMAIN Q /\ \A i \in DOMAIN Q : i \in V <=> Q[i].item.kind = "verify"
  BY DEF Verifies
<1>3. IsFiniteSet(V)
  <2>1. DOMAIN Q = 1 .. Len(Q) /\ Len(Q) \in Nat
    BY <1>1 DEF IsText
  <2>2. IsFiniteSet(1 .. Len(Q))
    BY <2>1, FS_Interval
  <2> HIDE DEF V
  <2> QED BY <1>2, <2>1, <2>2, FS_Subset
<1> HIDE DEF V
<1>4. g \in [V -> B]
  <2>1. \A i \in V : Q[i].line \in B
    BY <1>1, <1>2 DEF BlocksOf
  <2> QED BY <2>1
<1>5. \A i, j \in V : g[i] = g[j] => i = j
  <2> SUFFICES ASSUME NEW i \in V, NEW j \in V, g[i] = g[j] PROVE i = j
    OBVIOUS
  <2>1. i \in DOMAIN Q /\ j \in DOMAIN Q /\ Q[i].file = Q[j].file /\ Q[i].line = Q[j].line
    BY <1>1, <1>2
  <2>2. At(Q[i]) = At(Q[j])
    BY <2>1 DEF At
  <2> QED BY <2>1, <2>2
<1>6. \A k \in B : \E i \in V : g[i] = k
  <2> TAKE k \in B
  <2>1. k \in DOMAIN text.lines /\ text.lines[k].kind = "verify"
    BY DEF BlocksOf
  <2>2. PICK i \in DOMAIN Q : Q[i].line = k /\ Q[i].item = text.lines[k]
    BY <1>1, <2>1
  <2> QED BY <1>2, <2>1, <2>2
<1>7. g \in Bijection(V, B)
  BY <1>4, <1>5, <1>6 DEF Bijection, Injection, Surjection, IsInjective
<1>8. Cardinality(V) = Cardinality(B)
  BY <1>3, <1>7, FS_Bijection DEF ExistsBijection
<1> QED BY <1>3, <1>8 DEF V

\* A file has been tested with everything else that was read.
TestedIn(r, p, ms) ==
  LET Q == Placed(TestOf(p, ms))
  IN /\ AllRead(p, ms) /\ StaticErrors(Q) = {}
     /\ r.total = Cardinality(Verifies(Q))
     /\ r.passed = Cardinality({i \in Verifies(Q) : Passes(Q, i)})
Tested(r, p) == r.path = p /\ Parses(disk[p]) /\ \E ms : TestedIn(r, p, ms)

LEMMA TestedCounts ==
  ASSUME NEW p, NEW ms, NEW r, disk \in [{0} \union Paths -> Texts], TestedIn(r, p, ms)
  PROVE  /\ r.total = Cardinality(Blocks(p))
         /\ ~(r.passed < r.total) <=> Clean(Placed(TestOf(p, ms)))
<1> DEFINE Q == Placed(TestOf(p, ms))
           V == Verifies(Q)
           Good == {i \in V : Passes(Q, i)}
<1>1. /\ AllRead(p, ms) /\ StaticErrors(Q) = {}
      /\ r.total = Cardinality(V) /\ r.passed = Cardinality(Good)
  BY DEF TestedIn
<1>2. OwnTests(Q, disk[p])
  BY <1>1, TestStrips
<1>3. \A i, j \in DOMAIN Q : At(Q[i]) = At(Q[j]) => i = j
  <2>1. Modules(TestOf(p, ms)) /\ FilesDiffer(TestOf(p, ms))
    BY <1>1, TestRead
  <2> QED BY <2>1, PlacesOf
<1> HIDE DEF Q
<1>4. IsFiniteSet(V) /\ Cardinality(V) = Cardinality(BlocksOf(disk[p]))
  BY <1>2, <1>3, TestsCounted
<1>5. BlocksOf(disk[p]) = Blocks(p)
  BY DEF BlocksOf, Blocks
<1>6. Good \in SUBSET V /\ (Clean(Q) <=> \A i \in V : Passes(Q, i))
  BY <1>1 DEF Clean
<1>7. (\A i \in V : Passes(Q, i)) <=> Good = V
  OBVIOUS
<1> HIDE DEF Good, V
<1>8. /\ Cardinality(Good) <= Cardinality(V) /\ Cardinality(V) \in Nat
      /\ Cardinality(Good) \in Nat /\ (Cardinality(V) = Cardinality(Good) => V = Good)
  <2>1. IsFiniteSet(Good)
    BY <1>4, <1>6, FS_Subset
  <2>2. Cardinality(V) \in Nat /\ Cardinality(Good) \in Nat
    BY <1>4, <2>1, FS_CardinalityType
  <2> QED BY <1>4, <1>6, <2>2, FS_Subset
<1>9. ~(r.passed < r.total) <=> Clean(Q)
  <2>1. ~(r.passed < r.total) <=> Good = V
    BY <1>1, <1>8
  <2> QED BY <1>6, <1>7, <2>1
<1> QED BY <1>1, <1>4, <1>5, <1>9 DEF Q

\* If the file builds, it has no errors when tested, and every test passes.
LEMMA BuildsTested ==
  ASSUME NEW p, NEW ms, disk \in [{0} \union Paths -> Texts], AllRead(p, ms), Builds(p)
  PROVE  Clean(Placed(TestOf(p, ms)))
<1>1. Errors(Placed(Whole(p, ms))) = {}
  BY BuiltIs DEF Builds
<1>2. Strips(Placed(Whole(p, ms)), Placed(TestOf(p, ms)))
  BY TestStrips
<1> QED BY <1>1, <1>2, BuildsClean

\* If every file has been tested without an error, only tests of others keep
\* one from being built.
LEMMA TestedBar ==
  ASSUME NEW p \in Present, disk \in [{0} \union Paths -> Texts],
         \A q \in Present : \E ms : AllRead(q, ms) /\ Clean(Placed(TestOf(q, ms)))
  PROVE  BuildsBarTests(p)
<1>1. PICK ms : AllRead(p, ms) /\ Clean(Placed(TestOf(p, ms)))
  OBVIOUS
<1> DEFINE W == Whole(p, ms)
           P == Placed(W)
<1>2. Strips(P, Placed(TestOf(p, ms)))
  BY <1>1, TestStrips
<1>3. Keyed(W, Numbers(p)) /\ Modules(W)
  BY <1>1, WholeKeyed, WholeGiven
<1>4. ASSUME NEW i \in DOMAIN P, P[i].file # Entry, ~InLibrary(P[i])
      PROVE  TestedApart(P, i)
  <2>1. PICK n \in 1 .. Len(W) : P[i].file = W[n].file
    BY <1>3, PlacesOf
  <2> HIDE DEF P
  <2>2. PICK m : m = P[i].file
    OBVIOUS
  <2>3. m \in Keys /\ ~(m > LibraryStart)
    BY <1>3, <1>4, <2>1, <2>2 DEF Keyed, KeyOf, InLibrary
  <2>4. m \in 1 .. Len(Listing)
    <3>1. \A k \in 1 .. Len(Library) : LibraryStart + k > LibraryStart
      BY DEF LibraryStart
    <3> QED BY <2>3, <3>1 DEF Keys
  <2>5. PICK q \in Present : q = Listing[m]
    BY <2>4, ListingIs DEF Present
  <2>6. Numbers(q) = m
    BY <2>4, <2>5, NumbersIs, ListingIs
  <2>7. PICK ks : AllRead(q, ks) /\ Clean(Placed(TestOf(q, ks)))
    OBVIOUS
  <2> QED BY <1>1, <2>2, <2>6, <2>7, ApartFrom DEF P
<1>5. BarredByTests(P)
  BY <1>1, <1>2, <1>4, OthersBar
<1>6. P = Placed(ModulesOf(p))
  BY <1>1, BuiltIs
<1> QED BY <1>5, <1>6 DEF BarredByTests, BuildsBarTests

-----------------------------------------------------------------------------
(* What a test of the project has, if nobody edits                         *)

\* What a test of the project says, and what its exit status means.
ResultsMatch(said) ==
  /\ [n \in DOMAIN said.results |-> said.results[n].path] = Listing
  /\ \A n \in DOMAIN said.results :
       said.results[n].total = Cardinality(Blocks(said.results[n].path))
AllBuild == Listing # <<>> /\ \A p \in Range(Listing) : Builds(p)
StatusMatches(said) ==
  /\ AllBuild => ExitStatus(said) = 0
  /\ ExitStatus(said) = 0 => /\ Listing # <<>> /\ Sound
                             /\ \A p \in Range(Listing) : BuildsBarTests(p)

LEMMA MatchesIs ==
  TestsMatchBuilds <=> /\ Agreed("suite") => ResultsMatch(report)
                       /\ Reported("suite") => StatusMatches(report)
BY DEF TestsMatchBuilds, ResultsMatch, StatusMatches, AllBuild

\* What has been said so far of the first d files, and what is left.
SuiteResults == [path : Paths, total : Nat, passed : Nat]
ResultsTo(results, d) ==
  /\ results \in Seq(SuiteResults) /\ Len(results) = d
  /\ \A n \in 1 .. d : Tested(results[n], Listing[n])
SuiteLeft(suite, d) ==
  /\ d \in 0 .. Len(Listing)
  /\ suite \in Seq(Paths) /\ Len(suite) = Len(Listing) - d
  /\ \A i \in 1 .. Len(suite) : suite[i] = Listing[d + i]
SuiteAt(s, w, d) ==
  /\ ResultsTo(w.results, d) /\ d \in Nat
  /\ s = "suite" => SuiteLeft(w.suite, d)
  /\ s # "suite" => /\ d + 1 \in 1 .. Len(Listing) /\ w.path = Listing[d + 1]
                    /\ SuiteLeft(w.suite, d + 1)

Suited(s, w) ==
  /\ s \in {"idle", "collect", "suite", "entry", "list", "load"}
  /\ s = "collect" => w.results = <<>>
  /\ s \in {"suite", "entry", "list", "load"} => \E d : SuiteAt(s, w, d)
  /\ s \in {"suite", "entry", "list", "load"} => Listing # <<>>
  /\ s \in {"entry", "list"} => w.modules = <<>> /\ w.errors = {}
  /\ s \in {"list", "load"} => w.entry = disk[w.path] /\ Parses(w.entry)
  /\ s = "load" /\ w.errors = {} => Partly(w)
  /\ s = "load" /\ w.errors # {} => ~Sound

TInv ==
  /\ request.op = "suite" => ~request.bare
  /\ ~disturbed /\ request.op = "suite" => Suited(stage, work)
  /\ TestsMatchBuilds

\* All this is about the disk only.
LEMMA SuitedStill ==
  ASSUME NEW s, NEW w, Suited(s, w), disk' = disk, stage' = s, work' = w
  PROVE  Suited(stage, work)'
<1>1. Listing' = Listing
  BY DEF Listing, Present
<1>2. \A n : Read(n)' = Read(n)
  BY <1>1 DEF Read
<1>3. \A ms, path, d : ReadTo(ms, path, d)' <=> ReadTo(ms, path, d)
  BY <1>1, <1>2, ZenonT(60) DEF ReadTo
<1>4. \A todo, d : LeftOf(todo, d)' <=> LeftOf(todo, d)
  BY <1>1 DEF LeftOf
<1>5. Partly(work)' <=> Partly(w)
  BY <1>3, <1>4 DEF Partly
<1>6. \A p, ms : TestOf(p, ms)' = TestOf(p, ms) /\ (AllRead(p, ms)' <=> AllRead(p, ms))
  BY <1>1, <1>3 DEF TestOf, AllRead
<1>7. \A r, p, ms : TestedIn(r, p, ms)' <=> TestedIn(r, p, ms)
  BY <1>6 DEF TestedIn
<1>8. \A r, p : Tested(r, p)' <=> Tested(r, p)
  BY <1>7 DEF Tested
<1>9. \A results, d : ResultsTo(results, d)' <=> ResultsTo(results, d)
  BY <1>1, <1>8 DEF ResultsTo
<1>10. \A suite, d : SuiteLeft(suite, d)' <=> SuiteLeft(suite, d)
  BY <1>1 DEF SuiteLeft
<1>11. \A d : SuiteAt(stage, work, d)' <=> SuiteAt(s, w, d)
  BY <1>1, <1>9, <1>10 DEF SuiteAt
<1>12. Sound' <=> Sound
  BY <1>1 DEF Sound
<1> QED BY <1>1, <1>5, <1>11, <1>12 DEF Suited

LEMMA StatusStill ==
  ASSUME disk' = disk
  PROVE  \A said : /\ ResultsMatch(said)' <=> ResultsMatch(said)
                   /\ StatusMatches(said)' <=> StatusMatches(said)
<1>1. Listing' = Listing
  BY DEF Listing, Present
<1>2. \A p : Blocks(p)' = Blocks(p) /\ Numbers(p)' = Numbers(p)
  BY <1>1 DEF Blocks, Numbers
<1>3. \A p : Siblings(p)' = Siblings(p)
  BY <1>2 DEF Siblings, Present
<1>4. \A p : ModulesOf(p)' = ModulesOf(p)
  BY <1>3 DEF ModulesOf
<1>5. Sound' <=> Sound
  BY <1>1 DEF Sound
<1>6. \A p : (Builds(p)' <=> Builds(p)) /\ (BuildsBarTests(p)' <=> BuildsBarTests(p))
  BY <1>4, <1>5 DEF Builds, BuildsBarTests
<1>7. AllBuild' <=> AllBuild
  BY <1>1, <1>6 DEF AllBuild
<1> QED BY <1>1, <1>2, <1>5, <1>6, <1>7 DEF ResultsMatch, StatusMatches

LEMMA OnwardTInv ==
  ASSUME TInv, NEW s, NEW w, ThenDo(s, w), s # "idle",
         ~disturbed /\ request.op = "suite" => Suited(s, w)
  PROVE  TInv'
<1>1. /\ stage' = s /\ work' = w /\ disk' = disk /\ request' = request
      /\ disturbed' = disturbed
  BY DEF ThenDo
<1>2. TestsMatchBuilds'
  BY <1>1 DEF TestsMatchBuilds, Agreed, Reported
<1>3. ASSUME ~disturbed', request'.op = "suite" PROVE Suited(stage, work)'
  <2>1. Suited(s, w)
    BY <1>1, <1>3
  <2> QED BY <1>1, <2>1, SuitedStill
<1> QED BY <1>1, <1>2, <1>3 DEF TInv

\* The command has ended.
LEMMA SaidTInv ==
  ASSUME TInv, NEW r, Said(r), DOMAIN r = DOMAIN NoReport,
         ~disturbed /\ request.op = "suite" =>
           /\ disk' = disk
           /\ r.errors = {} => ResultsMatch([r EXCEPT !.op = "suite"])
           /\ StatusMatches([r EXCEPT !.op = "suite"])
  PROVE  TInv'
<1>1. /\ report' = [r EXCEPT !.op = request.op] /\ stage' = "idle" /\ work' = Fresh
      /\ request' = request /\ disturbed' = disturbed
  BY DEF Said
<1>2. report'.op = request.op /\ report'.errors = r.errors
  BY <1>1 DEF NoReport
<1>3. Suited(stage, work)'
  BY <1>1 DEF Suited
<1>4. CASE disturbed \/ request.op # "suite"
  <2>1. ~Reported("suite")' /\ ~Agreed("suite")'
    BY <1>1, <1>2, <1>4 DEF Agreed, Reported
  <2>2. TestsMatchBuilds'
    BY <2>1, Zenon DEF TestsMatchBuilds
  <2> QED BY <1>1, <1>3, <2>2 DEF TInv
<1>5. CASE ~disturbed /\ request.op = "suite"
  <2>1. PICK said : said = [r EXCEPT !.op = "suite"]
    OBVIOUS
  <2>2. report' = said
    BY <1>1, <1>5, <2>1
  <2>3. disk' = disk /\ StatusMatches(said) /\ (r.errors = {} => ResultsMatch(said))
    BY <1>5, <2>1
  <2>4. StatusMatches(said)' /\ (r.errors = {} => ResultsMatch(said)')
    BY <2>3, StatusStill
  <2>5. StatusMatches(report)'
    BY <2>2, <2>4 DEF StatusMatches
  <2>6. r.errors = {} => ResultsMatch(report)'
    BY <2>2, <2>4 DEF ResultsMatch
  <2>7. Agreed("suite")' => r.errors = {}
    BY <1>2 DEF Agreed
  <2>8. TestsMatchBuilds'
    BY <2>5, <2>6, <2>7, MatchesIs, PTL
  <2> QED BY <1>1, <1>3, <2>8 DEF TInv
<1> QED BY <1>4, <1>5

LEMMA RefusedTInv ==
  ASSUME TInv, NEW errors, Refused(errors), errors # {},
         ~disturbed /\ request.op = "suite" => ~AllBuild
  PROVE  TInv'
<1> DEFINE r == [NoReport EXCEPT !.errors = errors]
           said == [r EXCEPT !.op = "suite"]
<1>1. Said(r) /\ DOMAIN r = DOMAIN NoReport /\ r.errors = errors /\ disk' = disk
  BY DEF Refused, Answer, NoReport
<1>2. said.errors = errors
  BY DEF NoReport
<1> HIDE DEF r, said
<1>3. ExitStatus(said) = 1
  BY <1>2 DEF ExitStatus
<1>4. ~AllBuild => StatusMatches(said)
  BY <1>3 DEF StatusMatches
<1>5. ~disturbed /\ request.op = "suite" =>
        disk' = disk /\ (r.errors = {} => ResultsMatch(said)) /\ StatusMatches(said)
  BY <1>1, <1>4
<1> QED BY <1>1, <1>5, SaidTInv DEF said

\* Once every file has been tested, what is said is right.
LEMMA ResultsSaid ==
  ASSUME disk \in [{0} \union Paths -> Texts], NEW said, said.op = "suite",
         said.errors = {}, ResultsTo(said.results, Len(Listing)), Listing # <<>>
  PROVE  ResultsMatch(said) /\ StatusMatches(said)
<1> DEFINE rs == said.results
           L == Len(Listing)
<1>1. /\ Listing \in Seq(Paths) /\ L \in Nat /\ DOMAIN Listing = 1 .. L
      /\ \A n \in 1 .. L : Listing[n] \in Present
      /\ \A p \in Present : \E n \in 1 .. L : Listing[n] = p
  BY ListingIs DEF Present
<1>2. /\ rs \in Seq(SuiteResults) /\ DOMAIN rs = 1 .. L
      /\ \A n \in 1 .. L : Tested(rs[n], Listing[n])
  BY LenProperties DEF ResultsTo
<1> HIDE DEF rs
<1>3. ASSUME NEW n \in 1 .. L
      PROVE  /\ rs[n].path = Listing[n] /\ Parses(disk[Listing[n]])
             /\ rs[n].total = Cardinality(Blocks(rs[n].path))
             /\ Builds(Listing[n]) => ~(rs[n].passed < rs[n].total)
             /\ ~(rs[n].passed < rs[n].total) =>
                  \E ms : AllRead(Listing[n], ms) /\ Clean(Placed(TestOf(Listing[n], ms)))
  <2>1. PICK r, p : r = rs[n] /\ p = Listing[n]
    OBVIOUS
  <2>2. PICK ms : TestedIn(r, p, ms)
    BY <1>2, <2>1 DEF Tested
  <2>3. r.path = p /\ Parses(disk[p])
    BY <1>2, <2>1 DEF Tested
  <2>4. r.total = Cardinality(Blocks(p)) /\ (~(r.passed < r.total) <=> Clean(Placed(TestOf(p, ms))))
    BY <2>2, TestedCounts
  <2>5. AllRead(p, ms)
    BY <2>2 DEF TestedIn
  <2>6. Builds(p) => Clean(Placed(TestOf(p, ms)))
    BY <2>5, BuildsTested
  <2> QED BY <2>1, <2>3, <2>4, <2>5, <2>6
<1>4. ResultsMatch(said)
  <2>1. [n \in DOMAIN rs |-> rs[n].path] = [n \in 1 .. L |-> Listing[n]]
    BY <1>2, <1>3
  <2>2. Listing = [n \in 1 .. L |-> Listing[n]]
    BY <1>1
  <2> QED BY <1>2, <1>3, <2>1, <2>2 DEF ResultsMatch, rs
<1>5. ExitStatus(said) = 0 <=> \A n \in 1 .. L : ~(rs[n].passed < rs[n].total)
  BY <1>2 DEF ExitStatus, BlocksFail, WantsFormatting, rs
<1>6. \A p \in Range(Listing) : p \in Present
  BY <1>1 DEF Range
<1>7. AllBuild => ExitStatus(said) = 0
  <2> SUFFICES ASSUME AllBuild, NEW n \in 1 .. L PROVE ~(rs[n].passed < rs[n].total)
    BY <1>5
  <2>1. Builds(Listing[n])
    BY <1>1 DEF AllBuild, Range
  <2> QED BY <1>3, <2>1
<1>8. ASSUME ExitStatus(said) = 0
      PROVE  Sound /\ \A p \in Range(Listing) : BuildsBarTests(p)
  <2>1. Sound
    BY <1>1, <1>3 DEF Sound, Range
  <2>2. \A q \in Present : \E ms : AllRead(q, ms) /\ Clean(Placed(TestOf(q, ms)))
    BY <1>1, <1>3, <1>5, <1>8
  <2>3. \A p \in Present : BuildsBarTests(p)
    BY <2>2, TestedBar
  <2> QED BY <1>6, <2>1, <2>3
<1> QED BY <1>4, <1>7, <1>8 DEF StatusMatches

Testing == ~disturbed /\ request.op = "suite"

\* Where the work stands, copied or carried on.
LEMMA SuiteAtSame ==
  ASSUME NEW s, NEW w, NEW t, NEW v, NEW d, SuiteAt(s, w, d), s # "suite", t # "suite",
         v.results = w.results, v.suite = w.suite, v.path = w.path
  PROVE  SuiteAt(t, v, d)
BY DEF SuiteAt

LEMMA LoadingTInv ==
  ASSUME CInv, TInv, ReadEntry \/ ListProject \/ LoadSibling \/ SupportFails
  PROVE  TInv'
<1> DEFINE Parts == {"entry", "path", "todo", "modules", "errors", "checked", "suite",
                     "results", "lines", "manifest", "syntax"}
<1>1. DOMAIN work = Parts /\ (Testing => Suited(stage, work))
  BY WorkParts DEF TInv, Testing
<1>a. /\ Listing \in Seq(Paths) /\ DOMAIN Listing = 1 .. Len(Listing) /\ Len(Listing) \in Nat
      /\ \A p \in Present : \E n \in 1 .. Len(Listing) : Listing[n] = p
  BY ListingIs
<1>2. CASE ReadEntry
  <2>0. stage = "entry"
    BY <1>2 DEF ReadEntry
  <2>1. ASSUME Parses(Text), ThenDo("list", [work EXCEPT !.entry = Text]) PROVE TInv'
    <3> DEFINE w == [work EXCEPT !.entry = Text]
    <3>1. /\ w.path = work.path /\ w.modules = work.modules /\ w.entry = disk[work.path]
          /\ w.errors = work.errors /\ w.results = work.results /\ w.suite = work.suite
          /\ Parses(w.entry)
      BY <1>1, <2>1 DEF Text
    <3> HIDE DEF w
    <3>2. ASSUME Testing PROVE Suited("list", w)
      <4>1. PICK d : SuiteAt("entry", work, d)
        BY <1>1, <2>0, <3>2 DEF Suited
      <4>2. SuiteAt("list", w, d)
        BY <3>1, <4>1, SuiteAtSame
      <4> QED BY <1>1, <2>0, <3>1, <3>2, <4>2 DEF Suited
    <3> QED BY <2>1, <3>2, OnwardTInv DEF w, Testing
  <2>2. ASSUME request.op = "symbols", NEW x, Answer(Result(x)) PROVE TInv'
    <3>1. DOMAIN Result(x) = DOMAIN NoReport
      BY DEF Result, NoReport
    <3> QED BY <2>2, <3>1, SaidTInv DEF Answer
  <2>3. ASSUME ~Parses(Text), NEW e, Refused({e}) PROVE TInv'
    <3>1. ASSUME Testing PROVE ~AllBuild
      <4>1. PICK d : SuiteAt("entry", work, d)
        BY <1>1, <2>0, <3>1 DEF Suited
      <4>2. work.path \in Range(Listing)
        BY <1>a, <4>1 DEF SuiteAt, Range
      <4> QED BY <2>3, <4>2 DEF AllBuild, Builds, Sound, Text
    <3> QED BY <2>3, <3>1, RefusedTInv DEF Testing
  <2>4. Text = Missing => ~Parses(Text)
    BY DEF Missing, Parses
  <2> QED BY <1>2, <2>1, <2>2, <2>3, <2>4, Zenon DEF ReadEntry
<1>3. CASE ListProject
  <2> DEFINE w == IF request.bare THEN [work EXCEPT !.errors = {Trouble("scan")}]
                  ELSE [work EXCEPT !.todo = Numbered(Listing)]
  <2>1. ThenDo("load", w) /\ stage = "list"
    BY <1>3 DEF ListProject
  <2>2. /\ w.path = work.path /\ w.modules = work.modules /\ w.entry = work.entry
        /\ w.results = work.results /\ w.suite = work.suite
        /\ ~request.bare => w.errors = work.errors /\ w.todo = Numbered(Listing)
    BY <1>1
  <2> HIDE DEF w
  <2>3. ASSUME Testing PROVE Suited("load", w)
    <3>1. PICK d : SuiteAt("list", work, d)
      BY <1>1, <2>1, <2>3 DEF Suited
    <3>2. SuiteAt("load", w, d)
      BY <2>2, <3>1, SuiteAtSame
    <3>3. work.modules = <<>> /\ work.errors = {} /\ ~request.bare
      BY <1>1, <2>1, <2>3 DEF Suited, TInv, Testing
    <3>4. Partly(w)
      BY <2>2, <3>3, ReadFirst DEF Partly
    <3>5. Listing # <<>> /\ work.entry = disk[work.path] /\ Parses(work.entry)
      BY <1>1, <2>1, <2>3 DEF Suited
    <3> QED BY <2>2, <3>2, <3>3, <3>4, <3>5 DEF Suited
  <2> QED BY <2>1, <2>3, OnwardTInv DEF Testing
<1>4. CASE LoadSibling
  <2> DEFINE path == Upcoming.path
             bad(code) == [Rest EXCEPT !.errors = @ \union
                             {[code |-> code, file |-> Upcoming.file, line |-> 0]}]
             own == SkipsEntry /\ path = work.path
             w == CASE own -> Rest
                  [] ~own /\ disk[path] = Missing -> bad("read")
                  [] ~own /\ disk[path] # Missing /\ ~Parses(disk[path]) -> bad("parse")
                  [] OTHER -> Loaded(path)
  <2>1. ThenDo("load", w) /\ stage = "load" /\ work.todo # <<>>
    BY <1>4 DEF LoadSibling
  <2>2. /\ Rest.path = work.path /\ Rest.entry = work.entry /\ Rest.errors = work.errors
        /\ Rest.results = work.results /\ Rest.suite = work.suite /\ DOMAIN Rest = Parts
    BY <1>1 DEF Rest
  <2>3. /\ Loaded(path).path = work.path /\ Loaded(path).entry = work.entry
        /\ Loaded(path).errors = work.errors
        /\ Loaded(path).results = work.results /\ Loaded(path).suite = work.suite
    BY <1>1 DEF Loaded
  <2>4. \A code : /\ bad(code).path = work.path /\ bad(code).entry = work.entry
                  /\ bad(code).results = work.results /\ bad(code).suite = work.suite
                  /\ bad(code).errors # {}
    BY <2>2
  <2>5. Missing.syntax = "missing"
    BY DEF Missing
  <2> HIDE DEF bad, path
  <2>6. ASSUME Testing PROVE Suited("load", w)
    <3>1. SkipsEntry
      BY <2>6 DEF SkipsEntry, Testing
    <3>2. /\ work.entry = disk[work.path] /\ Parses(work.entry) /\ Listing # <<>>
          /\ work.errors = {} => Partly(work)
          /\ work.errors # {} => ~Sound
      BY <1>1, <2>1, <2>6 DEF Suited
    <3>3. PICK d : SuiteAt("load", work, d)
      BY <1>1, <2>1, <2>6 DEF Suited
    <3>4. ASSUME NEW v, v.path = work.path, v.entry = work.entry, v.results = work.results,
                 v.suite = work.suite, v.errors = {} => Partly(v), v.errors # {} => ~Sound
          PROVE  Suited("load", v)
      <4>1. SuiteAt("load", v, d)
        BY <3>3, <3>4, SuiteAtSame
      <4> QED BY <3>2, <3>4, <4>1 DEF Suited
    <3>5. CASE path = work.path
      <4>1. w = Rest
        BY <3>1, <3>5
      <4>2. work.errors = {} => Partly(Rest)
        BY <2>1, <3>2, <3>5, ReadNext DEF path
      <4> HIDE DEF w
      <4> QED BY <2>2, <3>2, <3>4, <4>1, <4>2
    <3>6. CASE path # work.path /\ ~Parses(disk[path])
      <4>1. w \in {bad("read"), bad("parse")}
        BY <3>6
      <4> HIDE DEF w
      <4>2. /\ w.path = work.path /\ w.entry = work.entry /\ w.errors # {}
            /\ w.results = work.results /\ w.suite = work.suite
        BY <2>4, <4>1
      <4>3. work.errors = {} => ~Sound
        <5> SUFFICES ASSUME work.errors = {} PROVE ~Sound
          OBVIOUS
        <5>1. PICK e : LeftOf(work.todo, e) /\ ReadTo(work.modules, work.path, e)
          BY <3>2 DEF Partly
        <5>2. path \in Present
          BY <2>1, <5>1, ReadOn DEF path, Upcoming, CInv, Holdings
        <5>3. path \in Range(Listing)
          BY <1>a, <5>2 DEF Range
        <5> QED BY <3>6, <5>3 DEF Sound
      <4> QED BY <3>2, <3>4, <4>2, <4>3
    <3>7. CASE path # work.path /\ Parses(disk[path])
      <4>0. disk[path] # Missing
        BY <2>5, <3>7 DEF Parses
      <4>1. w = Loaded(path)
        BY <3>7, <4>0
      <4>2. work.errors = {} => Partly(Loaded(path))
        BY <2>1, <3>2, <3>7, ReadNext DEF path
      <4> HIDE DEF w
      <4> QED BY <2>3, <3>2, <3>4, <4>1, <4>2
    <3> QED BY <3>5, <3>6, <3>7
  <2> HIDE DEF w
  <2> QED BY <2>1, <2>6, OnwardTInv DEF Testing
<1>5. CASE SupportFails
  <2>1. stage = "load" /\ work.errors # {} /\ Refused(work.errors)
    BY <1>5 DEF SupportFails, ReadAll
  <2>2. ASSUME Testing PROVE ~AllBuild
    <3>1. ~Sound
      BY <1>1, <2>1, <2>2 DEF Suited
    <3>2. Listing # <<>>
      BY <1>1, <2>1, <2>2 DEF Suited
    <3>3. Len(Listing) # 0
      BY <1>a, <3>2, EmptySeq
    <3>4. 1 \in DOMAIN Listing
      BY <1>a, <3>3
    <3>5. Listing[1] \in Range(Listing)
      BY <3>4 DEF Range
    <3> QED BY <3>1, <3>5 DEF AllBuild, Builds
  <2> QED BY <2>1, <2>2, RefusedTInv DEF Testing
<1> QED BY <1>2, <1>3, <1>4, <1>5

\* The next file of the suite.
LEMMA SuiteNext ==
  ASSUME NEW suite, NEW d, d \in Nat, SuiteLeft(suite, d), suite # <<>>
  PROVE  /\ d + 1 \in 1 .. Len(Listing) /\ Head(suite) = Listing[d + 1]
         /\ SuiteLeft(Tail(suite), d + 1)
<1>1. /\ suite \in Seq(Paths) /\ Len(suite) = Len(Listing) - d /\ Len(Listing) \in Nat
      /\ \A i \in 1 .. Len(suite) : suite[i] = Listing[d + i]
      /\ Len(suite) \in Nat \ {0} /\ Head(suite) = suite[1]
  <2>1. suite \in Seq(Paths) /\ Len(Listing) \in Nat
    BY ListingIs DEF SuiteLeft
  <2>2. Len(suite) # 0 /\ Len(suite) \in Nat
    BY <2>1, EmptySeq, LenProperties
  <2> QED BY <2>1, <2>2 DEF SuiteLeft
<1>2. Tail(suite) \in Seq(Paths) /\ Len(Tail(suite)) = Len(suite) - 1
  BY <1>1, HeadTailProperties
<1>3. ASSUME NEW i \in 1 .. Len(Tail(suite))
      PROVE  Tail(suite)[i] = Listing[(d + 1) + i]
  <2>1. PICK k \in 1 .. Len(suite) : k = i + 1 /\ d + k = (d + 1) + i
    BY <1>1, <1>2
  <2>2. Tail(suite)[i] = suite[k]
    BY <1>1, <1>2, <2>1, HeadTailProperties
  <2> QED BY <1>1, <2>1, <2>2
<1>4. d + 1 \in 1 .. Len(Listing) /\ d + 1 \in 0 .. Len(Listing)
  BY <1>1
<1>5. 1 \in 1 .. Len(suite)
  BY <1>1
<1> QED BY <1>1, <1>2, <1>3, <1>4, <1>5 DEF SuiteLeft

\* One file more has been tested.
LEMMA ResultsOn ==
  ASSUME NEW results, NEW d \in Nat, ResultsTo(results, d), NEW r \in SuiteResults,
         Tested(r, Listing[d + 1])
  PROVE  ResultsTo(Append(results, r), d + 1)
<1>1. results \in Seq(SuiteResults) /\ Len(results) = d
  BY DEF ResultsTo
<1> DEFINE rs == Append(results, r)
<1>2. /\ rs \in Seq(SuiteResults) /\ Len(rs) = d + 1 /\ rs[d + 1] = r
      /\ \A n \in 1 .. d : rs[n] = results[n]
  BY <1>1, WithLast
<1> HIDE DEF rs
<1>3. \A n \in 1 .. (d + 1) : n \in 1 .. d \/ n = d + 1
  OBVIOUS
<1>4. \A n \in 1 .. (d + 1) : Tested(rs[n], Listing[n])
  BY <1>2, <1>3 DEF ResultsTo
<1> QED BY <1>2, <1>4 DEF ResultsTo, rs

\* What is said of a file is a pair of numbers.
LEMMA TestedTypes ==
  ASSUME NEW p \in Paths, NEW ms, disk \in [{0} \union Paths -> Texts], AllRead(p, ms),
         NEW Q, Q = Placed(TestOf(p, ms))
  PROVE  [path |-> p, total |-> Cardinality(Verifies(Q)),
          passed |-> Cardinality({i \in Verifies(Q) : Passes(Q, i)})] \in SuiteResults
<1>1. OwnTests(Q, disk[p])
  BY TestStrips
<1>2. IsFiniteSet(DOMAIN Q)
  <2>1. DOMAIN Q = 1 .. Len(Q) /\ Len(Q) \in Nat
    BY <1>1 DEF OwnTests, EntryLaid, IsText
  <2> QED BY <2>1, FS_Interval
<1>3. Verifies(Q) \in SUBSET DOMAIN Q /\ {i \in Verifies(Q) : Passes(Q, i)} \in SUBSET DOMAIN Q
  BY DEF Verifies
<1>4. \A S \in SUBSET DOMAIN Q : Cardinality(S) \in Nat
  BY <1>2, FS_Subset, FS_CardinalityType
<1> QED BY <1>3, <1>4 DEF SuiteResults

LEMMA TestingTInv ==
  ASSUME CInv, TInv, Collect \/ NextFile \/ SuiteEnds \/ TestFile
  PROVE  TInv'
<1> DEFINE Parts == {"entry", "path", "todo", "modules", "errors", "checked", "suite",
                     "results", "lines", "manifest", "syntax"}
<1>1. /\ DOMAIN work = Parts /\ (Testing => Suited(stage, work))
      /\ disk \in [{0} \union Paths -> Texts]
  BY WorkParts DEF TInv, Testing, CInv, Holdings
<1>2. /\ Listing \in Seq(Paths) /\ DOMAIN Listing = 1 .. Len(Listing)
      /\ Len(Listing) \in Nat /\ \A n \in 1 .. Len(Listing) : Listing[n] \in Paths
  BY ListingIs
<1>3. CASE Collect
  <2>0. stage = "collect"
    BY <1>3 DEF Collect
  <2>1. CASE Listing = <<>> /\ Refused({Trouble("no_files")})
    <3>1. ~AllBuild
      BY <2>1 DEF AllBuild
    <3> QED BY <2>1, <3>1, RefusedTInv
  <2>2. CASE Listing # <<>> /\ ThenDo("suite", [work EXCEPT !.suite = Listing])
    <3> DEFINE w == [work EXCEPT !.suite = Listing]
    <3>1. w.suite = Listing /\ w.results = work.results
      BY <1>1
    <3> HIDE DEF w
    <3>2. ASSUME Testing PROVE Suited("suite", w)
      <4>1. work.results = <<>>
        BY <1>1, <2>0, <3>2 DEF Suited
      <4>2. ResultsTo(<<>>, 0)
        BY DEF ResultsTo
      <4>3. SuiteLeft(Listing, 0)
        BY <1>2 DEF SuiteLeft
      <4>4. SuiteAt("suite", w, 0)
        BY <3>1, <4>1, <4>2, <4>3 DEF SuiteAt
      <4> QED BY <2>2, <4>4 DEF Suited
    <3> QED BY <2>2, <3>2, OnwardTInv DEF w, Testing
  <2> QED BY <1>3, <2>1, <2>2 DEF Collect
<1>4. CASE NextFile
  <2> DEFINE w == [Fresh EXCEPT !.path = Head(work.suite), !.suite = Tail(work.suite),
                                !.results = work.results]
  <2>1. ThenDo("entry", w) /\ stage = "suite" /\ work.suite # <<>>
    BY <1>4 DEF NextFile
  <2>2. /\ w.path = Head(work.suite) /\ w.suite = Tail(work.suite)
        /\ w.results = work.results /\ w.modules = <<>> /\ w.errors = {}
    BY DEF Fresh
  <2> HIDE DEF w
  <2>3. ASSUME Testing PROVE Suited("entry", w)
    <3>1. PICK d : SuiteAt("suite", work, d)
      BY <1>1, <2>1, <2>3 DEF Suited
    <3>2. ResultsTo(work.results, d) /\ d \in Nat /\ SuiteLeft(work.suite, d)
      BY <3>1 DEF SuiteAt
    <3>3. SuiteAt("entry", w, d)
      BY <2>1, <2>2, <3>2, SuiteNext DEF SuiteAt
    <3>4. Listing # <<>>
      BY <1>1, <2>1, <2>3 DEF Suited
    <3> QED BY <2>2, <3>3, <3>4 DEF Suited
  <2> QED BY <2>1, <2>3, OnwardTInv DEF Testing
<1>5. CASE SuiteEnds
  <2> DEFINE r == [NoReport EXCEPT !.results = work.results]
             said == [r EXCEPT !.op = "suite"]
  <2>1. Answer(r) /\ stage = "suite" /\ work.suite = <<>>
    BY <1>5 DEF SuiteEnds
  <2>2. /\ DOMAIN r = DOMAIN NoReport /\ r.errors = {}
        /\ said.op = "suite" /\ said.errors = {} /\ said.results = work.results
    BY DEF NoReport
  <2> HIDE DEF r, said
  <2>3. ASSUME Testing PROVE ResultsMatch(said) /\ StatusMatches(said)
    <3>1. PICK d : SuiteAt("suite", work, d)
      BY <1>1, <2>1, <2>3 DEF Suited
    <3>2. ResultsTo(work.results, d) /\ d \in Nat /\ SuiteLeft(<<>>, d)
      BY <2>1, <3>1 DEF SuiteAt
    <3>3. d = Len(Listing)
      <4>1. Len(<<>>) = Len(Listing) - d
        BY <3>2 DEF SuiteLeft
      <4>2. Len(<<>>) = 0
        OBVIOUS
      <4>3. PICK l \in Nat : l = Len(Listing)
        BY <1>2
      <4>4. l - d = 0
        BY <4>1, <4>2, <4>3
      <4>5. l = d
        BY <3>2, <4>4
      <4> QED BY <4>3, <4>5
    <3>4. Listing # <<>>
      BY <1>1, <2>1, <2>3 DEF Suited
    <3> QED BY <1>1, <2>2, <3>2, <3>3, <3>4, ResultsSaid
  <2>4. Said(r) /\ disk' = disk
    BY <2>1 DEF Answer
  <2> QED BY <2>2, <2>3, <2>4, SaidTInv DEF said, Testing
<1>6. CASE TestFile
  <2> DEFINE P == Placed(Append(WithoutTests(Support), EntryModule(work.entry)))
             result == [path |-> work.path, total |-> Cardinality(Verifies(P)),
                        passed |-> Cardinality({i \in Verifies(P) : Passes(P, i)})]
             results == Append(work.results, result)
             w == [work EXCEPT !.results = results]
  <2>1. stage = "load" /\ work.todo = <<>> /\ work.errors = {}
    BY <1>6 DEF TestFile, ReadAll
  <2>2. ASSUME Testing
        PROVE  /\ AllRead(work.path, work.modules)
               /\ P = Placed(TestOf(work.path, work.modules))
               /\ work.path \in Range(Listing) /\ work.path \in Paths
               /\ Parses(disk[work.path])
    <3>1. /\ Partly(work) /\ work.entry = disk[work.path] /\ Parses(work.entry)
          /\ \E d : SuiteAt("load", work, d)
      BY <1>1, <2>1, <2>2 DEF Suited
    <3>2. PICK d : LeftOf(<<>>, d) /\ ReadTo(work.modules, work.path, d)
      BY <2>1, <3>1 DEF Partly
    <3>3. ReadTo(work.modules, work.path, Len(Listing))
      BY <3>2, ReadLast
    <3>4. work.path \in Range(Listing) /\ work.path \in Paths
      BY <1>2, <3>1 DEF SuiteAt, Range
    <3>5. P = Placed(TestOf(work.path, work.modules))
      BY <3>1 DEF TestOf, Support
    <3> QED BY <3>1, <3>3, <3>4, <3>5 DEF AllRead
  <2> HIDE DEF P
  <2>3. CASE StaticErrors(P) # {} /\ Refused(StaticErrors(P))
    <3>1. ASSUME Testing PROVE ~AllBuild
      <4> SUFFICES ASSUME AllBuild PROVE FALSE
        OBVIOUS
      <4>1. Builds(work.path)
        BY <2>2, <3>1 DEF AllBuild
      <4>2. Clean(Placed(TestOf(work.path, work.modules)))
        BY <1>1, <2>2, <3>1, <4>1, BuildsTested
      <4> QED BY <2>2, <2>3, <3>1, <4>2 DEF Clean
    <3> QED BY <2>3, <3>1, RefusedTInv DEF Testing
  <2>4. CASE request.op = "test" /\ Answer([NoReport EXCEPT !.results = results])
    <3>1. DOMAIN [NoReport EXCEPT !.results = results] = DOMAIN NoReport
      OBVIOUS
    <3> QED BY <2>4, <3>1, SaidTInv DEF Answer
  <2>5. CASE StaticErrors(P) = {} /\ ThenDo("suite", w)
    <3>1. w.results = results /\ w.suite = work.suite
      BY <1>1
    <3> HIDE DEF w
    <3>2. ASSUME Testing PROVE Suited("suite", w)
      <4>1. PICK d : SuiteAt("load", work, d)
        BY <1>1, <2>1, <3>2 DEF Suited
      <4>2. /\ ResultsTo(work.results, d) /\ d \in Nat /\ d + 1 \in Nat
            /\ work.path = Listing[d + 1] /\ SuiteLeft(work.suite, d + 1)
        BY <4>1 DEF SuiteAt
      <4>3. result \in SuiteResults
        BY <1>1, <2>2, <3>2, TestedTypes
      <4>4. Tested(result, work.path)
        <5>1. TestedIn(result, work.path, work.modules)
          BY <2>2, <2>5, <3>2 DEF TestedIn
        <5>2. result.path = work.path
          OBVIOUS
        <5> HIDE DEF result
        <5> QED BY <2>2, <3>2, <5>1, <5>2 DEF Tested
      <4> HIDE DEF result
      <4>5. ResultsTo(results, d + 1)
        BY <4>2, <4>3, <4>4, ResultsOn
      <4> HIDE DEF results
      <4>6. SuiteAt("suite", w, d + 1)
        BY <3>1, <4>2, <4>5 DEF SuiteAt
      <4>7. Listing # <<>>
        BY <1>1, <2>1, <3>2 DEF Suited
      <4> QED BY <4>6, <4>7 DEF Suited
    <3> QED BY <2>5, <3>2, OnwardTInv DEF Testing
  <2>6. \/ StaticErrors(P) # {} /\ Refused(StaticErrors(P))
        \/ request.op = "test" /\ Answer([NoReport EXCEPT !.results = results])
        \/ StaticErrors(P) = {} /\ ThenDo("suite", w)
    BY <1>6, Zenon DEF TestFile, P
  <2> QED BY <2>3, <2>4, <2>5, <2>6
<1> QED BY <1>3, <1>4, <1>5, <1>6

\* The steps of the other commands.
LEMMA ElsewhereTInv ==
  ASSUME TInv, ~Testing,
         NEW s, NEW w, NEW r,
         \/ ThenDo(s, w) /\ s # "idle"
         \/ Said(r) /\ DOMAIN r = DOMAIN NoReport
  PROVE  TInv'
BY OnwardTInv, SaidTInv DEF Testing

LEMMA NotTesting ==
  ASSUME CInv, TInv,
         \/ Build \/ RereadEntry \/ Relist \/ Reload \/ Execute
         \/ QueryRegistry \/ QueryPosition
         \/ Inputs \/ Gather \/ Validate \/ WriteBundle
         \/ FormatRead \/ FormatCompare \/ FormatReread \/ WriteFormatted
  PROVE  ~Testing
<1> SUFFICES ASSUME Testing PROVE FALSE
  OBVIOUS
<1>1. /\ request.op = "suite"
      /\ stage \in {"idle", "collect", "suite", "entry", "list", "load"}
  BY DEF TInv, Testing, Suited
<1>2. CASE Build \/ QueryRegistry \/ QueryPosition
  BY <1>1, <1>2 DEF Build, QueryRegistry, QueryPosition
<1>3. CASE RereadEntry \/ Relist \/ Reload \/ Execute
  BY <1>1, <1>3 DEF RereadEntry, Relist, Reload, Execute
<1>4. CASE Inputs \/ Gather \/ Validate \/ WriteBundle
  BY <1>1, <1>4 DEF Inputs, Gather, Validate, WriteBundle
<1>5. CASE FormatRead \/ FormatCompare \/ FormatReread \/ WriteFormatted
  BY <1>1, <1>5 DEF FormatRead, FormatCompare, FormatReread, WriteFormatted, Formats
<1> QED BY <1>2, <1>3, <1>4, <1>5

LEMMA OthersTInv ==
  ASSUME CInv, TInv,
         \/ Build \/ RereadEntry \/ Relist \/ Reload \/ Execute
         \/ QueryRegistry \/ QueryPosition
         \/ Inputs \/ Gather \/ Validate \/ WriteBundle
         \/ FormatRead \/ FormatCompare \/ FormatReread \/ WriteFormatted
  PROVE  TInv'
<1>1. ~Testing
  BY NotTesting
<1>2. \A x : DOMAIN Result(x) = DOMAIN NoReport
  BY DEF Result, NoReport
<1>3. \A x : DOMAIN [NoReport EXCEPT !.errors = x] = DOMAIN NoReport
  OBVIOUS
<1>4. \A x, y : DOMAIN [Result(x) EXCEPT !.ran = y] = DOMAIN NoReport
  BY <1>2
<1>5. \A x : DOMAIN [NoReport EXCEPT !.manifest = x] = DOMAIN NoReport
  OBVIOUS
<1> DEFINE Onward == \E s, w : ThenDo(s, w) /\ s # "idle"
           Ends == \E r : Said(r) /\ DOMAIN r = DOMAIN NoReport
<1>6. Onward \/ Ends => TInv'
  BY <1>1, ElsewhereTInv
<1>7. \A x : Refused(x) => Ends
  BY <1>3 DEF Refused, Answer
<1>8. \A x : Answer(Result(x)) => Ends
  BY <1>2 DEF Answer
<1>9. \A x, y : Answer([Result(x) EXCEPT !.ran = y]) => Ends
  BY <1>4 DEF Answer
<1>10. \A s, w : ThenDo(s, w) /\ s # "idle" => Onward
  OBVIOUS
<1>11. \A w : /\ ThenDo("gather", w) => Onward
              /\ ThenDo("write", w) => Onward
              /\ ThenDo("original", w) => Onward
              /\ ThenDo("reread", w) => Onward
              /\ ThenDo("relist", w) => Onward
              /\ ThenDo("reload", w) => Onward
  BY <1>10
<1> HIDE DEF Onward, Ends
<1>12. CASE Build
  BY <1>6, <1>7, <1>8, <1>11, <1>12, Zenon DEF Build
<1>13. CASE RereadEntry \/ Relist \/ Reload
  BY <1>6, <1>7, <1>11, <1>13, Zenon DEF RereadEntry, Relist, Reload
<1>14. CASE Execute
  BY <1>6, <1>7, <1>9, <1>14, Zenon DEF Execute
<1>15. CASE QueryRegistry \/ QueryPosition
  BY <1>6, <1>7, <1>8, <1>15, Zenon DEF QueryRegistry, QueryPosition
<1>16. CASE Inputs \/ Gather \/ Validate
  BY <1>6, <1>7, <1>11, <1>16, Zenon DEF Inputs, Gather, Validate
<1>17. CASE WriteBundle
  BY <1>5, <1>6, <1>17 DEF WriteBundle, Ends
<1>18. CASE WriteFormatted
  BY <1>2, <1>6, <1>18 DEF WriteFormatted, Ends
<1>19. CASE FormatRead \/ FormatCompare \/ FormatReread
  BY <1>6, <1>7, <1>8, <1>11, <1>19, Zenon DEF FormatRead, FormatCompare, FormatReread
<1> QED BY <1>12, <1>13, <1>14, <1>15, <1>16, <1>17, <1>18, <1>19

LEMMA InitTInv == Init => TInv
<1> SUFFICES ASSUME Init PROVE TInv
  OBVIOUS
<1>1. request = [op |-> "none", path |-> 0, bare |-> FALSE] /\ report = NoReport
  BY DEF Init, ShellInit
<1>2. ~Reported("suite") /\ ~Agreed("suite")
  BY <1>1 DEF Agreed, Reported, NoReport
<1>3. TestsMatchBuilds
  BY <1>2, Zenon DEF TestsMatchBuilds
<1> QED BY <1>1, <1>3 DEF TInv

LEMMA StartTInv ==
  ASSUME Start
  PROVE  TInv'
<1>1. PICK q \in Requests :
        /\ request' = q
        /\ stage' = CASE q.op \in {"namespaces", "signature"} -> "list"
                    [] q.op = "bundle" -> "inputs"
                    [] q.op = "suite" -> "collect"
                    [] OTHER -> "entry"
        /\ work' = [Fresh EXCEPT !.path = q.path]
  BY DEF Start
<1>2. report' = NoReport
  BY DEF Start
<1>3. TestsMatchBuilds'
  <2>1. ~Reported("suite")' /\ ~Agreed("suite")'
    BY <1>2 DEF Agreed, Reported, NoReport
  <2> QED BY <2>1, Zenon DEF TestsMatchBuilds
<1>4. ASSUME request'.op = "suite" PROVE ~request'.bare /\ Suited(stage, work)'
  <2>1. stage' = "collect" /\ work'.results = <<>>
    BY <1>1, <1>4 DEF Fresh
  <2>2. ~request'.bare
    BY <1>1, <1>4, SuiteFromRoot
  <2> QED BY <2>1, <2>2 DEF Suited
<1> QED BY <1>3, <1>4 DEF TInv

LEMMA EditTInv ==
  ASSUME TInv, Edit
  PROVE  TInv'
<1>1. disturbed' = TRUE /\ request' = request
  BY DEF Edit
<1>2. ~Reported("suite")' /\ ~Agreed("suite")'
  BY <1>1 DEF Agreed, Reported
<1>3. TestsMatchBuilds'
  BY <1>2, Zenon DEF TestsMatchBuilds
<1> QED BY <1>1, <1>3 DEF TInv

LEMMA StillTInv ==
  ASSUME TInv, UNCHANGED shell
  PROVE  TInv'
<1>1. /\ disk' = disk /\ request' = request /\ stage' = stage /\ work' = work
      /\ disturbed' = disturbed /\ report' = report
  BY DEF shell
<1>2. TestsMatchBuilds'
  <2>1. PICK said : said = report
    OBVIOUS
  <2>2. /\ Agreed("suite") => ResultsMatch(said)
        /\ Reported("suite") => StatusMatches(said)
    BY <2>1, MatchesIs DEF TInv, ResultsMatch, StatusMatches
  <2>3. /\ Agreed("suite")' => ResultsMatch(said)'
        /\ Reported("suite")' => StatusMatches(said)'
    BY <1>1, <2>2, StatusStill DEF Agreed, Reported
  <2>4. report' = said
    BY <1>1, <2>1
  <2>5. (ResultsMatch(said)' => ResultsMatch(report)')
    BY <2>4 DEF ResultsMatch
  <2>6. (StatusMatches(said)' => StatusMatches(report)')
    BY <2>4 DEF StatusMatches
  <2> QED BY <2>3, <2>5, <2>6, MatchesIs, PTL
<1>3. ASSUME Testing PROVE Suited(stage, work)'
  <2>1. Suited(stage, work)
    BY <1>3 DEF TInv, Testing
  <2>2. PICK s, w : s = stage /\ w = work
    OBVIOUS
  <2>3. Suited(s, w) /\ stage' = s /\ work' = w
    BY <1>1, <2>1, <2>2
  <2> QED BY <1>1, <2>3, SuitedStill
<1> QED BY <1>1, <1>2, <1>3 DEF TInv, Testing

LEMMA StepTInv == CInv /\ TInv /\ [Next]_vars => TInv'
<1> SUFFICES ASSUME CInv, TInv, [Next]_vars PROVE TInv'
  OBVIOUS
<1>1. CASE UNCHANGED shell
  BY <1>1, StillTInv
<1>2. CASE Start \/ Edit
  BY <1>2, StartTInv, EditTInv
<1>3. CASE Work
  BY <1>3, LoadingTInv, TestingTInv, OthersTInv DEF Work
<1> QED BY <1>1, <1>2, <1>3 DEF Next, ShellNext, vars

-----------------------------------------------------------------------------
\* If nobody edits the project while run is at work, what it reads the second
\* time, file by file and without an error for what does not parse, is what
\* it checked the first time: every module has the file id its types are
\* recorded under, which no other has, and the function that the interpreter
\* finds for main's call, by name and the last one registered, is the one the
\* resolver found, by place and the first one declared (run_file,
\* check_project_or_entry, load_project_modules).
THEOREM ToolsRunWhatWasChecked == Spec => []RunsWhatWasChecked
<1>1. RInv => RunsWhatWasChecked
  BY DEF RInv
<1> QED BY <1>1, InitCInv, StepCInv, InitRInv, StepRInv, PTL DEF Spec

-----------------------------------------------------------------------------
\* If nobody edits the project while its files are tested, what is said of
\* them is in the order of the listing, with every block of each file once and
\* none of another, although each file is checked and run with the others
\* stripped of their tests; the status is a success if every file builds, and
\* a success says that they all parse and that nothing but tests of other
\* files keeps one from being built (test_project, test_file,
\* strip_test_items_from_support_modules).
THEOREM ToolsTestsMatchBuilds == Spec => []TestsMatchBuilds
<1>1. TInv => TestsMatchBuilds
  BY DEF TInv
<1> QED BY <1>1, InitCInv, StepCInv, InitTInv, StepTInv, PTL DEF Spec

-----------------------------------------------------------------------------
\* What the client is shown of an open document are the errors of the text it
\* has there, once the server has nothing left to do for it and unless two of
\* its handlers have overlapped: did_open and did_change publish after the
\* lock is released, in whatever order tower-lsp goes on with them.
THEOREM ServerShowsCurrent == Spec => []ShownIsCurrent
<1>1. SInv => ShownIsCurrent
  BY DEF SInv, Alike, ShownIsCurrent
<1> QED BY <1>1, InitSInv, StepSInv, PTL DEF Spec
=============================================================================
