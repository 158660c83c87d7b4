------------------------- MODULE InterpreterProofs -------------------------
(***************************************************************************)
(* Invariants of the interpreter's control, for every program, any number  *)
(* of names and namespaces, and any bounds.                                *)
(***************************************************************************)
EXTENDS Interpreter, SequenceFacts

Roots == {"verify", "given", "function"}

\* What holds of the frames over a stack of `depth` scopes: the runner started
\* the outermost one.
Stack(fs, depth) ==
  /\ fs \in Seq(FrameType)
  /\ Live(fs, depth)
  /\ fs # <<>> => fs[1].kind \in Roots

\* An error or a signal is always leaving some construct.
IInv == /\ TypeOK
        /\ Stack(frames, Len(scopes))
        /\ flow # "run" => frames # <<>>
        /\ VerdictAtRest

-----------------------------------------------------------------------------
(* Frames pushed, popped and updated                                       *)

LEMMA StackPush ==
  ASSUME NEW fs, NEW depth \in Nat \ {0}, NEW f \in FrameType, Stack(fs, depth),
         f.at = depth + 1, fs = <<>> => f.kind \in Roots
  PROVE  Stack(Append(fs, f), depth + 1)
<1> DEFINE gs == Append(fs, f)
<1>1. fs \in Seq(FrameType) /\ Len(fs) \in Nat
  BY LenProperties DEF Stack
<1>2. /\ gs \in Seq(FrameType)
      /\ Len(gs) = Len(fs) + 1
      /\ \A i \in 1 .. Len(fs) : gs[i] = fs[i]
      /\ gs[Len(fs) + 1] = f
  BY <1>1, AppendProperties
<1> HIDE DEF gs
<1>3. ASSUME NEW i \in 1 .. Len(gs) PROVE gs[i].at \in 2 .. (depth + 1)
  <2>1. CASE i \in 1 .. Len(fs)
    BY <1>2, <2>1 DEF Stack, Live
  <2>2. CASE i = Len(fs) + 1
    BY <1>2, <2>2
  <2> QED BY <1>1, <1>2, <2>1, <2>2
<1>4. ASSUME NEW i \in 1 .. Len(gs), NEW j \in 1 .. Len(gs), i < j
      PROVE  gs[i].at < gs[j].at
  <2>1. i \in 1 .. Len(fs) /\ fs[i].at \in 2 .. depth
    BY <1>1, <1>2, <1>4 DEF Stack, Live
  <2>2. CASE j \in 1 .. Len(fs)
    BY <1>2, <1>4, <2>1, <2>2 DEF Stack, Live
  <2>3. CASE j = Len(fs) + 1
    BY <1>2, <2>1, <2>3
  <2> QED BY <1>1, <1>2, <2>2, <2>3
<1>5. gs[1].kind \in Roots
  <2>1. CASE fs = <<>>
    BY <1>2, <2>1, Len(<<>>) = 0
  <2>2. CASE fs # <<>>
    BY <1>1, <1>2, <2>2, EmptySeq DEF Stack
  <2> QED BY <2>1, <2>2
<1> QED BY <1>2, <1>3, <1>4, <1>5 DEF Stack, Live, gs

LEMMA StackPop ==
  ASSUME NEW fs, NEW depth \in Nat, Stack(fs, depth), fs # <<>>
  PROVE  LET gs == SubSeq(fs, 1, Len(fs) - 1)
         IN  /\ Stack(gs, depth) /\ Stack(gs, depth - 1)
             /\ depth - 1 \in Nat \ {0}
             /\ fs[Len(fs)] \in FrameType
             /\ fs[Len(fs)].at \in 2 .. depth
             /\ gs = <<>> <=> Len(fs) = 1
<1> DEFINE gs == SubSeq(fs, 1, Len(fs) - 1)
           n == Len(fs)
<1>1. fs \in Seq(FrameType) /\ n \in Nat \ {0}
  BY EmptySeq DEF Stack
<1>2. \A i \in 1 .. n : fs[i] \in FrameType
  <2> HIDE DEF n
  <2> QED BY <1>1, ElementOfSeq DEF n
<1>3. /\ gs \in Seq(FrameType)
      /\ Len(gs) = n - 1
      /\ \A i \in 1 .. (n - 1) : gs[i] = fs[i]
  <2> HIDE DEF n
  <2>1. \A i \in 1 .. (n - 1) : fs[i] \in FrameType
    BY <1>1, <1>2
  <2>2. gs = SubSeq(fs, 1, n - 1)
    BY DEF n
  <2> HIDE DEF gs
  <2>3. /\ gs \in Seq(FrameType)
        /\ Len(gs) = IF 1 <= n - 1 THEN n - 1 - 1 + 1 ELSE 0
        /\ \A i \in 1 .. (n - 1 - 1 + 1) : gs[i] = fs[1 + i - 1]
    BY <1>1, <2>1, <2>2, SubSeqProperties
  <2>4. \A i \in 1 .. (n - 1) : gs[i] = fs[i]
    BY <1>1, <2>3
  <2> QED BY <1>1, <2>3, <2>4
<1>4. /\ \A i \in 1 .. n : fs[i].at \in 2 .. depth
      /\ \A i, j \in 1 .. n : i < j => fs[i].at < fs[j].at
  BY DEF Stack, Live
<1>5. fs[n].at \in 2 .. depth /\ depth - 1 \in Nat \ {0}
  BY <1>1, <1>4
<1> HIDE DEF gs, n
<1>6. \A i \in 1 .. (n - 1) : fs[i].at \in 2 .. (depth - 1)
  <2> SUFFICES ASSUME NEW i \in 1 .. (n - 1) PROVE fs[i].at \in 2 .. (depth - 1)
    OBVIOUS
  <2>1. i \in 1 .. n /\ n \in 1 .. n /\ i < n
    BY <1>1
  <2>2. fs[i].at < fs[n].at /\ fs[i].at \in 2 .. depth
    BY <1>4, <2>1
  <2> QED BY <1>5, <2>2
<1>7. Live(gs, depth) /\ Live(gs, depth - 1)
  <2>1. \A i \in 1 .. (n - 1) : gs[i].at \in 2 .. (depth - 1) /\ gs[i].at \in 2 .. depth
    <3>1. \A i \in 1 .. (n - 1) : i \in 1 .. n
      BY <1>1
    <3> QED BY <1>3, <1>4, <1>6, <3>1
  <2>2. \A i, j \in 1 .. (n - 1) : i < j => gs[i].at < gs[j].at
    BY <1>1, <1>3, <1>4, SMTT(30)
  <2> QED BY <1>3, <2>1, <2>2 DEF Live
<1>8. gs # <<>> => gs[1].kind \in Roots
  <2> SUFFICES ASSUME gs # <<>> PROVE gs[1].kind \in Roots
    OBVIOUS
  <2>1. Len(gs) \in Nat \ {0}
    BY <1>3, EmptySeq
  <2>2. fs # <<>> /\ gs[1] = fs[1]
    BY <1>1, <1>3, <2>1
  <2> QED BY <2>2 DEF Stack
<1>9. gs = <<>> <=> n = 1
  BY <1>1, <1>3, EmptySeq, Len(<<>>) = 0
<1>10. fs[n] \in FrameType
  BY <1>1, <1>2
<1> QED BY <1>3, <1>5, <1>7, <1>8, <1>9, <1>10 DEF Stack, gs, n

LEMMA StackUpdate ==
  ASSUME NEW fs, NEW depth \in Nat, Stack(fs, depth), fs # <<>>,
         NEW f \in FrameType, f.at = fs[Len(fs)].at, f.kind = fs[Len(fs)].kind
  PROVE  /\ Stack([fs EXCEPT ![Len(fs)] = f], depth)
         /\ [fs EXCEPT ![Len(fs)] = f] # <<>>
<1> DEFINE gs == [fs EXCEPT ![Len(fs)] = f]
<1>1. fs \in Seq(FrameType) /\ Len(fs) \in Nat \ {0}
  BY EmptySeq DEF Stack
<1>2. /\ gs \in Seq(FrameType) /\ Len(gs) = Len(fs)
      /\ \A i \in 1 .. Len(fs) : gs[i] = IF i = Len(fs) THEN f ELSE fs[i]
  BY <1>1, ExceptSeq
<1>3. \A i \in 1 .. Len(fs) : gs[i].at = fs[i].at /\ gs[i].kind = fs[i].kind
  BY <1>2
<1> HIDE DEF gs
<1>4. Live(gs, depth)
  BY <1>2, <1>3 DEF Live, Stack
<1>5. gs # <<>> /\ gs[1].kind \in Roots
  BY <1>1, <1>2, <1>3, Len(<<>>) = 0 DEF Stack
<1> QED BY <1>2, <1>4, <1>5 DEF Stack, gs

-----------------------------------------------------------------------------
(* The state                                                               *)

\* What TypeOK says beyond the two stacks.
Rest == /\ flow \in Signals \union {"run", "error"}
        /\ namespace \in Homes
        /\ closure \in [names : SUBSET Names, own : SUBSET Names, home : Homes]
        /\ result \in {"none", "running", "ok", "error"}
        /\ asserted \in BOOLEAN

LEMMA TypeOKIsRest ==
  TypeOK <=> /\ scopes \in Seq(SUBSET Names) /\ scopes # <<>>
             /\ frames \in Seq(FrameType)
             /\ Rest
BY DEF TypeOK, Rest

LEMMA StateFacts ==
  ASSUME IInv
  PROVE  /\ Rest
         /\ scopes \in Seq(SUBSET Names)
         /\ Len(scopes) \in Nat \ {0}
         /\ Stack(frames, Len(scopes))
<1> QED BY TypeOKIsRest, EmptySeq DEF IInv

LEMMA TopFacts ==
  ASSUME IInv, frames # <<>>
  PROVE  /\ Top \in FrameType
         /\ Top.at \in 2 .. Len(scopes)
         /\ Stack(Below, Len(scopes)) /\ Stack(Below, Len(scopes) - 1)
         /\ Below = <<>> <=> Len(frames) = 1
         /\ PoppedScopes \in Seq(SUBSET Names)
         /\ Len(PoppedScopes) = Len(scopes) - 1
         /\ Len(scopes) - 1 \in Nat \ {0}
<1> DEFINE n == Len(scopes) - 1
<1>1. /\ Top \in FrameType
      /\ Top.at \in 2 .. Len(scopes)
      /\ Stack(Below, Len(scopes)) /\ Stack(Below, n)
      /\ Below = <<>> <=> Len(frames) = 1
      /\ n \in Nat \ {0}
  BY StateFacts, StackPop DEF Top, Below
<1>2. scopes \in Seq(SUBSET Names)
  BY StateFacts
<1>3. \A i \in 1 .. n : scopes[i] \in SUBSET Names
  <2>1. \A i \in 1 .. Len(scopes) : scopes[i] \in SUBSET Names
    BY <1>2, ElementOfSeq
  <2> QED BY <1>1, <2>1, StateFacts
<1>4. PoppedScopes = SubSeq(scopes, 1, n)
  BY DEF PoppedScopes
<1> HIDE DEF n
<1>5. PoppedScopes \in Seq(SUBSET Names)
      /\ Len(PoppedScopes) = IF 1 <= n THEN n - 1 + 1 ELSE 0
  BY <1>1, <1>3, <1>4, SubSeqProperties
<1>6. Len(PoppedScopes) = n
  BY <1>1, <1>5
<1> QED BY <1>1, <1>5, <1>6 DEF n

LEMMA StepTo ==
  ASSUME scopes' \in Seq(SUBSET Names), Len(scopes') \in Nat \ {0},
         Stack(frames', Len(scopes')), Rest',
         flow' # "run" => frames' # <<>>, result' = "running" => frames' # <<>>
  PROVE  IInv'
<1>1. scopes' # <<>> /\ frames' \in Seq(FrameType)
  BY Len(<<>>) = 0 DEF Stack
<1>2. TypeOK'
  BY <1>1 DEF TypeOK, Rest
<1>3. VerdictAtRest'
  BY DEF VerdictAtRest, Idle
<1> QED BY <1>2, <1>3 DEF IInv

LEMMA PushIInv ==
  ASSUME IInv, Rest',
         NEW kind \in Kinds, NEW own \in SUBSET Names, NEW swallow \in BOOLEAN,
         NEW home \in Homes, frames = <<>> => kind \in Roots,
         Push(Frame(kind, own, swallow, home))
  PROVE  IInv'
<1> DEFINE f == Frame(kind, own, swallow, home)
<1>1. /\ Rest /\ scopes \in Seq(SUBSET Names) /\ Len(scopes) \in Nat \ {0}
      /\ Stack(frames, Len(scopes))
  BY StateFacts
<1>2. f \in FrameType /\ f.at = Len(scopes) + 1 /\ f.own = own /\ f.kind = kind
  BY <1>1 DEF Frame, FrameType, Rest
<1>3. scopes' = Append(scopes, f.own) /\ frames' = Append(frames, f)
  BY DEF Push
<1> HIDE DEF f
<1>4. Stack(frames', Len(scopes) + 1)
  BY <1>1, <1>2, <1>3, StackPush
<1>5. scopes' \in Seq(SUBSET Names) /\ Len(scopes') = Len(scopes) + 1
  BY <1>1, <1>2, <1>3, AppendProperties
<1>6. frames' # <<>>
  <2>1. frames \in Seq(FrameType)
    BY <1>1 DEF Stack
  <2>2. Len(frames') = Len(frames) + 1 /\ Len(frames) \in Nat
    BY <1>2, <1>3, <2>1, AppendProperties, LenProperties
  <2> QED BY <2>2, Len(<<>>) = 0
<1>7. Len(scopes') \in Nat \ {0}
  BY <1>1, <1>5
<1> QED BY <1>4, <1>5, <1>6, <1>7, StepTo

LEMMA PopIInv ==
  ASSUME IInv, Rest', frames # <<>>, frames' = Below,
         scopes' = PoppedScopes \/ scopes' = scopes,
         Len(frames) = 1 => flow' = "run" /\ result' # "running"
  PROVE  IInv'
<1>1. /\ Stack(Below, Len(scopes)) /\ Stack(Below, Len(scopes) - 1)
      /\ Below = <<>> <=> Len(frames) = 1
      /\ PoppedScopes \in Seq(SUBSET Names)
      /\ Len(PoppedScopes) = Len(scopes) - 1
      /\ Len(scopes) - 1 \in Nat \ {0}
      /\ scopes \in Seq(SUBSET Names)
      /\ Len(scopes) \in Nat \ {0}
  BY TopFacts, StateFacts
<1>2. /\ scopes' \in Seq(SUBSET Names)
      /\ Len(scopes') \in Nat \ {0}
      /\ Stack(frames', Len(scopes'))
  BY <1>1
<1>3. /\ flow' # "run" => frames' # <<>>
      /\ result' = "running" => frames' # <<>>
  BY <1>1
<1> QED BY <1>2, <1>3, StepTo

-----------------------------------------------------------------------------
(* The actions                                                             *)

LEMMA KindFacts ==
  /\ Code \subseteq Kinds /\ Declared \subseteq Kinds /\ Around \subseteq Kinds
  /\ Roots \subseteq Kinds
BY DEF Roots, Kinds, Code, Declared, Around

LEMMA HomeFacts ==
  ASSUME IInv
  PROVE  /\ Namespaces \union {Global} = Homes
         /\ namespace \in Homes
         /\ frames # <<>> => Home \in Homes /\ Top.saved \in Homes
         /\ closure.home \in Homes /\ closure.own \in SUBSET Names
         /\ closure.names \in SUBSET Names
BY StateFacts, TopFacts DEF Homes, Rest, Home, FrameType

\* The frame on top is the runner's own only if it may be started by it.
LEMMA RootKind == ASSUME IInv, frames # <<>>, Len(frames) = 1 PROVE Top.kind \in Roots
BY StateFacts DEF Stack, Top

LEMMA FrameFacts ==
  ASSUME IInv, NEW kind \in Kinds, NEW own \in SUBSET Names, NEW swallow \in BOOLEAN,
         NEW home \in Homes
  PROVE  LET f == Frame(kind, own, swallow, home)
         IN  f \in FrameType /\ f.at = Len(scopes) + 1
BY StateFacts DEF Frame, FrameType, Rest

LEMMA FrameUpdate ==
  ASSUME NEW f \in FrameType, NEW n \in Nat, NEW e \in BOOLEAN
  PROVE  /\ [f EXCEPT !.at = n] \in FrameType
         /\ [f EXCEPT !.entered = e] \in FrameType
         /\ [f EXCEPT !.at = n].at = n
         /\ [f EXCEPT !.entered = e].at = f.at
BY DEF FrameType

\* A body entered: the frame around it is marked, and its block pushed.
LEMMA BodyIInv ==
  ASSUME IInv, Rest', frames # <<>>, NEW kind \in Kinds,
         scopes' = Append(scopes, {}),
         frames' = Append([frames EXCEPT ![Len(frames)].entered = TRUE],
                          Frame(kind, {}, FALSE, Home))
  PROVE  IInv'
<1> DEFINE marked == [Top EXCEPT !.entered = TRUE]
           fs == [frames EXCEPT ![Len(frames)] = marked]
           f == Frame(kind, {}, FALSE, Home)
<1>1. /\ Rest /\ scopes \in Seq(SUBSET Names) /\ Len(scopes) \in Nat \ {0}
      /\ Stack(frames, Len(scopes))
  BY StateFacts
<1>2. marked \in FrameType /\ marked.at = Top.at /\ marked.kind = Top.kind
  BY TopFacts DEF FrameType
<1>3. f \in FrameType /\ f.at = Len(scopes) + 1
  BY <1>1, HomeFacts DEF Frame, FrameType
<1>4. frames' = Append(fs, f)
  BY DEF Top
<1> HIDE DEF marked, f
<1>5. Stack(fs, Len(scopes)) /\ fs # <<>>
  BY <1>1, <1>2, StackUpdate DEF Top
<1> HIDE DEF fs
<1>6. Stack(frames', Len(scopes) + 1)
  BY <1>1, <1>3, <1>4, <1>5, StackPush
<1>7. scopes' \in Seq(SUBSET Names) /\ Len(scopes') = Len(scopes) + 1
  BY <1>1, AppendProperties
<1>8. frames' # <<>>
  <2>1. fs \in Seq(FrameType)
    BY <1>5 DEF Stack
  <2>2. Len(frames') = Len(fs) + 1 /\ Len(fs) \in Nat
    BY <1>3, <1>4, <2>1, AppendProperties, LenProperties
  <2>3. Len(frames') # 0
    BY <2>2
  <2> QED BY <2>3, Len(<<>>) = 0
<1>9. Len(scopes') \in Nat \ {0}
  BY <1>1, <1>7
<1> QED BY <1>6, <1>7, <1>8, <1>9, StepTo

\* An inline function pushes two frames.
LEMMA ClosureIInv == ASSUME IInv, EnterClosure PROVE IInv'
<1>1. /\ Rest /\ scopes \in Seq(SUBSET Names) /\ Len(scopes) \in Nat \ {0}
      /\ Stack(frames, Len(scopes)) /\ frames # <<>>
  BY StateFacts DEF EnterClosure, InExpression, Idle
<1>2. PICK own \in SUBSET Names, swallow \in BOOLEAN :
        /\ scopes' = scopes \o <<closure.names, own>>
        /\ frames' = frames \o
             <<[Frame("captures", closure.own, swallow, closure.home)
                  EXCEPT !.entered = TRUE],
               [Frame("params", own, FALSE, closure.home)
                  EXCEPT !.at = Len(scopes) + 2]>>
  BY DEF EnterClosure
<1> DEFINE outer == [Frame("captures", closure.own, swallow, closure.home)
                       EXCEPT !.entered = TRUE]
           inner == [Frame("params", own, FALSE, closure.home)
                       EXCEPT !.at = Len(scopes) + 2]
           names == closure.names
<1>3. outer \in FrameType /\ outer.at = Len(scopes) + 1
  <2>1. "captures" \in Kinds
    BY DEF Kinds, Around
  <2>2. closure.own \in SUBSET Names /\ closure.home \in Homes
    BY HomeFacts
  <2> DEFINE f == Frame("captures", closure.own, swallow, closure.home)
  <2>3. f \in FrameType /\ f.at = Len(scopes) + 1
    BY <2>1, <2>2, FrameFacts
  <2> HIDE DEF f
  <2>4. [f EXCEPT !.entered = TRUE] \in FrameType
        /\ [f EXCEPT !.entered = TRUE].at = f.at
    BY <2>3, FrameUpdate
  <2> QED BY <2>3, <2>4 DEF f
<1>4. inner \in FrameType /\ inner.at = Len(scopes) + 2
  <2>1. "params" \in Kinds
    BY DEF Kinds, Around
  <2>2. closure.home \in Homes /\ Len(scopes) + 2 \in Nat
    BY <1>1, HomeFacts
  <2> DEFINE f == Frame("params", own, FALSE, closure.home)
  <2>3. f \in FrameType
    BY <2>1, <2>2, FrameFacts
  <2> HIDE DEF f
  <2> QED BY <2>2, <2>3, FrameUpdate DEF f
<1>5. names \in SUBSET Names
  BY HomeFacts
<1>6. frames' = frames \o <<outer, inner>> /\ scopes' = scopes \o <<names, own>>
  BY <1>2
<1> HIDE DEF outer, inner, names
<1> DEFINE fs == Append(frames, outer)
           ss == Append(scopes, names)
<1>7. frames' = Append(fs, inner)
  <2>1. frames \in Seq(FrameType)
    BY <1>1 DEF Stack
  <2> QED BY <1>3, <1>4, <1>6, <2>1, AppendTwice
<1>8. scopes' = Append(ss, own)
  BY <1>1, <1>5, <1>6, AppendTwice
<1>9. Stack(fs, Len(scopes) + 1) /\ fs # <<>>
  <2>1. Stack(fs, Len(scopes) + 1)
    BY <1>1, <1>3, StackPush
  <2>2. frames \in Seq(FrameType)
    BY <1>1 DEF Stack
  <2>3. Len(fs) = Len(frames) + 1 /\ Len(frames) \in Nat
    BY <1>3, <2>2, AppendProperties, LenProperties
  <2> HIDE DEF fs
  <2> QED BY <2>1, <2>3, Len(<<>>) = 0
<1>10. ss \in Seq(SUBSET Names) /\ Len(ss) = Len(scopes) + 1
  BY <1>1, <1>5, AppendProperties
<1> HIDE DEF fs, ss
<1>11. scopes' \in Seq(SUBSET Names) /\ Len(scopes') = Len(scopes) + 2
  <2>1. scopes' \in Seq(SUBSET Names) /\ Len(scopes') = Len(ss) + 1
    BY <1>8, <1>10, AppendProperties
  <2> QED BY <1>1, <1>10, <2>1
<1>12. Stack(frames', Len(scopes) + 1 + 1)
  <2>1. Len(scopes) + 1 \in Nat \ {0} /\ inner.at = Len(scopes) + 1 + 1
    BY <1>1, <1>4
  <2> QED BY <1>4, <1>7, <1>9, <2>1, StackPush
<1>13. Stack(frames', Len(scopes')) /\ Len(scopes') \in Nat \ {0}
  <2>1. Len(scopes') = Len(scopes) + 1 + 1
    BY <1>1, <1>11
  <2> QED BY <1>1, <1>12, <2>1
<1>14. frames' # <<>>
  <2>1. fs \in Seq(FrameType)
    BY <1>9 DEF Stack
  <2>2. Len(frames') = Len(fs) + 1 /\ Len(fs) \in Nat
    BY <1>4, <1>7, <2>1, AppendProperties, LenProperties
  <2> QED BY <2>2, Len(<<>>) = 0
<1>15. Rest'
  BY <1>1 DEF EnterClosure, Rest
<1> QED BY <1>11, <1>13, <1>14, <1>15, StepTo

\* A failed refinement's frame is replaced by that of its handle block.
LEMMA HandledIInv == ASSUME IInv, RefinementHandled PROVE IInv'
<1>1. /\ Rest /\ Stack(frames, Len(scopes)) /\ Len(scopes) \in Nat \ {0}
      /\ frames # <<>> /\ Top.kind = "refinement"
  BY StateFacts DEF IInv, RefinementHandled, Signals
<1>2. Len(frames) # 1
  BY <1>1, RootKind DEF Roots
<1>3. /\ Top \in FrameType /\ Stack(Below, Len(scopes) - 1) /\ Below # <<>>
      /\ PoppedScopes \in Seq(SUBSET Names)
      /\ Len(PoppedScopes) = Len(scopes) - 1
      /\ Len(scopes) - 1 \in Nat \ {0}
  BY <1>1, <1>2, TopFacts
<1>4. Below[Len(Below)] \in FrameType
  <2>1. Below \in Seq(FrameType) /\ Len(Below) \in Nat \ {0}
    BY <1>3, EmptySeq DEF Stack
  <2> QED BY <2>1, ElementOfSeq
<1>5. PICK own \in SUBSET Names :
        /\ scopes' = Append(PoppedScopes, own)
        /\ frames' = Append(Below, [Top EXCEPT !.kind = "handle", !.own = own,
                                               !.swallow = FALSE,
                                               !.at = Len(scopes),
                                               !.home = Below[Len(Below)].home])
  BY DEF RefinementHandled
<1> DEFINE f == [Top EXCEPT !.kind = "handle", !.own = own, !.swallow = FALSE,
                            !.at = Len(scopes), !.home = Below[Len(Below)].home]
<1>6. f \in FrameType /\ f.at = Len(scopes) - 1 + 1
  <2>1. "handle" \in Kinds
    BY DEF Kinds, Code
  <2> DEFINE b == Below[Len(Below)]
             n == Len(scopes)
  <2>2. b.home \in Homes /\ n \in Nat
    BY <1>1, <1>4 DEF FrameType
  <2>3. n = n - 1 + 1
    BY <2>2
  <2> HIDE DEF b, n
  <2>4. /\ [Top EXCEPT !.kind = "handle", !.own = own, !.swallow = FALSE,
                       !.at = n, !.home = b.home] \in FrameType
        /\ [Top EXCEPT !.kind = "handle", !.own = own, !.swallow = FALSE,
                       !.at = n, !.home = b.home].at = n
    BY <1>3, <2>1, <2>2 DEF FrameType
  <2> QED BY <2>3, <2>4 DEF b, n
<1>7. frames' = Append(Below, f)
  BY <1>5
<1> HIDE DEF f
<1>8. Stack(frames', Len(scopes) - 1 + 1)
  BY <1>3, <1>6, <1>7, StackPush
<1>9. scopes' \in Seq(SUBSET Names) /\ Len(scopes') = Len(scopes) - 1 + 1
  BY <1>3, <1>5, AppendProperties
<1>10. Len(scopes') \in Nat \ {0} /\ Stack(frames', Len(scopes'))
  BY <1>3, <1>8, <1>9
<1>11. frames' # <<>>
  <2>1. Below \in Seq(FrameType)
    BY <1>3 DEF Stack
  <2>2. Len(frames') = Len(Below) + 1 /\ Len(Below) \in Nat
    BY <1>6, <1>7, <2>1, AppendProperties, LenProperties
  <2> QED BY <2>2, Len(<<>>) = 0
<1>12. Rest'
  BY <1>1 DEF RefinementHandled, Rest
<1> QED BY <1>9, <1>10, <1>11, <1>12, StepTo

LEMMA StartingIInv == ASSUME IInv, Starting PROVE IInv'
<1>1. Rest /\ Namespaces \union {Global} = Homes
  BY StateFacts, HomeFacts
<1>2. CASE StartVerify
  <2>1. PICK home \in Homes : Push(Frame("verify", {}, FALSE, home)) /\ namespace' = home
    BY <1>1, <1>2 DEF StartVerify
  <2>2. Rest'
    BY <1>1, <1>2, <2>1 DEF StartVerify, Rest
  <2>3. "verify" \in Kinds /\ "verify" \in Roots /\ {} \in SUBSET Names
    BY DEF Roots, Kinds, Code
  <2> QED BY <2>1, <2>2, <2>3, PushIInv
<1>3. CASE StartProperty
  <2>1. PICK own \in SUBSET Names, home \in Homes : Push(Frame("given", own, FALSE, home))
    BY <1>1, <1>3 DEF StartProperty
  <2>2. Rest'
    BY <1>1, <1>3 DEF StartProperty, Rest
  <2>3. "given" \in Kinds /\ "given" \in Roots
    BY DEF Roots, Kinds, Around
  <2> QED BY <2>1, <2>2, <2>3, PushIInv
<1>4. CASE StartFunction
  <2>1. PICK own \in SUBSET Names, home \in Homes :
          Push(Frame("function", own, FALSE, home)) /\ namespace' = home
    BY <1>1, <1>4 DEF StartFunction
  <2>2. Rest'
    BY <1>1, <1>4, <2>1 DEF StartFunction, Rest
  <2>3. "function" \in Kinds /\ "function" \in Roots
    BY DEF Roots, Kinds, Around
  <2> QED BY <2>1, <2>2, <2>3, PushIInv
<1>5. CASE RunProperty
  <2>1. frames # <<>>
    BY <1>5 DEF RunProperty, Idle
  <2>2. Rest'
    BY <1>1, <1>5, <2>1, HomeFacts DEF RunProperty, Rest
  <2>3. "verify" \in Kinds
    BY DEF Kinds, Code
  <2> QED BY <1>5, <2>1, <2>2, <2>3, BodyIInv DEF RunProperty
<1> QED BY <1>2, <1>3, <1>4, <1>5 DEF Starting

LEMMA EnteringIInv == ASSUME IInv, Entering PROVE IInv'
<1>1. Rest /\ Namespaces \union {Global} = Homes
  BY StateFacts, HomeFacts
<1>2. Code \subseteq Kinds /\ Declared \subseteq Kinds /\ Around \subseteq Kinds
  BY KindFacts
<1>3. CASE EnterBody
  <2>1. frames # <<>> /\ Rest'
    BY <1>1, <1>3 DEF EnterBody, Idle, Rest
  <2>2. "block" \in Kinds
    BY DEF Kinds, Code
  <2> QED BY <1>3, <2>1, <2>2, BodyIInv DEF EnterBody
<1>4. CASE EnterBlock
  <2>1. frames # <<>> /\ Rest'
    BY <1>1, <1>4 DEF EnterBlock, InCode, Idle, Rest
  <2>2. "block" \in Kinds /\ {} \in SUBSET Names
    BY DEF Kinds, Code
  <2> QED BY <1>4, <2>1, <2>2, HomeFacts, PushIInv DEF EnterBlock
<1>5. CASE EnterTurn
  <2>1. frames # <<>> /\ Rest'
    BY <1>1, <1>5 DEF EnterTurn, InCode, Idle, Rest
  <2>2. PICK kind \in {"turn", "list turn", "arm"}, own \in SUBSET Names :
          Push(Frame(kind, own, FALSE, Home))
    BY <1>5 DEF EnterTurn
  <2>3. kind \in Kinds
    BY DEF Kinds, Around
  <2> QED BY <2>1, <2>2, <2>3, HomeFacts, PushIInv
<1>6. CASE EnterHandle
  <2>1. frames # <<>> /\ Rest'
    BY <1>1, <1>6 DEF EnterHandle, InExpression, Idle, Rest
  <2>2. PICK own \in SUBSET Names, swallow \in BOOLEAN :
          Push(Frame("handle", own, swallow, Home))
    BY <1>6 DEF EnterHandle
  <2>3. "handle" \in Kinds
    BY DEF Kinds, Code
  <2> QED BY <2>1, <2>2, <2>3, HomeFacts, PushIInv
<1>7. CASE EnterFunction
  <2>1. PICK own \in SUBSET Names, swallow \in BOOLEAN, home \in Homes :
          Push(Frame("function", own, swallow, home)) /\ namespace' = home
    BY <1>1, <1>7 DEF EnterFunction
  <2>2. frames # <<>> /\ Rest'
    BY <1>1, <1>7, <2>1 DEF EnterFunction, InExpression, Idle, Rest
  <2>3. "function" \in Kinds
    BY DEF Kinds, Around
  <2> QED BY <2>1, <2>2, <2>3, PushIInv
<1>8. CASE EnterRefinement
  <2>1. PICK own \in SUBSET Names, swallow \in BOOLEAN, home \in Homes :
          Push(Frame("refinement", own, swallow, home))
    BY <1>1, <1>8 DEF EnterRefinement
  <2>2. frames # <<>> /\ Rest'
    BY <1>1, <1>8 DEF EnterRefinement, Idle, Rest
  <2>3. "refinement" \in Kinds
    BY DEF Kinds, Declared
  <2> QED BY <2>1, <2>2, <2>3, PushIInv
<1>9. CASE EnterActor
  <2>1. PICK kind \in {"spawn", "handler"}, own \in SUBSET Names,
             swallow \in BOOLEAN, home \in Homes :
          Push(Frame(kind, own, swallow, home))
    BY <1>1, <1>9 DEF EnterActor
  <2>2. frames # <<>> /\ Rest'
    BY <1>1, <1>9 DEF EnterActor, InExpression, Idle, Rest
  <2>3. kind \in Kinds
    BY DEF Kinds, Declared, Code
  <2> QED BY <2>1, <2>2, <2>3, PushIInv
<1>10. CASE EnterClosure
  BY <1>10, ClosureIInv
<1> QED BY <1>3, <1>4, <1>5, <1>6, <1>7, <1>8, <1>9, <1>10 DEF Entering

LEMMA ExecutingIInv == ASSUME IInv, Executing PROVE IInv'
<1>1. /\ Rest /\ scopes \in Seq(SUBSET Names) /\ Len(scopes) \in Nat \ {0}
      /\ Stack(frames, Len(scopes))
      /\ flow # "run" => frames # <<>>
      /\ result = "running" => frames # <<>>
  BY StateFacts DEF IInv, VerdictAtRest, Idle
<1>2. CASE MakeClosure
  <2>1. frames # <<>>
    BY <1>2 DEF MakeClosure, InExpression, Idle
  <2>2. Visible \in SUBSET Names
    <3>1. \A i \in 1 .. Len(frames) : frames[i] \in FrameType
      BY <1>1, ElementOfSeq DEF Stack
    <3>2. \A i \in Body(frames) : frames[i].own \in SUBSET Names
      BY <3>1 DEF Body, FrameType
    <3> QED BY <3>2 DEF Visible, VisibleIn
  <2>3. UNION {scopes[i] : i \in 1 .. Len(scopes)} \in SUBSET Names
    BY <1>1
  <2>4. closure' \in [names : SUBSET Names, own : SUBSET Names, home : Homes]
    BY <1>2, <2>1, <2>2, <2>3, HomeFacts DEF MakeClosure
  <2>5. Rest'
    BY <1>1, <1>2, <2>4 DEF MakeClosure, Rest
  <2> QED BY <1>1, <1>2, <2>5, StepTo DEF MakeClosure
<1>3. CASE Declare
  <2>1. frames # <<>>
    BY <1>3 DEF Declare, InCode, Idle
  <2>2. PICK x \in Names :
          /\ frames' = [frames EXCEPT ![Len(frames)].own = @ \union {x}]
          /\ scopes' = [scopes EXCEPT ![Len(scopes)] = @ \union {x}]
    BY <1>3 DEF Declare
  <2> DEFINE f == [Top EXCEPT !.own = Top.own \union {x}]
             last == scopes[Len(scopes)] \union {x}
  <2>3. f \in FrameType /\ f.at = Top.at /\ f.kind = Top.kind
    BY <2>1, TopFacts DEF FrameType
  <2>4. frames' = [frames EXCEPT ![Len(frames)] = f]
    BY <2>2 DEF Top
  <2>5. last \in SUBSET Names
    BY <1>1, ElementOfSeq
  <2>6. scopes' = [scopes EXCEPT ![Len(scopes)] = last]
    BY <2>2
  <2> HIDE DEF f, last
  <2>7. Stack(frames', Len(scopes)) /\ frames' # <<>>
    BY <1>1, <2>1, <2>3, <2>4, StackUpdate DEF Top
  <2>8. scopes' \in Seq(SUBSET Names) /\ Len(scopes') = Len(scopes)
    <3>1. Len(scopes) \in 1 .. Len(scopes)
      BY <1>1
    <3> QED BY <1>1, <2>5, <2>6, <3>1, ExceptSeq
  <2>9. Rest'
    BY <1>1, <1>3 DEF Declare, Rest
  <2> QED BY <1>1, <2>7, <2>8, <2>9, StepTo
<1>4. CASE Fail
  BY <1>1, <1>4, StepTo DEF Fail, Rest, Idle
<1>5. CASE FailedAssert
  BY <1>1, <1>5, StepTo DEF FailedAssert, InCode, Rest, Idle
<1>6. CASE Signal
  BY <1>1, <1>6, StepTo DEF Signal, InCode, Rest, Idle
<1> QED BY <1>2, <1>3, <1>4, <1>5, <1>6 DEF Executing

LEMMA LeavingIInv == ASSUME IInv, Leaving PROVE IInv'
<1>1. Rest /\ (flow # "run" => frames # <<>>)
  BY StateFacts DEF IInv
<1>2. CASE Leave
  <2>1. frames # <<>> /\ frames' = Below /\ scopes' = PoppedScopes
    BY <1>2 DEF Leave, Pop, Idle
  <2>2. namespace' \in Homes
    BY <1>2, <2>1, HomeFacts DEF Leave, Pop, RestoredNamespace
  <2>3. Rest'
    BY <1>1, <1>2, <2>2 DEF Leave, Pop, Completed, Rest
  <2>4. Len(frames) = 1 => flow' = "run" /\ result' # "running"
    BY <1>2 DEF Leave, Completed
  <2> QED BY <2>1, <2>3, <2>4, PopIInv
<1>3. CASE LeaveGiven
  <2>1. frames # <<>> /\ frames' = Below /\ scopes' = PoppedScopes
    BY <1>3 DEF LeaveGiven, Pop, Idle
  <2>2. namespace' \in Homes
    BY <1>3, <2>1, HomeFacts DEF LeaveGiven, Pop, RestoredNamespace
  <2>3. Rest' /\ flow' = "run" /\ result' # "running"
    BY <1>1, <1>3, <2>2 DEF LeaveGiven, Pop, Rest
  <2> QED BY <2>1, <2>3, PopIInv
<1>4. CASE HandleFallsThrough
  <2>1. frames # <<>> /\ frames' = Below /\ scopes' = PoppedScopes
    BY <1>4 DEF HandleFallsThrough, Pop, Idle
  <2>2. namespace' \in Homes
    BY <1>4, <2>1, HomeFacts DEF HandleFallsThrough, Pop, RestoredNamespace
  <2>3. Rest'
    BY <1>1, <1>4, <2>2 DEF HandleFallsThrough, Pop, Emerge, Rest
  <2>4. Len(frames) = 1 => flow' = "run" /\ result' # "running"
    BY <1>4 DEF HandleFallsThrough, Emerge
  <2> QED BY <2>1, <2>3, <2>4, PopIInv
<1>5. CASE Unwind
  <2>1. frames # <<>> /\ frames' = Below /\ (scopes' = PoppedScopes \/ scopes' = scopes)
    BY <1>1, <1>5 DEF Unwind, LeakedScopes
  <2>2. namespace' \in Homes
    BY <1>5, <2>1, HomeFacts DEF Unwind, RestoredNamespace
  <2>3. Rest'
    BY <1>1, <1>5, <2>2 DEF Unwind, Emerge, Rest
  <2>4. Len(frames) = 1 => flow' = "run" /\ result' # "running"
    BY <1>5 DEF Unwind, Emerge
  <2> QED BY <2>1, <2>3, <2>4, PopIInv
<1>6. CASE RefinementHandled
  BY <1>6, HandledIInv
<1>7. CASE PassSignal
  <2>1. frames # <<>> /\ frames' = Below /\ scopes' = PoppedScopes
    BY <1>1, <1>7 DEF PassSignal, Pop, Signals
  <2>2. namespace' \in Homes
    BY <1>7, <2>1, HomeFacts DEF PassSignal, Pop, RestoredNamespace
  <2>3. Rest'
    BY <1>1, <1>7, <2>2 DEF PassSignal, Pop, Rest
  <2>4. Len(frames) # 1
    BY <1>7, <2>1, RootKind DEF PassSignal, Roots
  <2> QED BY <2>1, <2>3, <2>4, PopIInv
<1>8. CASE TakeSignal
  <2>1. frames # <<>> /\ frames' = Below /\ scopes' = PoppedScopes
    BY <1>1, <1>8 DEF TakeSignal, Pop, Signals
  <2>2. namespace' \in Homes
    BY <1>8, <2>1, HomeFacts DEF TakeSignal, Pop, RestoredNamespace
  <2>3. Rest'
    BY <1>1, <1>8, <2>2 DEF TakeSignal, Pop, Completed, Rest
  <2>4. Len(frames) = 1 => flow' = "run" /\ result' # "running"
    BY <1>8 DEF TakeSignal, Completed
  <2> QED BY <2>1, <2>3, <2>4, PopIInv
<1>9. CASE RefuseSignal
  <2>1. frames # <<>> /\ frames' = Below /\ scopes' = PoppedScopes
    BY <1>1, <1>9 DEF RefuseSignal, Pop, Signals
  <2>2. namespace' \in Homes
    BY <1>9, <2>1, HomeFacts DEF RefuseSignal, Pop, RestoredNamespace
  <2>3. Rest'
    BY <1>1, <1>9, <2>2 DEF RefuseSignal, Pop, Emerge, Rest
  <2>4. Len(frames) = 1 => flow' = "run" /\ result' # "running"
    BY <1>9 DEF RefuseSignal, Emerge
  <2> QED BY <2>1, <2>3, <2>4, PopIInv
<1>10. CASE SpawnSignal
  <2>1. frames # <<>> /\ frames' = Below /\ scopes' = scopes
    BY <1>1, <1>10 DEF SpawnSignal, Signals
  <2>2. Rest'
    BY <1>1, <1>10 DEF SpawnSignal, Rest
  <2>3. Len(frames) # 1
    BY <1>10, <2>1, RootKind DEF SpawnSignal, Roots
  <2> QED BY <2>1, <2>2, <2>3, PopIInv
<1> QED BY <1>2, <1>3, <1>4, <1>5, <1>6, <1>7, <1>8, <1>9, <1>10 DEF Leaving

-----------------------------------------------------------------------------
LEMMA InitIInv == Init => IInv
<1> SUFFICES ASSUME Init PROVE IInv
  OBVIOUS
<1>1. scopes = <<{}>> /\ frames = <<>> /\ flow = "run" /\ result = "none"
  BY DEF Init
<1>2. scopes \in Seq(SUBSET Names) /\ scopes # <<>> /\ Len(scopes) = 1
  BY <1>1
<1>3. frames \in Seq(FrameType) /\ Len(frames) = 0
  BY <1>1, EmptySeq
<1>4. Rest
  BY DEF Init, Rest, Homes
<1>5. Stack(frames, Len(scopes))
  BY <1>1, <1>3 DEF Stack, Live
<1>6. TypeOK /\ VerdictAtRest
  BY <1>1, <1>2, <1>3, <1>4, TypeOKIsRest DEF VerdictAtRest
<1> QED BY <1>1, <1>5, <1>6 DEF IInv

LEMMA StepIInv == IInv /\ [Next]_vars => IInv'
<1> SUFFICES ASSUME IInv, [Next]_vars PROVE IInv'
  OBVIOUS
<1>1. CASE Starting
  BY <1>1, StartingIInv
<1>2. CASE Entering
  BY <1>2, EnteringIInv
<1>3. CASE Executing
  BY <1>3, ExecutingIInv
<1>4. CASE Leaving
  BY <1>4, LeavingIInv
<1>5. CASE UNCHANGED vars
  BY <1>5 DEF vars, IInv, TypeOK, VerdictAtRest, Idle
<1> QED BY <1>1, <1>2, <1>3, <1>4, <1>5 DEF Next

-----------------------------------------------------------------------------
(* What a name means.  The frames and the scopes have the shape that makes *)
(* the search of the whole stack find what the program text says.          *)

IsCall(f) == f.kind \in {"function", "verify"}

\* ns is the namespace of the innermost call among the first n frames.
NamespaceAt(fs, n, ns) ==
  \/ ns = Global /\ \A i \in 1 .. n : ~IsCall(fs[i])
  \/ \E i \in 1 .. n : /\ IsCall(fs[i]) /\ ns = fs[i].home
                       /\ \A j \in (i + 1) .. n : ~IsCall(fs[j])

\* What a call saved is the namespace that was current below it.
SavedRight(fs) ==
  \A i \in 1 .. Len(fs) : IsCall(fs[i]) => NamespaceAt(fs, i - 1, fs[i].saved)

NamesCall(fs, ns) == NamespaceAt(fs, Len(fs), ns) /\ SavedRight(fs)

\* No frame starts a new body among those numbered from i to j.
OneBody(fs, i, j) == \A k \in i .. j : fs[k].kind \notin Boundary

\* What two frames of one body declare is disjoint.
NoShadow(fs) ==
  \A i, j \in 1 .. Len(fs) :
    i < j /\ OneBody(fs, i + 1, j) => fs[i].own \intersect fs[j].own = {}

\* Without a leak, each scope is that of one frame, and holds what the frame
\* declares; only the scope of an inline function's captures holds more.
Mirrors(fs, ss) ==
  Len(ss) = Len(fs) + 1 =>
    /\ ss[1] = {}
    /\ \A i \in 1 .. Len(fs) :
         /\ fs[i].at = i + 1
         /\ fs[i].own \subseteq ss[i + 1]
         /\ fs[i].kind # "captures" => ss[i + 1] = fs[i].own

Shape(fs, ss) ==
  /\ fs \in Seq(FrameType) /\ ss \in Seq(SUBSET Names)
  /\ NoShadow(fs)
  /\ Len(ss) >= Len(fs) + 1
  /\ Mirrors(fs, ss)

\* An inline function was made over the scopes that its code can name.
LexInv == /\ NamesCall(frames, namespace)
          /\ Shape(frames, scopes)
          /\ Leaked = 0 => closure.own \subseteq closure.names

LEMMA CallPush ==
  ASSUME NEW fs \in Seq(FrameType), NEW f \in FrameType, NEW ns, NamesCall(fs, ns)
  PROVE  /\ ~IsCall(f) => NamesCall(Append(fs, f), ns)
         /\ IsCall(f) /\ f.saved = ns => NamesCall(Append(fs, f), f.home)
<1> DEFINE gs == Append(fs, f)
           n == Len(fs)
<1>1. /\ n \in Nat /\ Len(gs) = n + 1
      /\ \A i \in 1 .. n : gs[i] = fs[i]
      /\ gs[n + 1] = f
  BY WithLast
<1> HIDE DEF gs
<1>2. ASSUME NEW m \in 0 .. n, NEW x PROVE NamespaceAt(gs, m, x) <=> NamespaceAt(fs, m, x)
  <2>1. \A i \in 1 .. m : gs[i] = fs[i]
    BY <1>1
  <2> QED BY <1>1, <2>1, SMTT(30) DEF NamespaceAt
<1>3. NamespaceAt(gs, n, ns)
  BY <1>1, <1>2 DEF NamesCall
<1>4. ~IsCall(f) => NamespaceAt(gs, n + 1, ns)
  BY <1>1, <1>3 DEF NamespaceAt
<1>5. IsCall(f) => NamespaceAt(gs, n + 1, f.home)
  BY <1>1 DEF NamespaceAt
<1>6. ~IsCall(f) \/ f.saved = ns => SavedRight(gs)
  <2> SUFFICES ASSUME ~IsCall(f) \/ f.saved = ns, NEW i \in 1 .. (n + 1), IsCall(gs[i])
               PROVE  NamespaceAt(gs, i - 1, gs[i].saved)
    BY <1>1 DEF SavedRight
  <2>1. CASE i \in 1 .. n
    <3>1. NamespaceAt(fs, i - 1, fs[i].saved)
      BY <1>1, <2>1 DEF NamesCall, SavedRight
    <3> QED BY <1>1, <1>2, <2>1, <3>1
  <2>2. CASE i = n + 1
    BY <1>1, <1>3, <2>2
  <2> QED BY <1>1, <2>1, <2>2
<1> QED BY <1>1, <1>4, <1>5, <1>6 DEF NamesCall, gs

LEMMA CallPop ==
  ASSUME NEW fs \in Seq(FrameType), fs # <<>>, NEW ns, NamesCall(fs, ns)
  PROVE  LET gs == SubSeq(fs, 1, Len(fs) - 1)
             f == fs[Len(fs)]
         IN  NamesCall(gs, IF IsCall(f) THEN f.saved ELSE ns)
<1> DEFINE gs == SubSeq(fs, 1, Len(fs) - 1)
           n == Len(fs)
           f == fs[n]
           x == IF IsCall(f) THEN f.saved ELSE ns
<1>1. /\ n \in Nat \ {0} /\ Len(gs) = n - 1
      /\ \A i \in 1 .. (n - 1) : gs[i] = fs[i]
  BY WithoutLast
<1> HIDE DEF gs
<1>2. ASSUME NEW m \in 0 .. (n - 1), NEW y PROVE NamespaceAt(gs, m, y) <=> NamespaceAt(fs, m, y)
  <2>1. \A i \in 1 .. m : gs[i] = fs[i]
    BY <1>1
  <2> QED BY <1>1, <2>1 DEF NamespaceAt
<1>3. NamespaceAt(fs, n - 1, x)
  <2>1. CASE IsCall(f)
    BY <1>1, <2>1 DEF NamesCall, SavedRight
  <2>2. CASE ~IsCall(f)
    BY <1>1, <2>2 DEF NamesCall, NamespaceAt
  <2> QED BY <2>1, <2>2
<1>4. SavedRight(gs)
  BY <1>1, <1>2 DEF SavedRight, NamesCall
<1> QED BY <1>1, <1>2, <1>3, <1>4 DEF NamesCall, gs

LEMMA CallUpdate ==
  ASSUME NEW fs \in Seq(FrameType), NEW gs \in Seq(FrameType), NEW ns, NamesCall(fs, ns),
         Len(gs) = Len(fs),
         \A i \in 1 .. Len(fs) : /\ gs[i].kind = fs[i].kind /\ gs[i].home = fs[i].home
                                 /\ gs[i].saved = fs[i].saved
  PROVE  NamesCall(gs, ns)
<1>1. Len(fs) \in Nat
  BY LenProperties
<1>2. \A i \in 1 .. Len(fs) : IsCall(gs[i]) <=> IsCall(fs[i])
  BY DEF IsCall
<1>3. ASSUME NEW m \in 0 .. Len(fs), NEW y PROVE NamespaceAt(gs, m, y) <=> NamespaceAt(fs, m, y)
  <2>1. \A i \in 1 .. m : i \in 1 .. Len(fs)
    BY <1>1
  <2>2. \A i \in 1 .. m : (IsCall(gs[i]) <=> IsCall(fs[i])) /\ gs[i].home = fs[i].home
    BY <1>2, <2>1
  <2>3. \A i \in 1 .. m : \A j \in (i + 1) .. m : j \in 1 .. m
    BY <1>1
  <2>4. (\A i \in 1 .. m : ~IsCall(gs[i])) <=> (\A i \in 1 .. m : ~IsCall(fs[i]))
    BY <2>2, Zenon
  <2>5. ASSUME NEW i \in 1 .. m
        PROVE  (\A j \in (i + 1) .. m : ~IsCall(gs[j]))
                 <=> (\A j \in (i + 1) .. m : ~IsCall(fs[j]))
    BY <2>2, <2>3, Zenon
  <2>6. \A i \in 1 .. m :
          (IsCall(gs[i]) /\ y = gs[i].home /\ \A j \in (i + 1) .. m : ~IsCall(gs[j]))
            <=> (IsCall(fs[i]) /\ y = fs[i].home
                   /\ \A j \in (i + 1) .. m : ~IsCall(fs[j]))
    BY <2>2, <2>5, Zenon
  <2> QED BY <2>4, <2>6, Zenon DEF NamespaceAt
<1>4. SavedRight(gs)
  BY <1>1, <1>2, <1>3 DEF SavedRight, NamesCall
<1> QED BY <1>1, <1>3, <1>4 DEF NamesCall

\* The names of the innermost body: those of a frame that no new body follows.
LEMMA BodyVisible ==
  ASSUME NEW fs, NEW i \in 1 .. Len(fs), OneBody(fs, i + 1, Len(fs))
  PROVE  i \in Body(fs) /\ fs[i].own \subseteq VisibleIn(fs)
BY DEF Body, OneBody, VisibleIn

LEMMA ShapePush ==
  ASSUME NEW fs, NEW ss, Shape(fs, ss), NEW f \in FrameType, NEW s \in SUBSET Names,
         f.at = Len(ss) + 1,
         Len(ss) = Len(fs) + 1 => f.own \subseteq s,
         f.kind # "captures" => s = f.own,
         f.kind \notin Boundary => f.own \intersect VisibleIn(fs) = {}
  PROVE  Shape(Append(fs, f), Append(ss, s))
<1> DEFINE gs == Append(fs, f)
           ts == Append(ss, s)
           n == Len(fs)
<1>1. /\ n \in Nat /\ gs \in Seq(FrameType) /\ Len(gs) = n + 1
      /\ \A i \in 1 .. n : gs[i] = fs[i]
      /\ gs[n + 1] = f
  BY WithLast DEF Shape
<1>2. /\ Len(ss) \in Nat /\ ts \in Seq(SUBSET Names) /\ Len(ts) = Len(ss) + 1
      /\ \A i \in 1 .. Len(ss) : ts[i] = ss[i]
      /\ ts[Len(ss) + 1] = s
  BY WithLast DEF Shape
<1> HIDE DEF gs, ts
<1>3. NoShadow(gs)
  <2> SUFFICES ASSUME NEW i \in 1 .. (n + 1), NEW j \in 1 .. (n + 1), i < j,
                      OneBody(gs, i + 1, j)
               PROVE  gs[i].own \intersect gs[j].own = {}
    BY <1>1 DEF NoShadow
  <2>1. i \in 1 .. n /\ gs[i] = fs[i]
    BY <1>1
  <2>2. CASE j \in 1 .. n
    <3>1. \A k \in (i + 1) .. j : gs[k] = fs[k]
      BY <1>1, <2>1, <2>2
    <3>2. OneBody(fs, i + 1, j)
      BY <3>1 DEF OneBody
    <3>3. fs[i].own \intersect fs[j].own = {}
      BY <2>1, <2>2, <3>2 DEF Shape, NoShadow
    <3> QED BY <1>1, <2>1, <2>2, <3>3
  <2>3. CASE j = n + 1
    <3>1. f.kind \notin Boundary
      BY <1>1, <2>1, <2>3 DEF OneBody
    <3>2. OneBody(fs, i + 1, n)
      <4>1. \A k \in (i + 1) .. n : k \in (i + 1) .. j /\ gs[k] = fs[k]
        BY <1>1, <2>1, <2>3
      <4> QED BY <4>1 DEF OneBody
    <3>3. fs[i].own \subseteq VisibleIn(fs)
      BY <2>1, <3>2, BodyVisible
    <3> QED BY <1>1, <2>1, <2>3, <3>1, <3>3
  <2> QED BY <1>1, <2>2, <2>3
<1>4. Mirrors(gs, ts)
  <2> SUFFICES ASSUME Len(ss) = n + 1
               PROVE  /\ ts[1] = {}
                      /\ \A i \in 1 .. (n + 1) :
                           /\ gs[i].at = i + 1
                           /\ gs[i].own \subseteq ts[i + 1]
                           /\ gs[i].kind # "captures" => ts[i + 1] = gs[i].own
    BY <1>1, <1>2 DEF Mirrors
  <2>1. Mirrors(fs, ss)
    BY DEF Shape
  <2>2. ts[1] = {}
    BY <1>1, <1>2, <2>1 DEF Mirrors
  <2>3. ASSUME NEW i \in 1 .. n
        PROVE  /\ gs[i].at = i + 1
               /\ gs[i].own \subseteq ts[i + 1]
               /\ gs[i].kind # "captures" => ts[i + 1] = gs[i].own
    <3>1. gs[i] = fs[i] /\ ts[i + 1] = ss[i + 1]
      BY <1>1, <1>2
    <3> QED BY <2>1, <3>1 DEF Mirrors
  <2>4. gs[n + 1] = f /\ ts[n + 1 + 1] = s /\ f.at = n + 1 + 1
    BY <1>1, <1>2
  <2> QED BY <1>1, <2>2, <2>3, <2>4
<1>5. Len(ts) >= Len(gs) + 1
  BY <1>1, <1>2 DEF Shape
<1> QED BY <1>1, <1>2, <1>3, <1>4, <1>5 DEF Shape, gs, ts

\* A frame that leaves takes the last scope with it, or leaks one.
LEMMA ShapePop ==
  ASSUME NEW fs, NEW ss, Shape(fs, ss), fs # <<>>, NEW ts,
         ts = SubSeq(ss, 1, Len(ss) - 1) \/ ts = ss
  PROVE  Shape(SubSeq(fs, 1, Len(fs) - 1), ts)
<1> DEFINE gs == SubSeq(fs, 1, Len(fs) - 1)
           n == Len(fs)
<1>1. /\ n \in Nat \ {0} /\ gs \in Seq(FrameType) /\ Len(gs) = n - 1
      /\ \A i \in 1 .. (n - 1) : gs[i] = fs[i]
  BY WithoutLast DEF Shape
<1>2. ss # <<>> /\ Len(ss) \in Nat
  <2>1. Len(ss) \in Nat /\ Len(ss) >= n + 1
    BY LenProperties DEF Shape
  <2>2. Len(ss) # 0
    BY <1>1, <2>1
  <2> QED BY <2>1, <2>2, Len(<<>>) = 0
<1>3. ts \in Seq(SUBSET Names) /\ Len(ts) >= Len(gs) + 1
  <2>1. CASE ts = ss
    BY <1>1, <1>2, <2>1 DEF Shape
  <2>2. CASE ts = SubSeq(ss, 1, Len(ss) - 1)
    <3>1. ts \in Seq(SUBSET Names) /\ Len(ts) = Len(ss) - 1
      BY <1>2, <2>2, WithoutLast DEF Shape
    <3> QED BY <1>1, <1>2, <3>1 DEF Shape
  <2> QED BY <2>1, <2>2
<1> HIDE DEF gs
<1>4. NoShadow(gs)
  <2> SUFFICES ASSUME NEW i \in 1 .. (n - 1), NEW j \in 1 .. (n - 1), i < j,
                      OneBody(gs, i + 1, j)
               PROVE  gs[i].own \intersect gs[j].own = {}
    BY <1>1 DEF NoShadow
  <2>1. \A k \in (i + 1) .. j : gs[k] = fs[k]
    BY <1>1
  <2>2. OneBody(fs, i + 1, j)
    BY <2>1 DEF OneBody
  <2>3. fs[i].own \intersect fs[j].own = {}
    BY <1>1, <2>2, SMTT(30) DEF Shape, NoShadow
  <2> QED BY <1>1, <2>3
<1>5. Mirrors(gs, ts)
  <2> SUFFICES ASSUME Len(ts) = n
               PROVE  /\ ts[1] = {}
                      /\ \A i \in 1 .. (n - 1) :
                           /\ gs[i].at = i + 1
                           /\ gs[i].own \subseteq ts[i + 1]
                           /\ gs[i].kind # "captures" => ts[i + 1] = gs[i].own
    BY <1>1 DEF Mirrors
  <2>1. ts # ss
    BY <1>1 DEF Shape
  <2>2. /\ Len(ts) = Len(ss) - 1
        /\ \A i \in 1 .. (Len(ss) - 1) : ts[i] = ss[i]
    BY <1>2, <2>1, WithoutLast DEF Shape
  <2>3. Len(ss) = n + 1 /\ Mirrors(fs, ss)
    BY <1>1, <1>2, <2>2 DEF Shape
  <2>4. ts[1] = ss[1]
    BY <1>1, <2>2, <2>3
  <2>5. \A i \in 1 .. (n - 1) : gs[i] = fs[i] /\ ts[i + 1] = ss[i + 1]
    BY <1>1, <2>2, <2>3
  <2>6. \A i \in 1 .. (n - 1) : i \in 1 .. n
    BY <1>1
  <2> QED BY <2>3, <2>4, <2>5, <2>6 DEF Mirrors
<1> QED BY <1>1, <1>3, <1>4, <1>5 DEF Shape, gs

\* The frame on top declares the names of d, which no frame of its body has, in
\* the last scope.
LEMMA ShapeUpdate ==
  ASSUME NEW fs, NEW ss, Shape(fs, ss), fs # <<>>, NEW d \in SUBSET Names,
         d \intersect VisibleIn(fs) = {},
         NEW gs \in Seq(FrameType), Len(gs) = Len(fs),
         \A i \in 1 .. (Len(fs) - 1) : gs[i] = fs[i],
         /\ gs[Len(fs)].kind = fs[Len(fs)].kind /\ gs[Len(fs)].at = fs[Len(fs)].at
         /\ gs[Len(fs)].own = fs[Len(fs)].own \union d,
         NEW ts \in Seq(SUBSET Names), Len(ts) = Len(ss),
         \A i \in 1 .. (Len(ss) - 1) : ts[i] = ss[i],
         ts[Len(ss)] = ss[Len(ss)] \union d
  PROVE  Shape(gs, ts)
<1> DEFINE n == Len(fs)
<1>1. n \in Nat \ {0} /\ Len(ss) \in Nat
  BY EmptySeq, LenProperties DEF Shape
<1>2. \A i \in 1 .. n : gs[i].kind = fs[i].kind /\ gs[i].at = fs[i].at
  BY <1>1
<1>3. NoShadow(gs)
  <2> SUFFICES ASSUME NEW i \in 1 .. n, NEW j \in 1 .. n, i < j, OneBody(gs, i + 1, j)
               PROVE  gs[i].own \intersect gs[j].own = {}
    BY <1>1 DEF NoShadow
  <2>1. gs[i] = fs[i]
    BY <1>1
  <2>2. \A k \in (i + 1) .. j : k \in 1 .. n
    BY <1>1
  <2>3. OneBody(fs, i + 1, j)
    BY <1>2, <2>2 DEF OneBody
  <2>4. fs[i].own \intersect fs[j].own = {}
    BY <2>3 DEF Shape, NoShadow
  <2>5. CASE j = n
    <3>1. fs[i].own \subseteq VisibleIn(fs)
      BY <2>3, <2>5, BodyVisible
    <3> QED BY <2>1, <2>4, <2>5, <3>1
  <2>6. CASE j # n
    <3>1. gs[j] = fs[j]
      BY <1>1, <2>6
    <3> QED BY <2>1, <2>4, <3>1
  <2> QED BY <2>5, <2>6
<1>4. Mirrors(gs, ts)
  <2> SUFFICES ASSUME Len(ss) = n + 1
               PROVE  /\ ts[1] = {}
                      /\ \A i \in 1 .. n :
                           /\ gs[i].at = i + 1
                           /\ gs[i].own \subseteq ts[i + 1]
                           /\ gs[i].kind # "captures" => ts[i + 1] = gs[i].own
    BY <1>1 DEF Mirrors
  <2>1. Mirrors(fs, ss)
    BY DEF Shape
  <2>2. ts[1] = {}
    BY <1>1, <2>1 DEF Mirrors
  <2>3. ASSUME NEW i \in 1 .. n, i # n
        PROVE  gs[i] = fs[i] /\ ts[i + 1] = ss[i + 1]
    BY <1>1, <2>3
  <2>4. ts[n + 1] = ss[n + 1] \union d
    BY <1>1
  <2>5. n \in 1 .. n
    BY <1>1
  <2> QED BY <1>1, <1>2, <2>1, <2>2, <2>3, <2>4, <2>5, ZenonT(30) DEF Mirrors
<1> QED BY <1>1, <1>3, <1>4 DEF Shape

\* How many scopes a step may leak.
LeakStep ==
  \/ Leaked' = Leaked
  \/ /\ Leaked' = Leaked + 1
     /\ \/ flow = "error" /\ Top.kind \notin PopsOnError
        \/ flow \in Signals /\ Top.kind = "spawn"

LEMMA Lengths ==
  ASSUME LexInv
  PROVE  /\ Len(frames) \in Nat /\ Len(scopes) \in Nat
         /\ Leaked \in Nat
         /\ Leaked = Len(scopes) - Len(frames) - 1
         /\ frames \in Seq(FrameType) /\ scopes \in Seq(SUBSET Names)
<1>1. /\ Len(frames) \in Nat /\ Len(scopes) \in Nat
      /\ Len(scopes) >= Len(frames) + 1
  BY LenProperties DEF LexInv, Shape
<1> QED BY <1>1 DEF Leaked, LexInv, Shape

\* Once a scope has leaked, nothing is promised of the captures.
LEMMA ClosureKept ==
  ASSUME LexInv, UNCHANGED closure, Leaked' >= Leaked
  PROVE  Leaked' = 0 => closure'.own \subseteq closure'.names
BY Lengths DEF LexInv

LEMMA PushLex ==
  ASSUME IInv, LexInv, UNCHANGED closure,
         NEW kind \in Kinds, NEW own \in SUBSET Names, NEW swallow \in BOOLEAN,
         NEW home \in Homes, kind # "captures",
         kind \notin Boundary => own \intersect Visible = {},
         IF kind \in {"function", "verify"} THEN namespace' = home ELSE UNCHANGED namespace,
         Push(Frame(kind, own, swallow, home))
  PROVE  LexInv' /\ Leaked' = Leaked
<1> DEFINE f == Frame(kind, own, swallow, home)
<1>1. /\ f \in FrameType
      /\ f.at = Len(scopes) + 1 /\ f.own = own /\ f.kind = kind
      /\ f.home = home /\ f.saved = namespace
  BY FrameFacts DEF Frame
<1>2. scopes' = Append(scopes, own) /\ frames' = Append(frames, f)
  BY DEF Push, Frame
<1> HIDE DEF f
<1>3. /\ frames \in Seq(FrameType) /\ Shape(frames, scopes)
      /\ NamesCall(frames, namespace)
  BY DEF LexInv, Shape
<1>4. NamesCall(frames', namespace')
  BY <1>1, <1>2, <1>3, CallPush DEF IsCall
<1>5. Shape(frames', scopes')
  BY <1>1, <1>2, <1>3, ShapePush DEF Visible
<1>6. Leaked' = Leaked
  <2>1. Len(frames') = Len(frames) + 1 /\ Len(scopes') = Len(scopes) + 1
    BY <1>1, <1>2, Lengths, WithLast
  <2> QED BY <2>1, Lengths DEF Leaked
<1>7. Leaked' >= Leaked
  BY <1>6, Lengths
<1> QED BY <1>4, <1>5, <1>6, <1>7, ClosureKept DEF LexInv

LEMMA PopLex ==
  ASSUME IInv, LexInv, UNCHANGED closure, frames # <<>>, frames' = Below,
         scopes' = PoppedScopes \/ scopes' = scopes,
         namespace' = RestoredNamespace
  PROVE  /\ LexInv'
         /\ scopes' = PoppedScopes => Leaked' = Leaked
         /\ scopes' = scopes => Leaked' = Leaked + 1
<1>1. /\ frames \in Seq(FrameType) /\ Shape(frames, scopes)
      /\ NamesCall(frames, namespace)
  BY DEF LexInv, Shape
<1>2. NamesCall(frames', namespace')
  BY <1>1, CallPop DEF Below, Top, IsCall, RestoredNamespace
<1>3. Shape(frames', scopes')
  BY <1>1, ShapePop DEF Below, PoppedScopes
<1>4. Len(frames') = Len(frames) - 1
  BY <1>1, WithoutLast DEF Below
<1>5. Len(PoppedScopes) = Len(scopes) - 1
  BY TopFacts
<1>6. /\ scopes' = PoppedScopes => Leaked' = Leaked
      /\ scopes' = scopes => Leaked' = Leaked + 1
  BY <1>4, <1>5, Lengths DEF Leaked
<1>7. Leaked' >= Leaked
  BY <1>6, Lengths
<1> QED BY <1>2, <1>3, <1>6, <1>7, ClosureKept DEF LexInv

LEMMA BodyLex ==
  ASSUME IInv, LexInv, UNCHANGED closure, frames # <<>>,
         NEW kind \in Kinds, kind # "captures",
         IF kind \in {"function", "verify"} THEN namespace' = Home ELSE UNCHANGED namespace,
         scopes' = Append(scopes, {}),
         frames' = Append([frames EXCEPT ![Len(frames)].entered = TRUE],
                          Frame(kind, {}, FALSE, Home))
  PROVE  LexInv' /\ Leaked' = Leaked
<1> DEFINE marked == [Top EXCEPT !.entered = TRUE]
           fs == [frames EXCEPT ![Len(frames)] = marked]
           f == Frame(kind, {}, FALSE, Home)
<1>1. /\ frames \in Seq(FrameType) /\ Shape(frames, scopes)
      /\ NamesCall(frames, namespace)
      /\ Len(frames) \in Nat \ {0} /\ Len(scopes) \in Nat
  BY EmptySeq, Lengths DEF LexInv, Shape
<1>2. /\ marked \in FrameType /\ marked.at = Top.at /\ marked.kind = Top.kind
      /\ marked.own = Top.own /\ marked.home = Top.home /\ marked.saved = Top.saved
  BY TopFacts DEF FrameType
<1>3. /\ f \in FrameType
      /\ f.at = Len(scopes) + 1 /\ f.own = {} /\ f.kind = kind
      /\ f.home = Home /\ f.saved = namespace
  BY HomeFacts, FrameFacts DEF Frame
<1>4. frames' = Append(fs, f)
  BY DEF Top
<1> HIDE DEF marked, f
<1>5. /\ fs \in Seq(FrameType) /\ Len(fs) = Len(frames)
      /\ \A i \in 1 .. Len(frames) : fs[i] = IF i = Len(frames) THEN marked ELSE frames[i]
  BY <1>1, <1>2, ExceptSeq
<1> HIDE DEF fs
<1>6. NamesCall(fs, namespace)
  <2>1. \A i \in 1 .. Len(frames) :
          /\ fs[i].kind = frames[i].kind /\ fs[i].home = frames[i].home
          /\ fs[i].saved = frames[i].saved
    BY <1>2, <1>5 DEF Top
  <2> QED BY <1>1, <1>5, <2>1, CallUpdate
<1>7. Shape(fs, scopes)
  <2>1. \A i \in 1 .. (Len(frames) - 1) : fs[i] = frames[i]
    BY <1>1, <1>5
  <2>2. fs[Len(frames)] = marked
    BY <1>1, <1>5
  <2>3. /\ fs[Len(frames)].kind = frames[Len(frames)].kind
        /\ fs[Len(frames)].at = frames[Len(frames)].at
        /\ fs[Len(frames)].own = frames[Len(frames)].own \union {}
    BY <1>2, <2>2 DEF Top
  <2>4. scopes \in Seq(SUBSET Names) /\ scopes[Len(scopes)] = scopes[Len(scopes)] \union {}
    BY Lengths
  <2> QED BY <1>1, <1>5, <2>1, <2>3, <2>4, ShapeUpdate, ZenonT(30)
<1>8. NamesCall(frames', namespace')
  BY <1>3, <1>4, <1>5, <1>6, CallPush DEF IsCall
<1>9. Shape(frames', scopes')
  BY <1>3, <1>4, <1>7, ShapePush
<1>10. Leaked' = Leaked
  <2>1. Len(frames') = Len(frames) + 1
    BY <1>3, <1>4, <1>5, WithLast
  <2>2. Len(scopes') = Len(scopes) + 1
    BY Lengths, WithLast
  <2> QED BY <2>1, <2>2, Lengths DEF Leaked
<1>11. Leaked' >= Leaked
  BY <1>10, Lengths
<1> QED BY <1>8, <1>9, <1>10, <1>11, ClosureKept DEF LexInv

\* The captures of an inline function, then its parameters.
LEMMA ClosureLex == ASSUME IInv, LexInv, EnterClosure PROVE LexInv' /\ Leaked' = Leaked
<1>1. /\ frames \in Seq(FrameType) /\ scopes \in Seq(SUBSET Names)
      /\ Shape(frames, scopes) /\ NamesCall(frames, namespace)
      /\ Len(frames) \in Nat /\ Len(scopes) \in Nat
  BY Lengths DEF LexInv, Shape
<1>2. PICK own \in SUBSET (Names \ closure.own), swallow \in BOOLEAN :
        /\ scopes' = scopes \o <<closure.names, own>>
        /\ frames' = frames \o
             <<[Frame("captures", closure.own, swallow, closure.home)
                  EXCEPT !.entered = TRUE],
               [Frame("params", own, FALSE, closure.home)
                  EXCEPT !.at = Len(scopes) + 2]>>
  BY DEF EnterClosure
<1> DEFINE outer == [Frame("captures", closure.own, swallow, closure.home)
                       EXCEPT !.entered = TRUE]
           inner == [Frame("params", own, FALSE, closure.home)
                       EXCEPT !.at = Len(scopes) + 2]
           names == closure.names
<1>3. /\ outer \in FrameType /\ outer.at = Len(scopes) + 1
      /\ outer.kind = "captures" /\ outer.own = closure.own
  <2>1. "captures" \in Kinds
    BY DEF Kinds, Around
  <2>2. closure.own \in SUBSET Names /\ closure.home \in Homes
    BY HomeFacts
  <2> DEFINE f == Frame("captures", closure.own, swallow, closure.home)
  <2>3. f \in FrameType /\ f.at = Len(scopes) + 1
    BY <2>1, <2>2, FrameFacts
  <2>4. f.kind = "captures" /\ f.own = closure.own
    BY DEF Frame
  <2> HIDE DEF f
  <2>5. /\ [f EXCEPT !.entered = TRUE] \in FrameType
        /\ [f EXCEPT !.entered = TRUE].at = f.at
        /\ [f EXCEPT !.entered = TRUE].kind = f.kind
        /\ [f EXCEPT !.entered = TRUE].own = f.own
    BY <2>3 DEF FrameType
  <2> QED BY <2>3, <2>4, <2>5 DEF f
<1>4. /\ inner \in FrameType /\ inner.at = Len(scopes) + 2
      /\ inner.kind = "params" /\ inner.own = own
  <2>1. "params" \in Kinds /\ own \in SUBSET Names
    BY DEF Kinds, Around
  <2>2. closure.home \in Homes /\ Len(scopes) + 2 \in Nat
    BY <1>1, HomeFacts
  <2> DEFINE f == Frame("params", own, FALSE, closure.home)
             n == Len(scopes) + 2
  <2>3. f \in FrameType
    BY <2>1, <2>2, FrameFacts
  <2>4. f.kind = "params" /\ f.own = own
    BY DEF Frame
  <2>5. n \in Nat
    BY <2>2
  <2> HIDE DEF f, n
  <2>6. /\ [f EXCEPT !.at = n] \in FrameType
        /\ [f EXCEPT !.at = n].at = n
        /\ [f EXCEPT !.at = n].kind = f.kind
        /\ [f EXCEPT !.at = n].own = f.own
    BY <2>3, <2>5 DEF FrameType
  <2> QED BY <2>4, <2>6 DEF f, n
<1>5. names \in SUBSET Names /\ own \in SUBSET Names
  BY HomeFacts
<1>6. frames' = frames \o <<outer, inner>> /\ scopes' = scopes \o <<names, own>>
  BY <1>2
<1> HIDE DEF outer, inner
<1> DEFINE fs == Append(frames, outer)
           ss == Append(scopes, names)
<1>7. frames' = Append(fs, inner) /\ scopes' = Append(ss, own)
  <2>1. frames' = Append(fs, inner)
    BY <1>1, <1>3, <1>4, <1>6, AppendTwice
  <2>2. scopes' = Append(ss, own)
    BY <1>1, <1>5, <1>6, AppendTwice
  <2> QED BY <2>1, <2>2
<1>8. Shape(fs, ss)
  <2>1. Len(scopes) = Len(frames) + 1 => outer.own \subseteq names
    BY <1>1, <1>3 DEF LexInv, Leaked
  <2>2. "captures" \in Boundary
    BY DEF Boundary
  <2> HIDE DEF names
  <2> QED BY <1>1, <1>3, <1>5, <2>1, <2>2, ShapePush
<1>9. /\ fs \in Seq(FrameType) /\ Len(fs) = Len(frames) + 1
      /\ fs[Len(fs)] = outer
      /\ ss \in Seq(SUBSET Names) /\ Len(ss) = Len(scopes) + 1
  BY <1>1, <1>3, <1>5, WithLast
<1> HIDE DEF fs, ss, names
\* The parameters are in a body of their own with the captures.
<1>10. own \intersect VisibleIn(fs) = {}
  <2>1. Body(fs) \subseteq {Len(fs)}
    <3> SUFFICES ASSUME NEW i \in Body(fs), i # Len(fs) PROVE FALSE
      OBVIOUS
    <3>1. i \in 1 .. Len(fs) /\ Len(fs) \in Nat
      BY <1>1, <1>9 DEF Body
    <3>2. Len(fs) \in (i + 1) .. Len(fs)
      BY <3>1
    <3>3. fs[Len(fs)].kind \notin Boundary
      BY <3>2 DEF Body
    <3> QED BY <1>3, <1>9, <3>3 DEF Boundary
  <2>2. VisibleIn(fs) \subseteq closure.own
    BY <1>3, <1>9, <2>1 DEF VisibleIn
  <2> QED BY <2>2
<1>11. Shape(frames', scopes')
  <2>1. inner.at = Len(ss) + 1
    BY <1>1, <1>4, <1>9
  <2> QED BY <1>4, <1>5, <1>7, <1>8, <1>10, <2>1, ShapePush
<1>12. NamesCall(frames', namespace')
  <2>1. ~IsCall(outer) /\ ~IsCall(inner)
    BY <1>3, <1>4 DEF IsCall
  <2>2. NamesCall(fs, namespace)
    BY <1>1, <1>3, <2>1, CallPush DEF fs
  <2>3. namespace' = namespace
    BY DEF EnterClosure
  <2> QED BY <1>4, <1>7, <1>9, <2>1, <2>2, <2>3, CallPush
<1>13. Leaked' = Leaked
  <2>1. Len(frames') = Len(fs) + 1 /\ Len(scopes') = Len(ss) + 1
    BY <1>4, <1>5, <1>7, <1>9, WithLast
  <2> QED BY <1>1, <1>9, <2>1 DEF Leaked
<1>14. UNCHANGED closure /\ Leaked' >= Leaked
  BY <1>13, Lengths DEF EnterClosure
<1> QED BY <1>11, <1>12, <1>13, <1>14, ClosureKept DEF LexInv

\* The handle block takes the place of the constraint that failed.
LEMMA HandledLex == ASSUME IInv, LexInv, RefinementHandled PROVE LexInv' /\ Leaked' = Leaked
<1>1. /\ frames \in Seq(FrameType) /\ scopes \in Seq(SUBSET Names)
      /\ Shape(frames, scopes) /\ NamesCall(frames, namespace)
      /\ Len(frames) \in Nat /\ Len(scopes) \in Nat
      /\ frames # <<>> /\ Top.kind = "refinement"
  BY Lengths DEF IInv, LexInv, Shape, RefinementHandled, Signals
<1>2. Len(frames) # 1
  BY <1>1, RootKind DEF Roots
<1>3. /\ Top \in FrameType /\ Below # <<>>
      /\ PoppedScopes \in Seq(SUBSET Names)
      /\ Len(PoppedScopes) = Len(scopes) - 1
      /\ Below \in Seq(FrameType) /\ Len(Below) = Len(frames) - 1
  BY <1>1, <1>2, TopFacts, WithoutLast DEF Below
<1>4. Below[Len(Below)] \in FrameType
  <2>1. Len(Below) \in Nat \ {0}
    BY <1>3, EmptySeq
  <2> QED BY <1>3, <2>1, ElementOfSeq
<1>5. PICK own \in SUBSET (Names \ VisibleIn(Below)) :
        /\ scopes' = Append(PoppedScopes, own)
        /\ frames' = Append(Below, [Top EXCEPT !.kind = "handle", !.own = own,
                                               !.swallow = FALSE,
                                               !.at = Len(scopes),
                                               !.home = Below[Len(Below)].home])
  BY DEF RefinementHandled
<1> DEFINE b == Below[Len(Below)]
           n == Len(scopes)
           f == [Top EXCEPT !.kind = "handle", !.own = own, !.swallow = FALSE,
                            !.at = n, !.home = b.home]
<1>6. f \in FrameType /\ f.at = n /\ f.kind = "handle" /\ f.own = own
  <2>1. "handle" \in Kinds /\ own \in SUBSET Names
    BY DEF Kinds, Code
  <2>2. b.home \in Homes /\ n \in Nat
    BY <1>1, <1>4 DEF FrameType
  <2> HIDE DEF b, n
  <2> QED BY <1>3, <2>1, <2>2 DEF FrameType
<1>7. frames' = Append(Below, f)
  BY <1>5
<1> HIDE DEF f
<1>8. Shape(Below, PoppedScopes)
  BY <1>1, ShapePop DEF Below, PoppedScopes
<1>9. f.at = Len(PoppedScopes) + 1
  BY <1>1, <1>3, <1>6
<1>10. Shape(frames', scopes')
  BY <1>5, <1>6, <1>7, <1>8, <1>9, ShapePush
<1>11. NamesCall(frames', namespace')
  <2>1. NamesCall(Below, namespace)
    BY <1>1, CallPop DEF Below, Top, IsCall
  <2>2. namespace' = namespace /\ ~IsCall(f)
    BY <1>6 DEF RefinementHandled, IsCall
  <2> QED BY <1>3, <1>6, <1>7, <2>1, <2>2, CallPush
<1>12. Leaked' = Leaked
  <2>1. Len(frames') = Len(Below) + 1
    BY <1>3, <1>6, <1>7, WithLast
  <2>2. Len(scopes') = Len(PoppedScopes) + 1
    BY <1>3, <1>5, WithLast
  <2> QED BY <1>1, <1>3, <2>1, <2>2 DEF Leaked
<1>13. UNCHANGED closure /\ Leaked' >= Leaked
  BY <1>12, Lengths DEF RefinementHandled
<1> QED BY <1>10, <1>11, <1>12, <1>13, ClosureKept DEF LexInv

LEMMA DeclareLex == ASSUME IInv, LexInv, Declare PROVE LexInv' /\ Leaked' = Leaked
<1>1. /\ frames \in Seq(FrameType) /\ scopes \in Seq(SUBSET Names)
      /\ Shape(frames, scopes) /\ NamesCall(frames, namespace)
      /\ frames # <<>>
      /\ Len(frames) \in Nat \ {0} /\ Len(scopes) \in Nat \ {0}
  BY Lengths, StateFacts, EmptySeq DEF LexInv, Shape, Declare, InCode, Idle
<1>2. PICK x \in Names \ Visible :
        /\ frames' = [frames EXCEPT ![Len(frames)].own = @ \union {x}]
        /\ scopes' = [scopes EXCEPT ![Len(scopes)] = @ \union {x}]
  BY DEF Declare
<1> DEFINE f == [Top EXCEPT !.own = Top.own \union {x}]
           last == scopes[Len(scopes)] \union {x}
<1>3. /\ f \in FrameType /\ f.at = Top.at /\ f.kind = Top.kind
      /\ f.own = Top.own \union {x} /\ f.home = Top.home /\ f.saved = Top.saved
  BY <1>1, TopFacts DEF FrameType
<1>4. frames' = [frames EXCEPT ![Len(frames)] = f]
  BY <1>2 DEF Top
<1>5. last \in SUBSET Names /\ Len(scopes) \in 1 .. Len(scopes)
  BY <1>1, ElementOfSeq
<1>6. scopes' = [scopes EXCEPT ![Len(scopes)] = last]
  BY <1>2
<1> HIDE DEF f
<1>7. /\ frames' \in Seq(FrameType) /\ Len(frames') = Len(frames)
      /\ \A i \in 1 .. Len(frames) : frames'[i] = IF i = Len(frames) THEN f ELSE frames[i]
  BY <1>1, <1>3, <1>4, ExceptSeq
<1>8. /\ scopes' \in Seq(SUBSET Names) /\ Len(scopes') = Len(scopes)
      /\ \A i \in 1 .. Len(scopes) : scopes'[i] = IF i = Len(scopes) THEN last ELSE scopes[i]
  <2> HIDE DEF last
  <2> QED BY <1>1, <1>5, <1>6, ExceptSeq
<1>9. Shape(frames', scopes')
  <2>1. /\ \A i \in 1 .. (Len(frames) - 1) : frames'[i] = frames[i]
        /\ frames'[Len(frames)] = f
    BY <1>1, <1>7
  <2>2. /\ \A i \in 1 .. (Len(scopes) - 1) : scopes'[i] = scopes[i]
        /\ scopes'[Len(scopes)] = scopes[Len(scopes)] \union {x}
    BY <1>1, <1>8
  <2>3. {x} \in SUBSET Names /\ {x} \intersect VisibleIn(frames) = {}
    BY DEF Visible
  <2>4. /\ frames'[Len(frames)].kind = frames[Len(frames)].kind
        /\ frames'[Len(frames)].at = frames[Len(frames)].at
        /\ frames'[Len(frames)].own = frames[Len(frames)].own \union {x}
    BY <1>3, <2>1 DEF Top
  <2> QED BY <1>1, <1>7, <1>8, <2>1, <2>2, <2>3, <2>4, ShapeUpdate, ZenonT(30)
<1>10. NamesCall(frames', namespace')
  <2>1. \A i \in 1 .. Len(frames) :
          /\ frames'[i].kind = frames[i].kind /\ frames'[i].home = frames[i].home
          /\ frames'[i].saved = frames[i].saved
    BY <1>3, <1>7 DEF Top
  <2>2. namespace' = namespace
    BY DEF Declare
  <2> QED BY <1>1, <1>7, <2>1, <2>2, CallUpdate
<1>11. Leaked' = Leaked
  BY <1>7, <1>8 DEF Leaked
<1>12. UNCHANGED closure /\ Leaked' >= Leaked
  BY <1>11, Lengths DEF Declare
<1> QED BY <1>9, <1>10, <1>11, <1>12, ClosureKept DEF LexInv

\* While nothing has leaked, what the code can name is on the stack to capture.
LEMMA MakeClosureLex == ASSUME LexInv, MakeClosure PROVE LexInv' /\ Leaked' = Leaked
<1>1. UNCHANGED <<scopes, frames, namespace>>
  BY DEF MakeClosure
<1>2. Leaked' = Leaked
  BY <1>1 DEF Leaked
<1>3. NamesCall(frames', namespace') /\ Shape(frames', scopes')
  BY <1>1 DEF LexInv
<1>4. ASSUME Leaked = 0 PROVE Visible \subseteq UNION {scopes[i] : i \in 1 .. Len(scopes)}
  <2> SUFFICES ASSUME NEW x \in Visible PROVE \E i \in 1 .. Len(scopes) : x \in scopes[i]
    OBVIOUS
  <2>1. PICK i \in Body(frames) : x \in frames[i].own
    BY DEF Visible, VisibleIn
  <2>2. Len(scopes) = Len(frames) + 1 /\ i \in 1 .. Len(frames) /\ Len(frames) \in Nat
    BY <1>4, Lengths DEF Body
  <2>3. x \in scopes[i + 1]
    BY <2>1, <2>2 DEF LexInv, Shape, Mirrors
  <2> QED BY <2>2, <2>3
<1>5. Leaked' = 0 => closure'.own \subseteq closure'.names
  BY <1>2, <1>4 DEF MakeClosure
<1> QED BY <1>2, <1>3, <1>5 DEF LexInv

\* What the actions keep of LexInv, and how they leak.
LEMMA StepLex == ASSUME IInv, LexInv, [Next]_vars PROVE LexInv' /\ LeakStep
<1>1. /\ Namespaces \union {Global} = Homes
      /\ frames # <<>> => Home \in Homes
  BY HomeFacts
<1>2. CASE StartVerify
  <2>1. PICK home \in Homes : Push(Frame("verify", {}, FALSE, home)) /\ namespace' = home
    BY <1>1, <1>2 DEF StartVerify
  <2>2. "verify" \in Kinds /\ {} \in SUBSET Names /\ UNCHANGED closure
    BY <1>2 DEF Kinds, Code, StartVerify
  <2> QED BY <2>1, <2>2, PushLex DEF LeakStep
<1>3. CASE StartProperty
  <2>1. PICK own \in SUBSET Names, home \in Homes : Push(Frame("given", own, FALSE, home))
    BY <1>1, <1>3 DEF StartProperty
  <2>2. "given" \in Kinds /\ UNCHANGED <<closure, namespace>>
    BY <1>3 DEF Kinds, Around, StartProperty
  <2>3. Visible = {}
    <3>1. Len(frames) = 0
      BY <1>3, Len(<<>>) = 0 DEF StartProperty, Idle
    <3> QED BY <3>1 DEF Visible, VisibleIn, Body
  <2> QED BY <2>1, <2>2, <2>3, PushLex DEF LeakStep
<1>4. CASE RunProperty
  <2>1. frames # <<>> /\ UNCHANGED closure /\ "verify" \in Kinds
    BY <1>4 DEF RunProperty, Idle, Kinds, Code
  <2> QED BY <1>4, <2>1, BodyLex DEF RunProperty, LeakStep
<1>5. CASE StartFunction
  <2>1. PICK own \in SUBSET Names, home \in Homes :
          Push(Frame("function", own, FALSE, home)) /\ namespace' = home
    BY <1>1, <1>5 DEF StartFunction
  <2>2. "function" \in Kinds /\ "function" \in Boundary /\ UNCHANGED closure
    BY <1>5 DEF Kinds, Around, Boundary, StartFunction
  <2> QED BY <2>1, <2>2, PushLex DEF LeakStep
<1>6. CASE EnterBody
  <2>1. frames # <<>> /\ UNCHANGED <<closure, namespace>> /\ "block" \in Kinds
    BY <1>6 DEF EnterBody, Idle, Kinds, Code
  <2> QED BY <1>6, <2>1, BodyLex DEF EnterBody, LeakStep
<1>7. CASE EnterBlock
  <2>1. /\ frames # <<>> /\ UNCHANGED <<closure, namespace>> /\ "block" \in Kinds
        /\ {} \in SUBSET Names /\ Push(Frame("block", {}, FALSE, Home))
    BY <1>7 DEF EnterBlock, InCode, Idle, Kinds, Code
  <2> QED BY <1>1, <2>1, PushLex DEF LeakStep
<1>8. CASE EnterTurn
  <2>1. frames # <<>> /\ UNCHANGED <<closure, namespace>>
    BY <1>8 DEF EnterTurn, InCode, Idle
  <2>2. PICK kind \in {"turn", "list turn", "arm"}, own \in SUBSET (Names \ Visible) :
          Push(Frame(kind, own, FALSE, Home))
    BY <1>8 DEF EnterTurn
  <2>3. kind \in Kinds /\ own \in SUBSET Names /\ own \intersect Visible = {}
    BY DEF Kinds, Around
  <2> QED BY <1>1, <2>1, <2>2, <2>3, PushLex DEF LeakStep
<1>9. CASE EnterHandle
  <2>1. frames # <<>> /\ UNCHANGED <<closure, namespace>>
    BY <1>9 DEF EnterHandle, InExpression, Idle
  <2>2. PICK own \in SUBSET (Names \ Visible), swallow \in BOOLEAN :
          Push(Frame("handle", own, swallow, Home))
    BY <1>9 DEF EnterHandle
  <2>3. "handle" \in Kinds /\ own \in SUBSET Names /\ own \intersect Visible = {}
    BY DEF Kinds, Code
  <2> QED BY <1>1, <2>1, <2>2, <2>3, PushLex DEF LeakStep
<1>10. CASE EnterFunction
  <2>1. PICK own \in SUBSET Names, swallow \in BOOLEAN, home \in Homes :
          Push(Frame("function", own, swallow, home)) /\ namespace' = home
    BY <1>1, <1>10 DEF EnterFunction
  <2>2. "function" \in Kinds /\ "function" \in Boundary /\ UNCHANGED closure
    BY <1>10 DEF Kinds, Around, Boundary, EnterFunction
  <2> QED BY <2>1, <2>2, PushLex DEF LeakStep
<1>11. CASE EnterClosure
  BY <1>11, ClosureLex DEF LeakStep
<1>12. CASE EnterRefinement
  <2>1. PICK own \in SUBSET Names, swallow \in BOOLEAN, home \in Homes :
          Push(Frame("refinement", own, swallow, home))
    BY <1>1, <1>12 DEF EnterRefinement
  <2>2. /\ "refinement" \in Kinds /\ "refinement" \in Boundary
        /\ UNCHANGED <<closure, namespace>>
    BY <1>12 DEF Kinds, Declared, Boundary, EnterRefinement
  <2> QED BY <2>1, <2>2, PushLex DEF LeakStep
<1>13. CASE EnterActor
  <2>1. PICK kind \in {"spawn", "handler"}, own \in SUBSET Names,
             swallow \in BOOLEAN, home \in Homes :
          Push(Frame(kind, own, swallow, home))
    BY <1>1, <1>13 DEF EnterActor
  <2>2. kind \in Kinds /\ kind \in Boundary /\ UNCHANGED <<closure, namespace>>
    BY <1>13 DEF Kinds, Declared, Code, Boundary, EnterActor
  <2> QED BY <2>1, <2>2, PushLex DEF LeakStep
<1>14. CASE MakeClosure
  BY <1>14, MakeClosureLex DEF LeakStep
<1>15. CASE Declare
  BY <1>15, DeclareLex DEF LeakStep
<1>16. CASE Fail \/ FailedAssert \/ Signal \/ UNCHANGED vars
  <2>1. UNCHANGED <<scopes, frames, namespace, closure>>
    BY <1>16 DEF Fail, FailedAssert, Signal, vars
  <2>2. Leaked' = Leaked
    BY <2>1 DEF Leaked
  <2>3. NamesCall(frames', namespace') /\ Shape(frames', scopes')
    BY <2>1 DEF LexInv
  <2> QED BY <2>1, <2>2, <2>3 DEF LexInv, LeakStep
<1>17. CASE Leave \/ LeaveGiven \/ HandleFallsThrough \/ PassSignal
            \/ TakeSignal \/ RefuseSignal
  <2>1. Pop /\ frames # <<>>
    <3>1. flow # "run" => frames # <<>>
      BY DEF IInv
    <3> QED BY <1>17, <3>1 DEF Leave, LeaveGiven, HandleFallsThrough, PassSignal,
                               TakeSignal, RefuseSignal, Idle, Signals
  <2> QED BY <2>1, PopLex DEF Pop, LeakStep
<1>18. CASE Unwind
  <2>1. /\ frames # <<>> /\ frames' = Below /\ namespace' = RestoredNamespace
        /\ UNCHANGED closure /\ flow = "error"
    BY <1>18 DEF Unwind, IInv
  <2>2. CASE Top.kind \in PopsOnError
    <3>1. scopes' = PoppedScopes
      BY <1>18, <2>2 DEF Unwind, LeakedScopes
    <3> QED BY <2>1, <3>1, PopLex DEF LeakStep
  <2>3. CASE Top.kind \notin PopsOnError
    <3>1. scopes' = scopes
      BY <1>18, <2>3 DEF Unwind, LeakedScopes
    <3> QED BY <2>1, <2>3, <3>1, PopLex DEF LeakStep
  <2> QED BY <2>2, <2>3
<1>19. CASE RefinementHandled
  BY <1>19, HandledLex DEF LeakStep
<1>20. CASE SpawnSignal
  <2>1. /\ frames # <<>> /\ frames' = Below /\ scopes' = scopes
        /\ UNCHANGED closure /\ flow \in Signals /\ Top.kind = "spawn"
    BY <1>20 DEF SpawnSignal, IInv, Signals
  <2>2. namespace' = RestoredNamespace
    BY <1>20, <2>1 DEF SpawnSignal, RestoredNamespace
  <2> QED BY <2>1, <2>2, PopLex DEF LeakStep
<1> QED BY <1>2, <1>3, <1>4, <1>5, <1>6, <1>7, <1>8, <1>9, <1>10, <1>11, <1>12,
           <1>13, <1>14, <1>15, <1>16, <1>17, <1>18, <1>19, <1>20
        DEF Next, Starting, Entering, Executing, Leaving

LEMMA InitLex == Init => LexInv
<1> SUFFICES ASSUME Init PROVE LexInv
  OBVIOUS
<1>1. /\ scopes = <<{}>> /\ frames = <<>> /\ namespace = Global
      /\ closure.own = {} /\ closure.names = {}
  BY DEF Init
<1>2. /\ scopes \in Seq(SUBSET Names) /\ Len(scopes) = 1 /\ scopes[1] = {}
      /\ frames \in Seq(FrameType) /\ Len(frames) = 0
  BY <1>1, EmptySeq
<1>3. NamesCall(frames, namespace)
  BY <1>1, <1>2 DEF NamesCall, NamespaceAt, SavedRight
<1>4. Shape(frames, scopes)
  BY <1>2 DEF Shape, NoShadow, Mirrors
<1> QED BY <1>1, <1>3, <1>4 DEF LexInv

\* The nearest scope that has x is that of the frame of the body that has x.
LEMMA LookupFinds ==
  ASSUME LexInv, Leaked = 0, NEW x \in Visible
  PROVE  ScopeOf(x) = OwnerOf(x)
<1> DEFINE n == Len(frames)
<1>1. /\ n \in Nat /\ Len(scopes) = n + 1
      /\ NoShadow(frames) /\ Mirrors(frames, scopes)
  BY Lengths DEF LexInv, Shape
<1>2. PICK i \in Body(frames) : x \in frames[i].own
  BY DEF Visible, VisibleIn
<1>3. i \in 1 .. n /\ OneBody(frames, i + 1, n)
  BY DEF Body, OneBody
<1>4. ASSUME NEW j \in Body(frames), x \in frames[j].own PROVE j = i
  <2>1. j \in 1 .. n /\ OneBody(frames, j + 1, n)
    BY DEF Body, OneBody
  <2>2. ~(i < j)
    <3> SUFFICES ASSUME i < j PROVE FALSE
      OBVIOUS
    <3>1. OneBody(frames, i + 1, j)
      BY <1>1, <1>3, <2>1 DEF OneBody
    <3> QED BY <1>1, <1>2, <1>3, <1>4, <2>1, <3>1 DEF NoShadow
  <2>3. ~(j < i)
    <3> SUFFICES ASSUME j < i PROVE FALSE
      OBVIOUS
    <3>1. OneBody(frames, j + 1, i)
      BY <1>1, <1>3, <2>1 DEF OneBody
    <3> QED BY <1>1, <1>2, <1>3, <1>4, <2>1, <3>1 DEF NoShadow
  <2> QED BY <1>3, <2>1, <2>2, <2>3
<1>5. OwnerOf(x) = i + 1
  <2>1. (CHOOSE k \in Body(frames) : x \in frames[k].own) = i
    BY <1>2, <1>4
  <2> QED BY <1>1, <1>3, <2>1 DEF OwnerOf, Mirrors
<1>6. x \in scopes[i + 1] /\ i + 1 \in 0 .. Len(scopes)
  BY <1>1, <1>2, <1>3 DEF Mirrors
<1>7. ASSUME NEW j \in (i + 2) .. Len(scopes) PROVE x \notin scopes[j]
  <2>1. j - 1 \in (i + 1) .. n /\ j - 1 \in 1 .. n /\ (j - 1) + 1 = j
    BY <1>1, <1>3
  <2>2. frames[j - 1].kind \notin Boundary
    BY <1>3, <2>1 DEF OneBody
  <2>3. scopes[j] = frames[j - 1].own
    BY <1>1, <2>1, <2>2 DEF Mirrors, Boundary
  <2>4. j - 1 \in Body(frames)
    <3>1. \A k \in ((j - 1) + 1) .. n : k \in (i + 1) .. n
      BY <1>1, <1>3, <2>1
    <3> QED BY <1>3, <2>1, <3>1 DEF Body, OneBody
  <2>5. j - 1 # i
    BY <1>1, <1>3, <2>1
  <2> QED BY <1>4, <2>3, <2>4, <2>5
<1>8. ScopeOf(x) = i + 1
  <2> DEFINE Nearest(c) == /\ c = 0 \/ x \in scopes[c]
                           /\ \A j \in (c + 1) .. Len(scopes) : x \notin scopes[j]
  <2>1. Nearest(i + 1)
    BY <1>3, <1>6, <1>7
  <2>2. ASSUME NEW c \in 0 .. Len(scopes), Nearest(c) PROVE c = i + 1
    <3>1. ~(c < i + 1)
      BY <1>1, <1>3, <1>6, <2>2
    <3>2. ~(c > i + 1)
      BY <1>1, <1>3, <1>7, <2>2
    <3> QED BY <1>1, <1>3, <3>1, <3>2
  <2>3. ScopeOf(x) = CHOOSE c \in 0 .. Len(scopes) : Nearest(c)
    BY DEF ScopeOf
  <2> HIDE DEF Nearest
  <2> QED BY <1>6, <2>1, <2>2, <2>3
<1> QED BY <1>5, <1>8

LEMMA NamespaceFound == ASSUME LexInv PROVE NamespaceOfCall
<1> DEFINE n == Len(frames)
<1>1. n \in Nat /\ NamespaceAt(frames, n, namespace)
  BY Lengths DEF LexInv, NamesCall
<1>2. Calls = {i \in 1 .. n : IsCall(frames[i])}
  BY DEF Calls, IsCall
<1>3. CASE namespace = Global /\ \A i \in 1 .. n : ~IsCall(frames[i])
  BY <1>2, <1>3 DEF NamespaceOfCall
<1>4. CASE \E i \in 1 .. n : /\ IsCall(frames[i]) /\ namespace = frames[i].home
                             /\ \A j \in (i + 1) .. n : ~IsCall(frames[j])
  <2>1. PICK i \in 1 .. n : /\ IsCall(frames[i]) /\ namespace = frames[i].home
                            /\ \A j \in (i + 1) .. n : ~IsCall(frames[j])
    BY <1>4
  <2>2. i \in Calls /\ \A j \in Calls : j <= i
    BY <1>1, <1>2, <2>1
  <2>3. ASSUME NEW k \in Calls, \A j \in Calls : j <= k PROVE k = i
    <3>1. k \in 1 .. n
      BY <1>2
    <3> QED BY <2>2, <2>3, <3>1
  <2>4. (CHOOSE k \in Calls : \A j \in Calls : j <= k) = i
    BY <2>2, <2>3
  <2>5. (CHOOSE k \in Calls : \A j \in Calls : j <= k) = i => NamespaceOfCall
    <3>1. Calls # {}
      BY <2>2
    <3>2. namespace = frames[i].home
      BY <2>1
    <3> QED BY <3>1, <3>2, Zenon DEF NamespaceOfCall
  <2> QED BY <2>4, <2>5
<1> QED BY <1>1, <1>3, <1>4 DEF NamespaceAt

-----------------------------------------------------------------------------
(* Theorems                                                                *)

\* Whatever the program does, the interpreter's state keeps its type, and the
\* global scope is never popped: scopes.last().unwrap() in current_env cannot
\* fail.
THEOREM InterpreterTypeCorrect == Spec => []TypeOK
<1>1. IInv => TypeOK
  BY DEF IInv
<1> QED BY <1>1, InitIInv, StepIInv, PTL DEF Spec

\* Whatever errors and signals leave the constructs, and however many scopes
\* leaked before, every construct being executed still has its scope: no
\* pop_scope takes the scope of another construct away.
THEOREM InterpreterLiveScopes == Spec => []LiveScopes
<1>1. IInv => LiveScopes
  BY DEF IInv, Stack, LiveScopes
<1> QED BY <1>1, InitIInv, StepIInv, PTL DEF Spec

\* Every block the runner starts ends in a verdict: neither a signal nor an
\* error gets past it.
THEOREM InterpreterVerdict == Spec => []VerdictAtRest
<1>1. IInv => VerdictAtRest
  BY DEF IInv
<1> QED BY <1>1, InitIInv, StepIInv, PTL DEF Spec

\* While nothing has leaked, the search of the whole scope stack finds the
\* binding that the program text means; and current_namespace is always that of
\* the innermost function or block being executed, leaks or not.
THEOREM InterpreterNamesLexical == Spec => []NamesLexical
<1>1. Init => IInv /\ LexInv
  BY InitIInv, InitLex
<1>2. IInv /\ LexInv /\ [Next]_vars => (IInv /\ LexInv)'
  BY StepIInv, StepLex
<1>3. LexInv => NamesLexical
  BY LookupFinds, NamespaceFound DEF NamesLexical, LexicalUntilLeak, LookupsLexical
<1> QED BY <1>1, <1>2, <1>3, PTL DEF Spec

\* A step leaks at most one scope: that of a construct whose pop_scope the `?` of
\* an error skips, or of a spawn that a signal leaves.  Every other way out of a
\* construct, and every construct entered, keeps frames and scopes in step.
THEOREM InterpreterLeaksOnlyOnFailure == Spec => LeakOnlyOnFailure
<1>1. Init => IInv /\ LexInv
  BY InitIInv, InitLex
<1>2. IInv /\ LexInv /\ [Next]_vars => (IInv /\ LexInv)'
  BY StepIInv, StepLex
<1>3. IInv /\ LexInv /\ [Next]_vars =>
        [\/ Leaked' = Leaked
         \/ /\ Leaked' = Leaked + 1
            /\ \/ flow = "error" /\ Top.kind \notin PopsOnError
               \/ flow \in Signals /\ Top.kind = "spawn"]_vars
  BY StepLex DEF LeakStep
<1> QED BY <1>1, <1>2, <1>3, PTL DEF Spec, LeakOnlyOnFailure
=============================================================================
