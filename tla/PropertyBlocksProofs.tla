------------------------ MODULE PropertyBlocksProofs ------------------------
(***************************************************************************)
(* Whatever the body of a property block does, and whatever values shrink  *)
(* to, the runner's verdict is what the body did, and its counterexamples  *)
(* are minimal unless the steps are used up.                               *)
(***************************************************************************)
EXTENDS PropertyBlocks, TLAPS

-----------------------------------------------------------------------------
(* The inductive invariant                                                 *)

\* The body passed on the inputs of every iteration before this one.
EarlierPassed == \A k \in 0 .. (iteration - 1) : Did(Chosen(k), FALSE)

\* From the failure on, the body failed on what the iteration chose and on
\* what is shrunk.
InputsFail ==
  stage \in {"shrinking", "panicked"} \/ report = "failed" =>
    Did(Chosen(iteration), TRUE) /\ Did(inputs, TRUE)

\* The candidates that shrinking has left behind since the last step.
Behind(i, c) == i < given \/ (i = given /\ c < candidate)

LeftPassed ==
  stage = "shrinking" =>
    \A i \in Givens : \A c \in 1 .. Len(Candidates(inputs[i])) :
      Behind(i, c) => Did(Attempt(inputs, i, c), FALSE)

\* Shrinking begins with the first candidate; only the end has a report.
StageOK ==
  /\ stage = "running" => given = 1 /\ candidate = 1
  /\ report # "none" => stage = "done"
  /\ report = "passed" => iteration = Iterations

IInv == TypeOK /\ EarlierPassed /\ InputsFail /\ LeftPassed /\ StageOK /\ Minimal

-----------------------------------------------------------------------------
(* What the body did is not forgotten                                      *)

Knows(f, x, failed) == x \in DOMAIN f /\ f[x] = failed

\* Running the body adds an outcome and changes none.
LEMMA RunRemembers ==
  ASSUME fails \in [DOMAIN fails -> BOOLEAN]
  PROVE  \A x : \A failed \in BOOLEAN : Run(x, failed) =>
           /\ fails' \in [DOMAIN fails' -> BOOLEAN]
           /\ Knows(fails', x, failed)
           /\ \A y, f : Knows(fails, y, f) => Knows(fails', y, f)
BY DEF Run, Knows

\* A block's givens, and so the inputs of its iterations, do not change.
LEMMA SameBlock ==
  ASSUME Next \/ UNCHANGED vars
  PROVE  givens' = givens /\ Givens' = Givens /\ \A k : Chosen(k)' = Chosen(k)
<1>1. givens' = givens
  BY DEF Next, vars, Refuse, PassIteration, FailIteration, Pass, Panic, Take, Leave,
         NextGiven, Report
<1> QED BY <1>1 DEF Givens, Chosen

-----------------------------------------------------------------------------
\* Before the first iteration nothing was run.
LEMMA InitIInv == Init => IInv
<1> SUFFICES ASSUME Init PROVE IInv
  OBVIOUS
<1>1. Len(givens) \in Nat
  BY BlocksAreSequences DEF Init
<1>2. TypeOK
  BY <1>1, LimitsAreNumbers DEF Init, TypeOK
<1> QED
  BY <1>2 DEF Init, IInv, EarlierPassed, InputsFail, LeftPassed, StageOK, Minimal

\* The end of a block: the verdict is given and nothing else changes.
LEMMA EndIInv ==
  ASSUME IInv, Refuse \/ Pass \/ Panic
  PROVE  IInv'
<1>1. givens' = givens /\ Givens' = Givens /\ \A k : Chosen(k)' = Chosen(k)
  BY SameBlock DEF Next
<1>2. /\ iteration' = iteration /\ inputs' = inputs /\ given' = given
      /\ candidate' = candidate /\ steps' = steps /\ fails' = fails
  BY DEF Refuse, Pass, Panic
<1>3. /\ stage' \in {"done", "panicked"} /\ report' \in {"none", "unsupported", "passed"}
      /\ report' # "none" => stage' = "done"
      /\ report' = "passed" => iteration = Iterations
      /\ stage' = "panicked" => stage = "shrinking"
  BY DEF Refuse, Pass, Panic, Shrinking, Finished, IInv, TypeOK, StageOK
<1>4. TypeOK'
  BY <1>1, <1>2, <1>3 DEF IInv, TypeOK
<1>5. EarlierPassed'
  BY <1>1, <1>2 DEF IInv, EarlierPassed, Did
<1>6. InputsFail'
  BY <1>1, <1>2, <1>3 DEF IInv, InputsFail, Did
<1> QED
  BY <1>1, <1>2, <1>3, <1>4, <1>5, <1>6 DEF IInv, LeftPassed, StageOK, Minimal

\* Iterations that pass are remembered; one that fails begins shrinking.
LEMMA IterationIInv ==
  ASSUME IInv, PassIteration \/ FailIteration
  PROVE  IInv'
<1>1. givens' = givens /\ Givens' = Givens /\ \A k : Chosen(k)' = Chosen(k)
  BY SameBlock DEF Next
<1>2. /\ TypeOK /\ stage = "running" /\ iteration \in 0 .. Iterations /\ iteration < Iterations
      /\ report = "none"
  BY DEF IInv, TypeOK, StageOK, PassIteration, FailIteration
<1>3. /\ given' = given /\ candidate' = candidate /\ steps' = steps /\ report' = report
  BY DEF PassIteration, FailIteration
<1>4. CASE PassIteration
  <2>1. Run(Chosen(iteration), FALSE) /\ iteration' = iteration + 1 /\ inputs' = inputs
        /\ stage' = stage
    BY <1>4 DEF PassIteration
  <2>2. /\ fails' \in [DOMAIN fails' -> BOOLEAN] /\ Knows(fails', Chosen(iteration), FALSE)
        /\ \A y, f : Knows(fails, y, f) => Knows(fails', y, f)
    BY <1>2, <2>1, RunRemembers DEF TypeOK
  <2>3. TypeOK'
    BY <1>1, <1>2, <1>3, <2>1, <2>2, LimitsAreNumbers DEF TypeOK
  <2>4. EarlierPassed'
    BY <1>1, <1>2, <2>1, <2>2 DEF IInv, EarlierPassed, Did, Knows
  <2> QED
    BY <1>2, <1>3, <2>1, <2>3, <2>4
    DEF IInv, InputsFail, LeftPassed, StageOK, Minimal
<1>5. CASE FailIteration
  <2>1. Run(Chosen(iteration), TRUE) /\ iteration' = iteration /\ inputs' = Chosen(iteration)
        /\ stage' = "shrinking"
    BY <1>5 DEF FailIteration
  <2>2. /\ fails' \in [DOMAIN fails' -> BOOLEAN] /\ Knows(fails', Chosen(iteration), TRUE)
        /\ \A y, f : Knows(fails, y, f) => Knows(fails', y, f)
    BY <1>2, <2>1, RunRemembers DEF TypeOK
  <2>3. TypeOK'
    BY <1>1, <1>2, <1>3, <2>1, <2>2 DEF TypeOK
  <2>4. EarlierPassed'
    BY <1>1, <1>2, <2>1, <2>2 DEF IInv, EarlierPassed, Did, Knows
  <2>5. InputsFail'
    BY <1>1, <2>1, <2>2 DEF InputsFail, Did, Knows
  <2>6. given' = 1 /\ candidate' = 1
    BY <1>2, <1>3 DEF IInv, StageOK
  <2>7. LeftPassed'
    <3> SUFFICES ASSUME NEW i \in Givens', NEW c \in 1 .. Len(Candidates(inputs[i])'),
                        Behind(i, c)'
                 PROVE  FALSE
      BY DEF LeftPassed
    <3>1. i \in 1 .. Len(givens) /\ Len(givens) \in Nat
      BY <1>1, <1>2, BlocksAreSequences DEF TypeOK, Givens
    <3> QED BY <2>6, <3>1 DEF Behind
  <2> QED
    BY <1>2, <1>3, <2>1, <2>3, <2>4, <2>5, <2>7 DEF IInv, StageOK, Minimal
<1> QED BY <1>4, <1>5

\* A simpler input that fails is shrunk from its first candidate on.
LEMMA TakeIInv ==
  ASSUME IInv, Take
  PROVE  IInv'
<1>1. givens' = givens /\ Givens' = Givens /\ \A k : Chosen(k)' = Chosen(k)
  BY SameBlock DEF Next
<1>2. /\ TypeOK /\ stage = "shrinking" /\ steps < MaxSteps /\ given \in Givens /\ report = "none"
  BY DEF IInv, TypeOK, StageOK, Take, Shrinking
<1>3. /\ Run(Attempt(inputs, given, candidate), TRUE)
      /\ inputs' = Attempt(inputs, given, candidate)
      /\ steps' = steps + 1 /\ given' = 1 /\ candidate' = 1
      /\ stage' = stage /\ iteration' = iteration /\ report' = report
  BY DEF Take, FromStart
<1>4. /\ fails' \in [DOMAIN fails' -> BOOLEAN]
      /\ Knows(fails', Attempt(inputs, given, candidate), TRUE)
      /\ \A y, f : Knows(fails, y, f) => Knows(fails', y, f)
  BY <1>2, <1>3, RunRemembers DEF TypeOK
<1>5. Len(givens) \in Nat /\ Givens = 1 .. Len(givens)
  BY <1>2, BlocksAreSequences DEF TypeOK, Givens
<1>6. TypeOK'
  BY <1>1, <1>2, <1>3, <1>4, <1>5, LimitsAreNumbers DEF TypeOK
<1>7. EarlierPassed'
  BY <1>1, <1>3, <1>4 DEF IInv, EarlierPassed, Did, Knows
<1>8. InputsFail'
  <2>1. Did(Chosen(iteration), TRUE)'
    BY <1>1, <1>2, <1>3, <1>4 DEF IInv, InputsFail, Did, Knows
  <2>2. Did(inputs, TRUE)'
    BY <1>3, <1>4 DEF Did, Knows
  <2> QED BY <2>1, <2>2 DEF InputsFail
<1>9. LeftPassed'
  BY <1>1, <1>3, <1>5 DEF LeftPassed, Behind
<1> QED BY <1>2, <1>3, <1>6, <1>7, <1>8, <1>9 DEF IInv, StageOK, Minimal

\* The candidate that passes is one more behind the cursor.
LEMMA LeaveIInv ==
  ASSUME IInv, Leave
  PROVE  IInv'
<1>1. givens' = givens /\ Givens' = Givens /\ \A k : Chosen(k)' = Chosen(k)
  BY SameBlock DEF Next
<1>2. /\ TypeOK /\ stage = "shrinking" /\ given \in Givens /\ report = "none"
  BY DEF IInv, TypeOK, StageOK, Leave, Shrinking
<1>3. /\ Run(Attempt(inputs, given, candidate), FALSE)
      /\ candidate' = candidate + 1 /\ inputs' = inputs /\ given' = given /\ steps' = steps
      /\ stage' = stage /\ iteration' = iteration /\ report' = report
  BY DEF Leave
<1>4. /\ fails' \in [DOMAIN fails' -> BOOLEAN]
      /\ Knows(fails', Attempt(inputs, given, candidate), FALSE)
      /\ \A y, f : Knows(fails, y, f) => Knows(fails', y, f)
  BY <1>2, <1>3, RunRemembers DEF TypeOK
<1>5. Len(givens) \in Nat /\ Givens = 1 .. Len(givens)
  BY <1>2, BlocksAreSequences DEF TypeOK, Givens
<1>6. TypeOK'
  BY <1>1, <1>2, <1>3, <1>4 DEF TypeOK
<1>7. EarlierPassed'
  BY <1>1, <1>3, <1>4 DEF IInv, EarlierPassed, Did, Knows
<1>8. InputsFail'
  BY <1>1, <1>2, <1>3, <1>4 DEF IInv, InputsFail, Did, Knows
<1>9. LeftPassed'
  <2> SUFFICES ASSUME NEW i \in Givens, NEW c \in 1 .. Len(Candidates(inputs[i])),
                      Behind(i, c)'
               PROVE  Knows(fails', Attempt(inputs, i, c), FALSE)
    BY <1>1, <1>3 DEF LeftPassed, Did, Knows
  <2>1. CASE Behind(i, c)
    BY <1>2, <1>4, <2>1 DEF IInv, LeftPassed, Did, Knows
  <2>2. CASE i = given /\ c = candidate
    BY <1>4, <2>2
  <2>3. candidate \in Nat /\ i \in Nat /\ c \in Nat
    BY <1>2, <1>5 DEF TypeOK
  <2>4. Behind(i, c) \/ (i = given /\ c = candidate)
    BY <1>3, <2>3 DEF Behind
  <2> QED BY <2>1, <2>2, <2>4
<1> QED BY <1>2, <1>3, <1>6, <1>7, <1>8, <1>9 DEF IInv, StageOK, Minimal

\* No candidate is left of this input: all of them are behind the cursor.
LEMMA NextGivenIInv ==
  ASSUME IInv, NextGiven
  PROVE  IInv'
<1>1. givens' = givens /\ Givens' = Givens /\ \A k : Chosen(k)' = Chosen(k)
  BY SameBlock DEF Next
<1>2. /\ TypeOK /\ stage = "shrinking" /\ given \in Givens /\ report = "none" /\ ~Untried
  BY DEF IInv, TypeOK, StageOK, NextGiven, Shrinking
<1>3. /\ candidate' = 1 /\ given' = given + 1
      /\ inputs' = inputs /\ fails' = fails /\ steps' = steps
      /\ stage' = stage /\ iteration' = iteration /\ report' = report
  BY DEF NextGiven
<1>4. Len(givens) \in Nat /\ Givens = 1 .. Len(givens)
  BY <1>2, BlocksAreSequences DEF TypeOK, Givens
<1>5. TypeOK'
  BY <1>1, <1>2, <1>3, <1>4 DEF TypeOK
<1>6. EarlierPassed' /\ InputsFail'
  BY <1>1, <1>3 DEF IInv, EarlierPassed, InputsFail, Did
<1>7. LeftPassed'
  <2> SUFFICES ASSUME NEW i \in Givens, NEW c \in 1 .. Len(Candidates(inputs[i])),
                      Behind(i, c)'
               PROVE  Did(Attempt(inputs, i, c), FALSE)
    BY <1>1, <1>3 DEF LeftPassed, Did
  <2>1. i \in Nat /\ c \in Int /\ c >= 1 /\ given \in Nat /\ candidate \in Nat
    BY <1>2, <1>4 DEF TypeOK
  <2>2. i <= given
    BY <1>3, <2>1 DEF Behind
  <2>3. CASE i = given
    <3>1. c < candidate
      BY <1>2, <2>1, <2>3 DEF Untried
    <3> QED BY <1>2, <2>3, <3>1 DEF IInv, LeftPassed, Behind
  <2>4. CASE i < given
    BY <1>2, <2>4 DEF IInv, LeftPassed, Behind
  <2>5. i = given \/ i < given
    BY <2>1, <2>2
  <2> QED BY <2>3, <2>4, <2>5
<1> QED BY <1>2, <1>3, <1>5, <1>6, <1>7 DEF IInv, StageOK, Minimal

\* With no input left, every candidate of every input is behind the cursor.
LEMMA ReportIInv ==
  ASSUME IInv, Report
  PROVE  IInv'
<1>1. givens' = givens /\ Givens' = Givens /\ \A k : Chosen(k)' = Chosen(k)
  BY SameBlock DEF Next
<1>2. /\ TypeOK /\ stage = "shrinking" /\ (steps = MaxSteps \/ given \notin Givens)
  BY DEF IInv, Report
<1>3. /\ stage' = "done" /\ report' = "failed" /\ inputs' = inputs /\ fails' = fails
      /\ steps' = steps /\ iteration' = iteration /\ given' = given /\ candidate' = candidate
  BY DEF Report, Finished
<1>4. Len(givens) \in Nat /\ Givens = 1 .. Len(givens)
  BY <1>2, BlocksAreSequences DEF TypeOK, Givens
<1>5. TypeOK'
  BY <1>1, <1>2, <1>3 DEF TypeOK
<1>6. EarlierPassed' /\ InputsFail'
  BY <1>1, <1>2, <1>3 DEF IInv, EarlierPassed, InputsFail, Did
<1>7. Minimal'
  <2> SUFFICES ASSUME steps < MaxSteps, NEW i \in Givens,
                      NEW c \in 1 .. Len(Candidates(inputs[i]))
               PROVE  Did(Attempt(inputs, i, c), FALSE)
    BY <1>1, <1>3 DEF Minimal, Did
  <2>1. given = Len(givens) + 1 /\ i < given
    BY <1>2, <1>4, LimitsAreNumbers DEF TypeOK
  <2> QED BY <1>2, <2>1 DEF IInv, LeftPassed, Behind
<1> QED BY <1>3, <1>5, <1>6, <1>7 DEF IInv, LeftPassed, StageOK

\* The invariant is inductive.
LEMMA NextIInv == IInv /\ [Next]_vars => IInv'
<1> SUFFICES ASSUME IInv, [Next]_vars PROVE IInv'
  OBVIOUS
<1>1. CASE Refuse \/ Pass \/ Panic
  BY <1>1, EndIInv
<1>2. CASE PassIteration \/ FailIteration
  BY <1>2, IterationIInv
<1>3. CASE Take
  BY <1>3, TakeIInv
<1>4. CASE Leave
  BY <1>4, LeaveIInv
<1>5. CASE NextGiven
  BY <1>5, NextGivenIInv
<1>6. CASE Report
  BY <1>6, ReportIInv
<1>7. CASE UNCHANGED vars
  <2>1. Givens' = Givens /\ \A k : Chosen(k)' = Chosen(k)
    BY <1>7, SameBlock
  <2> QED
    BY <1>7, <2>1 DEF vars, IInv, TypeOK, EarlierPassed, InputsFail, LeftPassed, Behind,
                      StageOK, Minimal, Did, Attempt
<1> QED BY <1>1, <1>2, <1>3, <1>4, <1>5, <1>6, <1>7 DEF Next

\* The invariant holds throughout every run of a block.
LEMMA InvariantHolds == Spec => []IInv
BY InitIInv, NextIInv, PTL DEF Spec

-----------------------------------------------------------------------------
(* The theorems                                                            *)

\* The runner's counters stay within PROPERTY_DEFAULT_ITERATIONS,
\* SHRINK_MAX_STEPS and the number of givens.
THEOREM PropertyBlocksTypeCorrect == Spec => []TypeOK
<1>1. IInv => TypeOK
  BY DEF IInv
<1> QED BY <1>1, InvariantHolds, PTL

\* The verdict of run_property_block is what the body did.
THEOREM PropertyBlocksVerdict == Spec => []Verdict
<1>1. IInv => Verdict
  BY DEF IInv, Verdict, EarlierPassed, InputsFail, StageOK
<1> QED BY <1>1, InvariantHolds, PTL

\* What shrink_inputs returns before SHRINK_MAX_STEPS has no simpler form that
\* the body fails on.
THEOREM PropertyBlocksMinimal == Spec => []Minimal
<1>1. IInv => Minimal
  BY DEF IInv
<1> QED BY <1>1, InvariantHolds, PTL
=============================================================================
