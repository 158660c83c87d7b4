--------------------------- MODULE PropertyBlocks ---------------------------
(***************************************************************************)
(* The runner of property blocks (run_property_block and shrink_inputs of  *)
(* crates/jett_comptime/src/verify.rs): it executes the body on inputs     *)
(* taken from the pools of values of the given types, and shrinks the      *)
(* first inputs on which the body fails to a counterexample.               *)
(*                                                                         *)
(* The body is any function of its inputs that ends: what it does with     *)
(* inputs is chosen when it first runs on them, and remembered.            *)
(***************************************************************************)
EXTENDS Integers, Sequences

CONSTANTS Blocks,         \* the types given to each block: sequences of types
          Pool(_),        \* the values generated for a type
          Candidates(_),  \* the simpler values a value shrinks to, in order
          Overflows(_),   \* whether computing them negates the least integer
          Iterations,     \* PROPERTY_DEFAULT_ITERATIONS
          MaxSteps        \* SHRINK_MAX_STEPS

\* PROPERTY_DEFAULT_ITERATIONS and SHRINK_MAX_STEPS are 100 and 50 in the code.
ASSUME LimitsAreNumbers == Iterations \in Nat /\ MaxSteps \in Nat
ASSUME BlocksAreSequences ==
  \A block \in Blocks : Len(block) \in Nat /\ DOMAIN block = 1 .. Len(block)

VARIABLES givens,     \* the types of the block that is run
          stage,      \* "running", "shrinking", "done" or "panicked"
          iteration,
          inputs,     \* the failing inputs that are shrunk
          given,      \* which of them is shrunk now
          candidate,  \* which of its candidates is next
          steps,      \* how often a candidate was taken
          fails,      \* what the body did with the inputs it was run on
          report

vars == <<givens, stage, iteration, inputs, given, candidate, steps, fails, report>>

-----------------------------------------------------------------------------
Givens == DOMAIN givens

\* The inputs of an iteration: every pool is cycled through at the same pace.
Chosen(k) ==
  [i \in Givens |-> Pool(givens[i])[(k % Len(Pool(givens[i]))) + 1]]

\* The body is executed on the inputs given, and fails or not.
Run(given_inputs, failed) ==
  /\ given_inputs \in DOMAIN fails => fails[given_inputs] = failed
  /\ fails' = [x \in DOMAIN fails \union {given_inputs} |->
                 IF x = given_inputs THEN failed ELSE fails[x]]

Finished(kind) == stage' = "done" /\ report' = kind

Init ==
  /\ givens \in Blocks
  /\ stage = "running"
  /\ iteration = 0
  /\ inputs = <<>>
  /\ given = 1
  /\ candidate = 1
  /\ steps = 0
  /\ fails = [x \in {} |-> FALSE]
  /\ report = "none"

Unsupported == \E i \in Givens : Pool(givens[i]) = <<>>

\* No values can be generated for a given.
Refuse ==
  /\ stage = "running"
  /\ Unsupported
  /\ Finished("unsupported")
  /\ UNCHANGED <<givens, iteration, inputs, given, candidate, steps, fails>>

PassIteration ==
  /\ stage = "running" /\ ~Unsupported
  /\ iteration < Iterations
  /\ Run(Chosen(iteration), FALSE)
  /\ iteration' = iteration + 1
  /\ UNCHANGED <<givens, stage, inputs, given, candidate, steps, report>>

FailIteration ==
  /\ stage = "running" /\ ~Unsupported
  /\ iteration < Iterations
  /\ Run(Chosen(iteration), TRUE)
  /\ stage' = "shrinking"
  /\ inputs' = Chosen(iteration)
  /\ UNCHANGED <<givens, iteration, given, candidate, steps, report>>

Pass ==
  /\ stage = "running" /\ ~Unsupported
  /\ iteration = Iterations
  /\ Finished("passed")
  /\ UNCHANGED <<givens, iteration, inputs, given, candidate, steps, fails>>

\* A loop that only ends when nothing is left to try.
Unlimited == stage = "shrinking" /\ given \in Givens

Shrinking == stage = "shrinking" /\ steps < MaxSteps /\ given \in Givens

\* The candidates of a value are computed before the first of them is tried.
\* Negating the least integer panics in a build with overflow checks, and
\* gives the least integer again in one without: both are possible.
Panic ==
  /\ Shrinking
  /\ candidate = 1
  /\ Overflows(inputs[given])
  /\ stage' = "panicked"
  /\ UNCHANGED <<givens, iteration, inputs, given, candidate, steps, fails, report>>

Untried == candidate .. Len(Candidates(inputs[given])) # {}

Attempt(values, i, c) == [values EXCEPT ![i] = Candidates(values[i])[c]]

OnFrom(i, c) == given' = i /\ candidate' = c + 1
\* A step begins with the first candidate of the first input.
FromStart(i, c) == given' = 1 /\ candidate' = 1

\* The candidate still fails: it is shrunk further.
Take ==
  /\ Shrinking
  /\ Untried
  /\ Run(Attempt(inputs, given, candidate), TRUE)
  /\ inputs' = Attempt(inputs, given, candidate)
  /\ steps' = steps + 1
  /\ FromStart(given, candidate)
  /\ UNCHANGED <<givens, stage, iteration, report>>

\* The last candidate is reported, whatever the body did with it.
LeaveUnseen ==
  /\ Shrinking
  /\ Untried
  /\ Run(Attempt(inputs, given, candidate), FALSE)
  /\ inputs' = Attempt(inputs, given, candidate)
  /\ candidate' = candidate + 1
  /\ UNCHANGED <<givens, stage, iteration, given, steps, report>>

\* The candidate passes.
Leave ==
  /\ Shrinking
  /\ Untried
  /\ Run(Attempt(inputs, given, candidate), FALSE)
  /\ candidate' = candidate + 1
  /\ UNCHANGED <<givens, stage, iteration, inputs, given, steps, report>>

NextGiven ==
  /\ Shrinking
  /\ ~Untried
  /\ given' = given + 1
  /\ candidate' = 1
  /\ UNCHANGED <<givens, stage, iteration, inputs, steps, fails, report>>

\* Only an input that cannot be simplified is reported.
ReportMinimal ==
  /\ stage = "shrinking"
  /\ given \notin Givens
  /\ Finished("failed")
  /\ UNCHANGED <<givens, iteration, inputs, given, candidate, steps, fails>>

\* No candidate fails, or the steps are used up.
Report ==
  /\ stage = "shrinking"
  /\ steps = MaxSteps \/ given \notin Givens
  /\ Finished("failed")
  /\ UNCHANGED <<givens, iteration, inputs, given, candidate, steps, fails>>

Next ==
  \/ Refuse \/ PassIteration \/ FailIteration \/ Pass
  \/ Panic \/ Take \/ Leave \/ NextGiven \/ Report

\* The runner is a loop of one thread, and the bodies it executes end.
Spec == Init /\ [][Next]_vars /\ WF_vars(Next)

-----------------------------------------------------------------------------
(* Properties                                                              *)

TypeOK ==
  /\ givens \in Blocks
  /\ stage \in {"running", "shrinking", "done", "panicked"}
  /\ iteration \in 0 .. Iterations
  /\ steps \in 0 .. MaxSteps
  /\ given \in 1 .. Len(givens) + 1 /\ candidate \in Nat \ {0}
  /\ fails \in [DOMAIN fails -> BOOLEAN]
  /\ report \in {"none", "unsupported", "passed", "failed"}

Did(x, failed) == x \in DOMAIN fails /\ fails[x] = failed

\* The verdict is what the body did: it passed on the inputs of all iterations,
\* or failed on those of one, passed on those of all before it, and fails on
\* the counterexample that is reported.
Verdict ==
  /\ report = "passed" => iteration = Iterations
  /\ report \in {"passed", "failed"} => \A k \in 0 .. (iteration - 1) : Did(Chosen(k), FALSE)
  /\ report = "failed" => Did(Chosen(iteration), TRUE) /\ Did(inputs, TRUE)

\* A counterexample reported before the steps are used up cannot be simplified:
\* the body was run on, and passes, every candidate of every input.
Minimal ==
  report = "failed" /\ steps < MaxSteps =>
    \A i \in Givens : \A c \in 1 .. Len(Candidates(inputs[i])) :
      Did(Attempt(inputs, i, c), FALSE)

\* Every block ends: with a report, or in the panic of shrink_value.
Reports == <>(stage \in {"done", "panicked"})
=============================================================================
