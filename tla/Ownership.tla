----------------------------- MODULE Ownership -----------------------------
(***************************************************************************)
(* The ownership checker (crates/jett_typecheck/src/ownership.rs) on the   *)
(* body of a function, next to the executions of that body.                *)
(*                                                                         *)
(* A body is a sequence of statements and a statement a record: what       *)
(* matters of it is which name it uses, consumes, rebinds or declares, and *)
(* which blocks it holds.  Check walks it once, as the code does, with one *)
(* state per name.  Runs walks it with the set of the states that its      *)
(* executions can be in.                                                   *)
(***************************************************************************)
EXTENDS OwnershipStates, FiniteSets

CONSTANTS Programs,  \* bodies
          Params,    \* the names a body starts with, and their VarInfo
          NoBlock    \* the else of an if that has none

VARIABLES body,      \* the body being checked
          phase,     \* "parsed", then "checked"
          errors,    \* the checker's diagnostics
          after,     \* the states the checker ends with
          misuses    \* what the executions of the body do wrong

vars == <<body, phase, errors, after, misuses>>

-----------------------------------------------------------------------------
(* The checker                                                             *)

AlwaysFallsThrough(block) == TRUE

RECURSIVE FallsThrough(_)
\* stmt_definitely_exits
Exits(stmt) ==
  \/ stmt.op = "return"
  \/ /\ stmt.op = "if"
     /\ stmt.otherwise # NoBlock
     /\ ~FallsThrough(stmt.otherwise)
     /\ \A i \in 1 .. Len(stmt.branches) : ~FallsThrough(stmt.branches[i].block)
\* block_can_fall_through
FallsThrough(block) == \A i \in 1 .. Len(block) : ~Exits(block[i])

Result(env, errs) == [env |-> env, errs |-> errs]
Adding(result, errs) == Result(result.env, errs \union result.errs)

\* An expression: nothing, a name read or viewed, or a call that is given one.
CheckExpr(expr, env) ==
  CASE expr.op = "use"     -> Result(env, UseError(env, expr.name))
    [] expr.op = "consume" -> Result(Consume(env, expr.name), ConsumeError(env, expr.name))
    [] expr.op = "skip"    -> Result(env, {})

RECURSIVE CheckBlock(_, _), CheckBranches(_, _, _)

\* check_if, from its i-th condition: the states at the ends of the branches
\* that fall through, and the state its conditions leave.
CheckBranches(stmt, i, env) ==
  IF i > Len(stmt.branches)
  THEN LET other == IF stmt.otherwise = NoBlock THEN Result(env, {})
                    ELSE CheckBlock(stmt.otherwise, env)
       IN  [env |-> env, errs |-> other.errs,
            ends |-> IF stmt.otherwise = NoBlock \/ FallsThrough(stmt.otherwise)
                     THEN <<other.env>> ELSE <<>>]
  ELSE LET branch == stmt.branches[i]
           cond == CheckExpr(branch.cond, env)
           end == CheckBlock(branch.block, cond.env)
           rest == CheckBranches(stmt, i + 1, cond.env)
       IN  [env |-> rest.env, errs |-> cond.errs \union end.errs \union rest.errs,
            ends |-> (IF FallsThrough(branch.block) THEN <<end.env>> ELSE <<>>) \o rest.ends]

\* The variable of a for loop has no type here, and counts as copyable.
LoopVariable(stmt) ==
  [state |-> IF stmt.view THEN "Viewed" ELSE "Owned", mutable |-> FALSE, copyable |-> TRUE]

\* check_match: an arm starts with what the arm before it leaves.
ArmStart(first, env) == first.env

CheckStmt(stmt, env) ==
  CASE stmt.op \in {"use", "consume", "skip"} -> CheckExpr(stmt, env)
    [] stmt.op = "rebind" -> Result(Rebind(env, stmt.name), {})
    [] stmt.op = "declare" -> Result(Bind(env, stmt.name, stmt.info), {})
    [] stmt.op \in {"return", "break"} -> Result(env, {})
    [] stmt.op = "if" ->
         LET result == CheckBranches(stmt, 1, env)
         IN  Result(Merge(result.env, result.ends), result.errs)
    [] stmt.op = "while" ->
         LET cond == CheckExpr(stmt.cond, env)
         IN  Adding(CheckBlock(stmt.block, cond.env), cond.errs)
    [] stmt.op = "for" ->
         LET iterable == CheckExpr([op |-> IF stmt.view THEN "use" ELSE "consume",
                                    name |-> stmt.name], env)
         IN  Adding(CheckBlock(stmt.block,
                               Bind(iterable.env, stmt.variable, LoopVariable(stmt))),
                    iterable.errs)
    [] stmt.op = "match" ->
         LET first == CheckBlock(stmt.arms[1], env)
         IN  Adding(CheckBlock(stmt.arms[2], ArmStart(first, env)), first.errs)
    [] stmt.op = "handle" ->
         LET target == CheckExpr(stmt.target, env)
         IN  Adding(CheckBlock(stmt.block, target.env), target.errs)
    [] stmt.op = "inline" -> CheckBlock(stmt.block, env)

\* check_block stops after a statement that definitely exits.
CheckBlock(block, env) ==
  IF block = <<>> THEN Result(env, {})
  ELSE LET first == CheckStmt(Head(block), env)
       IN  IF Exits(Head(block)) THEN first
           ELSE Adding(CheckBlock(Tail(block), first.env), first.errs)

-----------------------------------------------------------------------------
(* The executions                                                          *)

\* ends, broke: the states of the executions that reach the end, or a break.
Outcome(ends, broke, errs) == [ends |-> ends, broke |-> broke, errs |-> errs]

RunExpr(expr, envs) ==
  LET results == {CheckExpr(expr, env) : env \in envs}
  IN  Outcome({r.env : r \in results}, {}, UNION {r.errs : r \in results})

RECURSIVE RunBlock(_, _), RunBranches(_, _, _), RunLoop(_, _)

Both(a, b) == Outcome(a.ends \union b.ends, a.broke \union b.broke, a.errs \union b.errs)
Then(a, b) == Outcome(b.ends, a.broke \union b.broke, a.errs \union b.errs)

RunBranches(stmt, i, envs) ==
  IF i > Len(stmt.branches)
  THEN IF stmt.otherwise = NoBlock THEN Outcome(envs, {}, {})
       ELSE RunBlock(stmt.otherwise, envs)
  ELSE LET cond == RunExpr(stmt.branches[i].cond, envs)
       IN  Then(cond, Both(RunBlock(stmt.branches[i].block, cond.ends),
                           RunBranches(stmt, i + 1, cond.ends)))

\* The states in which the loop can end, from the states in which it can be
\* before a turn; a turn adds states to those until there are no new ones.
RunLoop(stmt, envs) ==
  LET cond == RunExpr(stmt.cond, envs)
      turn == RunBlock(stmt.block, cond.ends)
      reached == envs \union turn.ends
  IN  IF reached = envs
      THEN Outcome(cond.ends \union turn.broke, {}, cond.errs \union turn.errs)
      ELSE RunLoop(stmt, reached)

RunStmt(stmt, envs) ==
  CASE stmt.op \in {"use", "consume", "skip"} -> RunExpr(stmt, envs)
    [] stmt.op = "rebind" -> Outcome({Rebind(env, stmt.name) : env \in envs}, {}, {})
    [] stmt.op = "return" -> Outcome({}, {}, {})
    [] stmt.op = "break" -> Outcome({}, envs, {})
    [] stmt.op = "if" -> RunBranches(stmt, 1, envs)
    [] stmt.op = "while" -> RunLoop(stmt, envs)
    [] stmt.op = "for" ->
         LET iterable == RunExpr([op |-> IF stmt.view THEN "use" ELSE "consume",
                                  name |-> stmt.name], envs)
             item == [LoopVariable(stmt) EXCEPT !.copyable = FALSE]
             turns == [cond |-> [op |-> "skip"],
                       block |-> <<[op |-> "declare", name |-> stmt.variable, info |-> item]>>
                                 \o stmt.block]
         IN  Then(iterable, RunLoop(turns, iterable.ends))
    [] stmt.op = "declare" ->
         Outcome({Bind(env, stmt.name, stmt.info) : env \in envs}, {}, {})
    [] stmt.op = "match" -> Both(RunBlock(stmt.arms[1], envs), RunBlock(stmt.arms[2], envs))
    [] stmt.op = "handle" ->
         LET target == RunExpr(stmt.target, envs)
         IN  Then(target, Both(Outcome(target.ends, {}, {}), RunBlock(stmt.block, target.ends)))
    [] stmt.op = "inline" -> Outcome(envs, {}, {})

RunBlock(block, envs) ==
  IF block = <<>> THEN Outcome(envs, {}, {})
  ELSE LET first == RunStmt(Head(block), envs)
       IN  Then(first, RunBlock(Tail(block), first.ends))

-----------------------------------------------------------------------------
Init ==
  /\ body \in Programs
  /\ phase = "parsed"
  /\ errors = {}
  /\ after = Params
  /\ misuses = {}

\* check_function
Check ==
  /\ phase = "parsed"
  /\ phase' = "checked"
  /\ LET result == CheckBlock(body, Params)
     IN  errors' = result.errs /\ after' = result.env
  /\ misuses' = RunBlock(body, {Params}).errs
  /\ UNCHANGED body

Next == Check

Spec == Init /\ [][Next]_vars

-----------------------------------------------------------------------------
(* Properties                                                              *)

Checked == phase = "checked"

TypeOK ==
  /\ phase \in {"parsed", "checked"}
  /\ DOMAIN Params \subseteq DOMAIN after /\ \A name \in DOMAIN after : after[name] \in VarInfo

BlocksOf(stmt) ==
  CASE stmt.op = "if" -> ({stmt.otherwise} \ {NoBlock})
                           \union {stmt.branches[i].block : i \in 1 .. Len(stmt.branches)}
    [] stmt.op = "match" -> {stmt.arms[1], stmt.arms[2]}
    [] stmt.op \in {"while", "for", "handle", "inline"} -> {stmt.block}
    [] OTHER -> {}

RECURSIVE Within(_, _)
\* The statements of these kinds in a block and in the blocks it holds.
Within(block, ops) ==
  {block[i] : i \in {j \in 1 .. Len(block) : block[j].op \in ops}}
    \union UNION {UNION {Within(b, ops) : b \in BlocksOf(block[i])} : i \in 1 .. Len(block)}

\* Statements whose blocks the checker takes one after the other on one state,
\* although one of them, or none, is executed.
Alternatives == Within(body, {"match", "handle", "inline"})

\* Where the checker follows the text and not the executions: a loop's body is
\* checked for one turn, an alternative may rebind what another path has lost,
\* and the last branch of an if decides whether a mutable view is still a view.
Blind ==
  \/ Within(body, {"while", "for"}) # {}
  \/ \E stmt \in Alternatives : \E b \in BlocksOf(stmt) : Within(b, {"rebind"}) # {}
  \/ \E name \in DOMAIN Params : Params[name].state = "Viewed" /\ Params[name].mutable

\* What an execution can do wrong is reported: except where the checker is
\* blind, no body is accepted in which a value is used after it is gone, or a
\* view is consumed, on some path.
Sound == TypeOK /\ (Checked /\ ~Blind => misuses \subseteq errors)

\* Where it takes as reached what no execution reaches: the end of an
\* alternative that was not chosen, what follows a break, and what follows a
\* loop from the end of a turn that always returns.
Overcautious ==
  \/ Alternatives # {}
  \/ Within(body, {"break"}) # {}
  \/ \E loop \in Within(body, {"while", "for"}) : ~FallsThrough(loop.block)

\* What is reported is real: except there, some execution does it.
Precise == Checked /\ ~Overcautious => errors \subseteq misuses

\* docs/architecture.md:480: "Using a `Consumed` variable is a compile error."
ConsumedUseRejected == Checked => misuses \subseteq errors
=============================================================================
