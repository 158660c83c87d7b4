-------------------------- MODULE OwnershipStates --------------------------
(***************************************************************************)
(* The ownership states of variables (crates/jett_typecheck/src/           *)
(* ownership.rs): what a use, a consumption and a rebinding make of them,  *)
(* and how the states at the ends of the branches of an if are merged.     *)
(***************************************************************************)
EXTENDS Integers, Sequences

\* Pending and Uninitialized exist in the code, but nothing assigns them.
OwnershipState == {"Owned", "Viewed", "Consumed"}

\* VarInfo: a copyable type is never consumed, only mutable names are rebound.
VarInfo == [state : OwnershipState, mutable : BOOLEAN, copyable : BOOLEAN]

\* What the states of the names of env say of reading or consuming one; a name
\* the checker does not know is left alone.
UseError(env, name) ==
  IF name \in DOMAIN env /\ env[name].state = "Consumed"
  THEN {<<"use after move", name>>} ELSE {}

ConsumeError(env, name) ==
  IF name \in DOMAIN env /\ ~env[name].copyable /\ env[name].state # "Owned"
  THEN {<<IF env[name].state = "Viewed" THEN "view consumed" ELSE "use after move", name>>}
  ELSE {}

\* consume_variable
Consume(env, name) ==
  IF name \in DOMAIN env /\ ~env[name].copyable /\ env[name].state = "Owned"
  THEN [env EXCEPT ![name].state = "Consumed"] ELSE env

\* check_assign: a mutable name is owned again.
Rebind(env, name) ==
  IF name \in DOMAIN env /\ env[name].mutable
  THEN [env EXCEPT ![name].state = "Owned"] ELSE env

\* check_var_decl, check_for: the name is new, or forgets what it was.
Bind(env, name, info) ==
  [n \in DOMAIN env \union {name} |-> IF n = name THEN info ELSE env[n]]

\* The states a name has at the ends of the branches that fall through.
StatesOf(branches, name) == {branches[i][name].state : i \in 1 .. Len(branches)}

FirstState(branches, name) == branches[1][name].state

\* Consumed in one branch is consumed; else the last branch decides.
MergedState(branches, name) ==
  IF "Consumed" \in StatesOf(branches, name) THEN "Consumed"
  ELSE branches[Len(branches)][name].state

\* merge_fallthrough_states: only names known before the branches survive.
Merge(baseline, branches) ==
  IF branches = <<>> THEN baseline
  ELSE [name \in DOMAIN baseline |->
          [branches[1][name] EXCEPT !.state = MergedState(branches, name)]]
=============================================================================
