---------------------------- MODULE Interpreter ----------------------------
(***************************************************************************)
(* The control of the tree-walking interpreter                             *)
(* (crates/jett_comptime/src/interpreter.rs) and of the runner of verify   *)
(* and property blocks (verify.rs): the scope stack, what every construct  *)
(* pushes and pops, and how values, signals and errors leave it.           *)
(*                                                                         *)
(* The program is not fixed: in each state the code may be any construct   *)
(* that its position allows, so a behaviour is a run of some program.  A   *)
(* construct being executed is a frame of `frames`, the Rust call stack;   *)
(* each pushes one scope.  A scope is the set of names it binds: the       *)
(* variables, their types and the namespace aliases are three stacks that  *)
(* the code pushes and pops together.                                      *)
(***************************************************************************)
EXTENDS Integers, Sequences, FiniteSets

CONSTANTS Names,       \* variables of the program
          Namespaces,  \* namespaces that hold its code
          Global,      \* current_namespace = None
          MaxFrames,   \* bound on nested constructs
          MaxScopes    \* bound on the scope stack

ASSUME GlobalAssumption == Global \notin Namespaces
ASSUME BoundsAssumption == MaxFrames \in Nat /\ MaxScopes \in Nat

VARIABLES scopes,     \* self.scopes: the global scope, then one per push
          frames,     \* the constructs being executed, outermost first
          flow,       \* "run", "error" or a signal on its way out
          namespace,  \* self.current_namespace
          closure,    \* the last inline function made: captures, home
          result,     \* of the last block the runner executed
          asserted    \* an assertion of that block has failed

vars == <<scopes, frames, flow, namespace, closure, result, asserted>>

\* The frames whose statements are executed one by one.
Code == {"verify", "block", "handle", "handler"}
\* The frames that evaluate an expression of a declaration.
Declared == {"refinement", "spawn"}
\* The frames around a body: it is a block of its own, entered once.
Around == {"given", "turn", "list turn", "arm", "function", "params", "captures"}
Kinds == Code \union Declared \union Around

Signals == {"return", "break", "continue", "default", "respond"}

\* The frames where the lexical scope of a body starts.
Boundary == {"function", "handler", "captures", "refinement", "spawn"}

\* `own` (the names the construct declares) and `home` (the namespace its code
\* is written in) are the program's, not the interpreter's.
Frame(kind, own, swallow, home) ==
  [kind |-> kind, own |-> own, swallow |-> swallow, home |-> home,
   at |-> Len(scopes) + 1, saved |-> namespace, entered |-> FALSE]

Top == frames[Len(frames)]
Below == SubSeq(frames, 1, Len(frames) - 1)
TwoPopped == SubSeq(scopes, 1, Len(scopes) - 2)
PoppedScopes == SubSeq(scopes, 1, Len(scopes) - 1)

\* The frames of the innermost body, and the names its code can use: the
\* lexical scope of the resolver, which rejects shadowing.
Body(fs) == {i \in 1 .. Len(fs) :
               \A j \in (i + 1) .. Len(fs) : fs[j].kind \notin Boundary}
VisibleIn(fs) == UNION {fs[i].own : i \in Body(fs)}
Visible == VisibleIn(frames)
Home == Top.home

Init ==
  /\ scopes = <<{}>>
  /\ frames = <<>>
  /\ flow = "run"
  /\ namespace = Global
  /\ closure = [names |-> {}, own |-> {}, home |-> Global]
  /\ result = "none"
  /\ asserted = FALSE

-----------------------------------------------------------------------------
(* Entering a construct.  The bounds stop new constructs, never the body of *)
(* one that has begun.                                                     *)

Room(n) == Len(frames) + n <= MaxFrames /\ Len(scopes) + n <= MaxScopes

Push(frame) ==
  /\ Room(1)
  /\ scopes' = Append(scopes, frame.own)
  /\ frames' = Append(frames, frame)

Idle == frames = <<>>
InCode == flow = "run" /\ ~Idle /\ Top.kind \in Code
\* Where an expression may be evaluated; only in Code can it be a statement.
InExpression == flow = "run" /\ ~Idle /\ Top.kind \in Code \union Declared
Statement(swallow) == swallow => Top.kind \in Code

\* exec_block_in_namespace, of a verify block.
StartVerify ==
  /\ flow = "run"
  /\ Idle
  /\ \E home \in Namespaces \union {Global} :
       /\ Push(Frame("verify", {}, FALSE, home))
       /\ namespace' = home
  /\ result' = "running"
  /\ asserted' = FALSE
  /\ UNCHANGED <<flow, closure>>

\* One iteration of run_property_block: a scope with the given values.
StartProperty ==
  /\ flow = "run"
  /\ Idle
  /\ \E own \in SUBSET Names, home \in Namespaces \union {Global} :
       Push(Frame("given", own, FALSE, home))
  /\ result' = "running"
  /\ asserted' = FALSE
  /\ UNCHANGED <<flow, namespace, closure>>

\* exec_block_in_namespace, of the property's body.
RunProperty ==
  /\ flow = "run"
  /\ ~Idle
  /\ Top.kind = "given"
  /\ ~Top.entered
  /\ scopes' = Append(scopes, {})
  /\ frames' = Append([frames EXCEPT ![Len(frames)].entered = TRUE],
                      Frame("verify", {}, FALSE, Home))
  /\ namespace' = Home
  /\ UNCHANGED <<flow, closure, result, asserted>>

\* call_function_in_namespace: main, and functions run as verify blocks.
StartFunction ==
  /\ flow = "run"
  /\ Idle
  /\ \E own \in SUBSET Names, home \in Namespaces \union {Global} :
       /\ Push(Frame("function", own, FALSE, home))
       /\ namespace' = home
  /\ result' = "running"
  /\ asserted' = FALSE
  /\ UNCHANGED <<flow, closure>>

\* The body of a loop turn, a match arm, a function or an inline function.
EnterBody ==
  /\ flow = "run"
  /\ ~Idle
  /\ Top.kind \in Around \ {"given", "captures"}
  /\ ~Top.entered
  /\ scopes' = Append(scopes, {})
  /\ frames' = Append([frames EXCEPT ![Len(frames)].entered = TRUE],
                      Frame("block", {}, FALSE, Home))
  /\ UNCHANGED <<flow, namespace, closure, result, asserted>>

\* if, a match arm without bindings, or comptime type.
EnterBlock ==
  /\ InCode
  /\ Push(Frame("block", {}, FALSE, Home))
  /\ UNCHANGED <<flow, namespace, closure, result, asserted>>

\* A turn of for or while, or a match arm with bindings.  The names it binds
\* shadow nothing: the resolver rejects that.
EnterTurn ==
  /\ InCode
  /\ \E kind \in {"turn", "list turn", "arm"}, own \in SUBSET (Names \ Visible) :
       Push(Frame(kind, own, FALSE, Home))
  /\ UNCHANGED <<flow, namespace, closure, result, asserted>>

\* handle, once its target is a failure: exec_handle_block.
EnterHandle ==
  /\ InExpression
  /\ \E own \in SUBSET (Names \ Visible), swallow \in BOOLEAN :
       /\ Statement(swallow)
       /\ Push(Frame("handle", own, swallow, Home))
  /\ UNCHANGED <<flow, namespace, closure, result, asserted>>

\* call_user_function_with_type_args, its arguments evaluated.
EnterFunction ==
  /\ InExpression
  /\ \E own \in SUBSET Names, swallow \in BOOLEAN, home \in Namespaces \union {Global} :
       /\ Statement(swallow)
       /\ Push(Frame("function", own, swallow, home))
       /\ namespace' = home
  /\ UNCHANGED <<flow, closure, result, asserted>>

\* An inline function captures every binding on the stack, not only those its
\* code can name.
MakeClosure ==
  /\ InExpression
  /\ closure' = [names |-> UNION {scopes[i] : i \in 1 .. Len(scopes)},
                 own |-> Visible, home |-> Home]
  /\ UNCHANGED <<scopes, frames, flow, namespace, result, asserted>>

\* call_fn_value: a scope of captures, a scope of parameters.
EnterClosure ==
  /\ InExpression
  /\ Room(2)
  /\ \E own \in SUBSET (Names \ closure.own), swallow \in BOOLEAN :
       /\ Statement(swallow)
       /\ scopes' = scopes \o <<closure.names, own>>
       /\ frames' = frames \o
            <<[Frame("captures", closure.own, swallow, closure.home)
                 EXCEPT !.entered = TRUE],
              [Frame("params", own, FALSE, closure.home)
                 EXCEPT !.at = Len(scopes) + 2]>>
  /\ UNCHANGED <<flow, namespace, closure, result, asserted>>

\* check_refinement: of a declaration, whose handle block takes the failure if
\* it has one (swallow), or of a function's arguments and its return value.
EnterRefinement ==
  /\ flow = "run"
  /\ ~Idle
  /\ \E own \in SUBSET Names, swallow \in BOOLEAN, home \in Namespaces \union {Global} :
       /\ Top.kind \in Code \/ (Top.kind = "function" /\ ~swallow)
       /\ Push(Frame("refinement", own, swallow, home))
  /\ UNCHANGED <<flow, namespace, closure, result, asserted>>

\* spawn evaluates the actor's initial state; a message runs a handler.
EnterActor ==
  /\ InExpression
  /\ \E kind \in {"spawn", "handler"}, own \in SUBSET Names, swallow \in BOOLEAN,
        home \in Namespaces \union {Global} :
       /\ Statement(swallow)
       /\ Push(Frame(kind, own, swallow, home))
  /\ UNCHANGED <<flow, namespace, closure, result, asserted>>

-----------------------------------------------------------------------------
(* Statements                                                              *)

\* get_variable and assign_variable: the nearest scope of the stack that has x.
ScopeOf(x) ==
  CHOOSE i \in 0 .. Len(scopes) :
    /\ i = 0 \/ x \in scopes[i]
    /\ \A j \in (i + 1) .. Len(scopes) : x \notin scopes[j]

\* set_variable writes to the last scope of the stack.
Declare ==
  /\ InCode
  /\ \E x \in Names \ Visible :
       /\ frames' = [frames EXCEPT ![Len(frames)].own = @ \union {x}]
       /\ scopes' = [scopes EXCEPT ![Len(scopes)] = @ \union {x}]
  /\ UNCHANGED <<flow, namespace, closure, result, asserted>>

\* An error of the statement or expression being executed.  That of a whole
\* expression statement is not one: it is dropped where it arises.
Fail ==
  /\ flow = "run"
  /\ ~Idle
  /\ Top.kind \in Code \union Declared \union {"function"}
  /\ flow' = "error"
  /\ UNCHANGED <<scopes, frames, namespace, closure, result, asserted>>

\* assert, which the checker accepts only inside verify and property blocks.
FailedAssert ==
  /\ InCode
  /\ \A i \in 1 .. Len(frames) : frames[i].kind \notin Boundary
  /\ flow' = "error"
  /\ asserted' = TRUE
  /\ UNCHANGED <<scopes, frames, namespace, closure, result>>

Within(kind) == \E i \in Body(frames) : frames[i].kind = kind

\* return, break, continue; default and respond where the checker allows them.
Signal ==
  /\ InCode
  /\ flow' \in Signals
  /\ flow' = "default" => Within("handle")
  /\ flow' = "respond" => Within("handler")
  /\ UNCHANGED <<scopes, frames, namespace, closure, result, asserted>>

-----------------------------------------------------------------------------
(* Leaving a construct                                                     *)

\* The constructs whose pop_scope the `?` of an error does not skip.
PopsOnError == {"given", "list turn", "arm", "function", "refinement"}

KeepNamespace == IF flow = "error" THEN namespace
                 ELSE IF Top.kind \in {"function", "verify"} THEN Top.saved ELSE namespace
\* Functions and the runner save the namespace, and restore it on every path.
RestoredNamespace ==
  IF Top.kind \in {"function", "verify"} THEN Top.saved ELSE namespace

\* What the caller of the frame on top sees when it ends in an error: an
\* expression statement drops it, the runner reports it.
EmergeToCaller ==
  /\ flow' = IF Top.swallow THEN "run" ELSE "error"
  /\ result' = IF Len(frames) = 1 THEN "error" ELSE result
Emerge ==
  /\ flow' = IF Top.swallow \/ Len(frames) = 1 THEN "run" ELSE "error"
  /\ result' = IF Len(frames) = 1 THEN "error" ELSE result

Completed == result' = IF Len(frames) = 1 THEN "ok" ELSE result

Pop ==
  /\ scopes' = PoppedScopes
  /\ frames' = Below
  /\ namespace' = RestoredNamespace
  /\ UNCHANGED <<closure, asserted>>

\* The body, the constraint or the initializers have run to their end.
Leave ==
  /\ flow = "run"
  /\ ~Idle
  /\ \/ Top.kind \in {"block", "verify", "handler", "spawn", "refinement"}
     \/ Top.kind \in Around \ {"given"} /\ Top.entered
  /\ Pop
  /\ flow' = "run"
  /\ Completed

\* A property's scope is popped whether its body failed or not.
LeaveGiven ==
  /\ flow \in {"run", "error"}
  /\ ~Idle
  /\ Top.kind = "given"
  /\ Top.entered
  /\ Pop
  /\ flow' = "run"
  /\ result' = IF flow = "error" THEN "error" ELSE "ok"

\* A handle block must end with return or default.
HandleFallsThrough ==
  /\ flow = "run"
  /\ ~Idle
  /\ Top.kind = "handle"
  /\ Pop
  /\ Emerge

TruncatedTooFar == SubSeq(scopes, 1, Top.at - 2)
LeakedScopes == IF Top.kind \in PopsOnError THEN PoppedScopes ELSE scopes

\* An error leaves the frame on top.
Unwind ==
  /\ flow = "error"
  /\ Top.kind # "given"
  /\ ~(Top.kind = "refinement" /\ Top.swallow)
  /\ scopes' = LeakedScopes
  /\ frames' = Below
  /\ namespace' = RestoredNamespace
  /\ Emerge
  /\ UNCHANGED <<closure, asserted>>

\* finish_refinement_boundary: the declaration's handle block takes over.  A
\* signal of the constraint is an error, too.
RefinementHandled ==
  /\ flow \in Signals \union {"error"}
  /\ Top.kind = "refinement"
  /\ Top.swallow
  /\ \E own \in SUBSET (Names \ VisibleIn(Below)) :
       /\ scopes' = Append(PoppedScopes, own)
       /\ frames' = Append(Below, [Top EXCEPT !.kind = "handle", !.own = own,
                                              !.swallow = FALSE,
                                              !.at = Len(scopes),
                                              !.home = Below[Len(Below)].home])
  /\ flow' = "run"
  /\ UNCHANGED <<namespace, closure, result, asserted>>

PassUnpopped ==
  /\ flow \in Signals
  /\ \/ Top.kind \in {"block", "arm"}
     \/ Top.kind = "handle" /\ flow # "default"
     \/ Top.kind \in {"turn", "list turn"} /\ flow \notin {"break", "continue"}
  /\ frames' = Below
  /\ UNCHANGED <<scopes, flow, namespace, closure, result, asserted>>

\* A signal leaves a block, an arm, a handle or a loop and goes on.
PassSignal ==
  /\ flow \in Signals
  /\ \/ Top.kind \in {"block", "arm"}
     \/ Top.kind = "handle" /\ flow # "default"
     \/ Top.kind \in {"turn", "list turn"} /\ flow \notin {"break", "continue"}
  /\ Pop
  /\ UNCHANGED <<flow, result>>

\* A loop takes its break and continue, a handle its default, a call any signal
\* that ends its body.
TakeSignal ==
  /\ flow \in Signals
  /\ \/ Top.kind \in {"turn", "list turn"} /\ flow \in {"break", "continue"}
     \/ Top.kind = "handle" /\ flow = "default"
     \/ Top.kind \in {"function", "verify"} /\ flow # "default"
     \/ Top.kind \in {"params", "handler"}
  /\ Pop
  /\ flow' = "run"
  /\ Completed

\* Where a signal cannot go on it becomes an error: default out of a function
\* or a verify block, any signal out of a constraint, and a handle block's in
\* the arguments of a message or the value of respond.
RefuseSignal ==
  /\ flow \in Signals
  /\ \/ Top.kind \in {"function", "verify"} /\ flow = "default"
     \/ Top.kind = "refinement" /\ ~Top.swallow
     \/ Top.kind = "handle" /\ flow # "default"
  /\ Pop
  /\ Emerge

\* spawn returns the signal before it reaches its pop_scope.
SpawnSignal ==
  /\ flow \in Signals
  /\ Top.kind = "spawn"
  /\ frames' = Below
  /\ UNCHANGED <<scopes, flow, namespace, closure, result, asserted>>

-----------------------------------------------------------------------------
Starting == StartVerify \/ StartProperty \/ RunProperty \/ StartFunction
Entering == \/ EnterBody \/ EnterBlock \/ EnterTurn \/ EnterHandle
            \/ EnterFunction \/ EnterClosure \/ EnterRefinement \/ EnterActor
Executing == MakeClosure \/ Declare \/ Fail \/ FailedAssert \/ Signal
Leaving == \/ Leave \/ LeaveGiven \/ HandleFallsThrough \/ Unwind
           \/ RefinementHandled \/ PassSignal \/ TakeSignal \/ RefuseSignal
           \/ SpawnSignal

Next == Starting \/ Entering \/ Executing \/ Leaving

Spec == Init /\ [][Next]_vars

-----------------------------------------------------------------------------
(* Properties                                                              *)

Homes == Namespaces \union {Global}

FrameType == [kind : Kinds, own : SUBSET Names, swallow : BOOLEAN, home : Homes,
              at : Nat, saved : Homes, entered : BOOLEAN]

TypeOK ==
  /\ scopes \in Seq(SUBSET Names) /\ scopes # <<>>
  /\ frames \in Seq(FrameType)
  /\ flow \in Signals \union {"run", "error"}
  /\ namespace \in Homes
  /\ closure \in [names : SUBSET Names, own : SUBSET Names, home : Homes]
  /\ result \in {"none", "running", "ok", "error"}
  /\ asserted \in BOOLEAN

Live(fs, depth) ==
  /\ \A i \in 1 .. Len(fs) : fs[i].at \in 2 .. depth
  /\ \A i, j \in 1 .. Len(fs) : i < j => fs[i].at < fs[j].at

\* However errors and signals leave the constructs, and whatever was leaked
\* before, the scope of every construct being executed is still on the stack,
\* in order and above the global one: no pop takes another's scope away.
LiveScopes == Live(frames, Len(scopes))

Leaked == Len(scopes) - Len(frames) - 1

\* Only the `?` of an error, or a signal out of an actor's initial state, leaves
\* a scope behind; every other way out of a construct, break, continue, return
\* and default included, removes exactly what the construct pushed.
LeakOnlyOnFailure ==
  [][\/ Leaked' = Leaked
     \/ /\ Leaked' = Leaked + 1
        /\ \/ flow = "error" /\ Top.kind \notin PopsOnError
           \/ flow \in Signals /\ Top.kind = "spawn"]_vars

\* Where the program text says a visible name is bound.
OwnerOf(x) == frames[CHOOSE i \in Body(frames) : x \in frames[i].own].at

LookupsLexical ==
  flow = "run" /\ ~Idle => \A x \in Visible : ScopeOf(x) = OwnerOf(x)

\* Lookup searches the whole stack, callers included (dynamic scoping), yet
\* while nothing has leaked it finds the binding the program text means,
\* through any nest of calls, closures, handlers, constraints and loops.
LexicalUntilLeak == Leaked = 0 => LookupsLexical

\* current_namespace is that of the innermost function or runner block being
\* executed, on every path, and None when there is none.
Calls == {i \in 1 .. Len(frames) : frames[i].kind \in {"function", "verify"}}
NamespaceOfCall ==
  namespace = IF Calls = {} THEN Global
              ELSE frames[CHOOSE i \in Calls : \A j \in Calls : j <= i].home

\* A name means what it means where it is written: it is looked up in the scopes
\* around it, and in the namespace of the function it is written in.
NamesLexical == LexicalUntilLeak /\ NamespaceOfCall


\* The runner gets a verdict for every block: no signal and no error escapes
\* it, whatever the nest it comes from.
VerdictAtRest == Idle => flow = "run" /\ result # "running"

-----------------------------------------------------------------------------
(* What the documents say                                                  *)

\* docs/design.md:2456: "If any assertion in a `verify` block fails, the program
\* does not compile."
FailedAssertReported == Idle /\ asserted => result = "error"
=============================================================================
