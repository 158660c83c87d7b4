------------------------------- MODULE Actors -------------------------------
(***************************************************************************)
(* Actors as the interpreter runs them (eval_actor_message and the spawn   *)
(* expression of crates/jett_comptime/src/interpreter.rs).  A message runs *)
(* its handler at once, inside the sender: the fields of the actor are     *)
(* copied into a scope, the handler reads and assigns them by name like    *)
(* any variable, and the last scope of the stack is copied back.           *)
(*                                                                         *)
(* Every actor is a counter like that of docs/design.md:1850.  The program *)
(* is not fixed: its main function and its handlers send any messages, in  *)
(* any order, to any actor whose handle they were given.  A message is     *)
(* known by its number and a counter's value is the set of messages that   *)
(* have incremented it, so that a lost or misplaced increment is visible.  *)
(***************************************************************************)
EXTENDS Integers, Sequences, FiniteSets

CONSTANTS Actors,      \* the actors the program may spawn
          FieldOf,     \* the name of each one's field, by its type
          Reentrant,   \* whether handlers may be given handles of actors below them
          Droppers,    \* the code whose expression statements drop errors
          MaxMessages, \* bound on messages
          MaxDepth,    \* bound on nested handlers
          MaxScopes    \* bound on the scope stack

ASSUME BoundsAssumption ==
  MaxMessages \in Nat /\ MaxDepth \in Nat /\ MaxScopes \in Nat
ASSUME ReentrantAssumption == Reentrant \subseteq BOOLEAN
ASSUME DroppersAssumption == Droppers \subseteq {"main", "handler"}

Fields == {FieldOf[a] : a \in Actors}
Messages == 1 .. MaxMessages
Kinds == {"increment", "get"}

VARIABLES reentrant,  \* this program's handlers may reach their own actors
          scopes,     \* self.scopes: of each scope, the fields it binds
          instances,  \* self.actor_instances: the state of each actor
          calls,      \* the handlers being executed, outermost first
          flow,       \* "run", or "error" on its way out
          sent,       \* each message's actor and kind, in order
          handled,    \* the messages whose handlers have completed
          answer      \* the value of the last ask

vars == <<reentrant, scopes, instances, calls, flow, sent, handled, answer>>

Spawned == DOMAIN instances
Top == calls[Len(calls)]
Below == SubSeq(calls, 1, Len(calls) - 1)
InHandler == calls # <<>>
Receiver == sent[Top.message].actor
Kind == sent[Top.message].kind
Field == FieldOf[Receiver]
Code(cs) == IF cs = <<>> THEN "main" ELSE "handler"
Drops(cs) == Code(cs) \in Droppers

OutermostField(field) ==
  CHOOSE i \in 1 .. Len(scopes) :
    /\ field \in DOMAIN scopes[i]
    /\ \A j \in 1 .. (i - 1) : field \notin DOMAIN scopes[j]

\* get_variable and assign_variable: the nearest scope that binds the field.
Nearest(field) ==
  CHOOSE i \in 1 .. Len(scopes) :
    /\ field \in DOMAIN scopes[i]
    /\ \A j \in (i + 1) .. Len(scopes) : field \notin DOMAIN scopes[j]

Lookup(field) == scopes[Nearest(field)][field]

Init ==
  /\ reentrant \in Reentrant
  /\ scopes = <<[f \in {} |-> {}]>>
  /\ instances = [a \in {} |-> {}]
  /\ calls = <<>>
  /\ flow = "run"
  /\ sent = <<>>
  /\ handled = {}
  /\ answer = {}

\* spawn: the initial state is computed in a scope of its own.
Spawn ==
  /\ flow = "run"
  /\ \E a \in Actors \ Spawned :
       instances' = [b \in Spawned \union {a} |-> IF b = a THEN {} ELSE instances[b]]
  /\ UNCHANGED <<reentrant, scopes, calls, flow, sent, handled, answer>>

\* send or ask: the handler starts with a copy of the actor's state.
Send ==
  /\ flow = "run"
  /\ Len(calls) < MaxDepth /\ Len(scopes) < MaxScopes /\ Len(sent) < MaxMessages
  /\ \E a \in Spawned, kind \in Kinds :
       /\ reentrant \/ \A i \in 1 .. Len(calls) : sent[calls[i].message].actor # a
       /\ sent' = Append(sent, [actor |-> a, kind |-> kind])
       /\ scopes' = Append(scopes, [f \in {FieldOf[a]} |-> instances[a]])
       /\ calls' = Append(calls, [message |-> Len(sent) + 1, snapshot |-> instances[a],
                                  assigned |-> FALSE])
  /\ UNCHANGED <<reentrant, instances, flow, handled, answer>>

\* count = count + 1, in the handler.
Increment ==
  /\ flow = "run"
  /\ InHandler
  /\ Kind = "increment"
  /\ ~Top.assigned
  /\ scopes' = [scopes EXCEPT ![Nearest(Field)][Field] = @ \union {Top.message}]
  /\ calls' = [calls EXCEPT ![Len(calls)].assigned = TRUE]
  /\ UNCHANGED <<reentrant, instances, flow, sent, handled, answer>>

\* An expression statement of the code drops an error that left the scope of a
\* block behind.
DropError ==
  /\ flow = "run"
  /\ Drops(calls)
  /\ Len(scopes) < MaxScopes
  /\ scopes' = Append(scopes, [f \in {} |-> {}])
  /\ UNCHANGED <<reentrant, instances, calls, flow, sent, handled, answer>>

\* An error in the handler, or in the conversion of its fields afterwards.
Fail ==
  /\ flow = "run"
  /\ InHandler
  /\ flow' = "error"
  /\ UNCHANGED <<reentrant, scopes, instances, calls, sent, handled, answer>>

\* The error leaves the handler, past its pop_scope and its write-back, to a
\* statement of the sender that drops it or passes it on.
Abort ==
  /\ flow = "error"
  /\ InHandler
  /\ calls' = Below
  /\ flow' \in IF Drops(Below) THEN {"run", "error"} ELSE {"error"}
  /\ UNCHANGED <<reentrant, scopes, instances, sent, handled, answer>>

SnapshotBack == Top.snapshot

\* The fields found in the last scope replace those of the copy.
Updated ==
  LET last == scopes[Len(scopes)]
  IN  IF Field \in DOMAIN last THEN last[Field] ELSE Top.snapshot


TwoPopped == SubSeq(scopes, 1, Len(scopes) - 2)
Unpopped == scopes
Popped == SubSeq(scopes, 1, Len(scopes) - 1)

\* The handler's body has run, or has responded: the state is written back.
Finish ==
  /\ flow = "run"
  /\ InHandler
  /\ Kind = "increment" => Top.assigned
  /\ answer' = IF Kind = "get" THEN Lookup(Field) ELSE answer
  /\ instances' = [instances EXCEPT ![Receiver] = Updated]
  /\ scopes' = Popped
  /\ calls' = Below
  /\ handled' = handled \union {Top.message}
  /\ UNCHANGED <<reentrant, flow, sent>>

Next == Spawn \/ Send \/ Increment \/ DropError \/ Fail \/ Abort \/ Finish

Spec == Init /\ [][Next]_vars

-----------------------------------------------------------------------------
(* Properties                                                              *)

Values == SUBSET Messages
Call == [message : Messages, snapshot : Values, assigned : BOOLEAN]

TypeOK ==
  /\ reentrant \in Reentrant
  /\ \A i \in 1 .. Len(scopes) :
       DOMAIN scopes[i] \subseteq Fields /\ \A f \in DOMAIN scopes[i] : scopes[i][f] \in Values
  /\ Len(scopes) > Len(calls)
  /\ Spawned \subseteq Actors /\ \A a \in Spawned : instances[a] \in Values
  /\ calls \in Seq(Call)
  /\ flow \in {"run", "error"}
  /\ sent \in Seq([actor : Spawned, kind : Kinds]) /\ Len(sent) <= MaxMessages
  /\ handled \subseteq 1 .. Len(sent)
  /\ answer \in Values

\* As long as handlers neither drop errors nor send to an actor that is waiting
\* below them, each completed message takes effect on its actor at once, on
\* the state the message before it left; a failed one has no effect.  Programs
\* whose handlers reach their own actors are promised nothing: their view is
\* that nothing happens.
Promised(now, otherwise) == IF reentrant THEN otherwise ELSE now
Atomic == INSTANCE ActorsAtomic WITH
            state <- Promised(instances, [a \in {} |-> {}]),
            handled <- Promised(handled, {}),
            answer <- Promised(answer, {})
AtomicMessages == Atomic!Spec

\* Even if actors send to themselves through others, the value of a counter
\* is made only of increments sent to it.
PrivateState ==
  TypeOK /\ \A a \in Spawned : \A m \in instances[a] : sent[m].actor = a

\* A handler that completes an increment leaves it in the state it writes back,
\* whatever its nested messages did to the same actor.
OwnIncrementKept ==
  [][\A m \in handled' \ handled :
       Kind = "increment" => m \in instances'[Receiver]]_vars

=============================================================================
