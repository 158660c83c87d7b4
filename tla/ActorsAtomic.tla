--------------------------- MODULE ActorsAtomic ---------------------------
(***************************************************************************)
(* What an actor promises: private state, and messages handled one at a    *)
(* time.  A message is known by its number; an actor's state is the set of *)
(* messages that have incremented it.                                      *)
(***************************************************************************)
EXTENDS Integers

CONSTANTS Actors, Messages

VARIABLES state,    \* of every spawned actor
          handled,  \* messages whose handlers have completed
          answer    \* the value of the last ask

Spawn(a) ==
  /\ a \notin DOMAIN state
  /\ state' = [b \in DOMAIN state \union {a} |-> IF b = a THEN {} ELSE state[b]]
  /\ UNCHANGED <<handled, answer>>

Handle(m) ==
  /\ m \notin handled
  /\ handled' = handled \union {m}

\* receive increment: the state the last message left, plus one.
Increment(a, m) ==
  /\ Handle(m)
  /\ state' = [state EXCEPT ![a] = @ \union {m}]
  /\ UNCHANGED answer

\* receive get_count: the answer is the state the last message left.
Get(a, m) ==
  /\ Handle(m)
  /\ answer' = state[a]
  /\ UNCHANGED state

Init == state = [a \in {} |-> {}] /\ handled = {} /\ answer = {}

Next == \/ \E a \in Actors : Spawn(a)
        \/ \E a \in DOMAIN state, m \in Messages : Increment(a, m) \/ Get(a, m)

Spec == Init /\ [][Next]_<<state, handled, answer>>
=============================================================================
