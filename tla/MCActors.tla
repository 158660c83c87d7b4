------------------------------ MODULE MCActors ------------------------------
(***************************************************************************)
(* Instances of Actors: two counters of one type, which have the same      *)
(* field name, and an actor of another type.                               *)
(***************************************************************************)
EXTENDS Actors

CONSTANTS c1, c2, t

WithTally == {c1, c2, t}
FieldNames == [a \in {c1, c2, t} |-> IF a = t THEN "total" ELSE "count"]
=============================================================================
