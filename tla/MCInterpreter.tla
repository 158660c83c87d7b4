--------------------------- MODULE MCInterpreter ---------------------------
(***************************************************************************)
(* Instances of Interpreter: one name to follow the scopes, two namespaces *)
(* to follow the calls.                                                    *)
(***************************************************************************)
EXTENDS Interpreter

CONSTANTS app, lib, none

OneNamespace == {app}
=============================================================================
