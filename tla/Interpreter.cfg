SPECIFICATION Spec
CONSTANTS
    Names = {"x"}
    Namespaces <- OneNamespace
    Global = none
    app = app
    lib = lib
    none = none
    MaxFrames = 3
    MaxScopes = 5
INVARIANTS
    TypeOK
    LiveScopes
    
    VerdictAtRest
PROPERTIES
    LeakOnlyOnFailure
\* The runner stops after the last block: here, when the leaks fill the bound.
CHECK_DEADLOCK FALSE
