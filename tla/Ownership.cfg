SPECIFICATION Spec
CONSTANTS
    Programs <- AllPrograms
    Params <- XandV
    NoBlock = NoBlock
INVARIANTS
    
    Precise
\* The checker stops when it returns.
CHECK_DEADLOCK FALSE
