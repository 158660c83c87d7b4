SPECIFICATION Spec
CONSTANTS
    c1 = c1
    c2 = c2
    t = t
    Actors <- WithTally
    FieldOf <- FieldNames
    Reentrant = {TRUE, FALSE}
    Droppers = {"main"}
    MaxMessages = 3
    MaxDepth = 3
    MaxScopes = 6
INVARIANTS
    PrivateState
PROPERTIES
    AtomicMessages
    OwnIncrementKept
\* The program may end, or stop on an error; the messages are bounded.
CHECK_DEADLOCK FALSE
