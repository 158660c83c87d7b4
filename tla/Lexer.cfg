SPECIFICATION Spec
CONSTANTS
    Sources <- MCSources
    IndentUnit = 2
INVARIANTS
    TypeOK
    BlocksBalanced
    LayoutMirrorsSource
    NothingLost
PROPERTIES
    Terminates
\* The lexer stops when it returns.
CHECK_DEADLOCK FALSE
