SPECIFICATION Spec
CONSTANTS
    Thread = {t1, t2}
    DrawCalls <- MCDrawCalls
    MaxDraws = 2
    LINES = 2
    QUAD = 2
INVARIANTS
    AssembledAsDrawn
    OnlyItsVertices
    FreshVertices
CHECK_DEADLOCK FALSE
