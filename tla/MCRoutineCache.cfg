SPECIFICATION Spec
CONSTANTS
    State = {s1, s2, s3, s4, s5}
    Routine <- SevenRoutines
    DrawCall = {d1, d2}
    CacheSize = {2, 3}
    Instancing = FALSE
    NONE = NONE
INVARIANTS
    DrawRunsItsRoutine
    BindingsExact
PROPERTIES
    ImplementsRecentStates
SYMMETRY Symmetric
VIEW Places
