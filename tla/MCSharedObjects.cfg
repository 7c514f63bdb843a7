SPECIFICATION Spec
CONSTANTS
    Context = {c1, c2}
    Point = {array, copyRead}
    Detached = {array}
    MaxName = 2
    MaxObject = 3
    Concurrent = FALSE
    Reserved = TRUE
    NONE = NONE
SYMMETRY Symmetry
INVARIANTS
    
    
    NamesUnused

    
