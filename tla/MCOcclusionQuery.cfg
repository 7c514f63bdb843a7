SPECIFICATION QueryFairSpec
CONSTANTS
    Query = {q1, q2}
    DRAW_COUNT = 2
    clusterCount = 2
    MaxDraws = 2
    Direct3D = FALSE
    Patient = TRUE
INVARIANTS
    ResultIsSum
    HoldersCounted
PROPERTIES
    ResultArrives
CHECK_DEADLOCK FALSE
