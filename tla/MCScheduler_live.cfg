SPECIFICATION FairSpec
CONSTANTS
    ThreadCount <- TwoThenOne
    DRAW_COUNT = 1
    DrawShape <- Shapes
    MaxDraws = 2
    NONE = NONE
INVARIANTS
    Quiescent
PROPERTIES
    EveryDrawRetired
    AppReturns
