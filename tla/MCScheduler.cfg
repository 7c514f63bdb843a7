SPECIFICATION Spec
CONSTANTS
    ThreadCount <- TwoThreads
    DRAW_COUNT = 2
    DrawShape <- TwoBatches
    MaxDraws = 3
    NONE = NONE
INVARIANTS
    SchedulerInv
    PixelInputsStable
PROPERTIES
    SynchronizeWaits
    ImplementsInOrderRendering
