SPECIFICATION FairSpec
CONSTANTS
    Content = {r1, r2, r3}
    Slot = {d1, d2}
    RespecifyMapped = FALSE
    NONE = NONE
INVARIANTS
    DrawInputsStable
    ClaimsExact
PROPERTIES
    EventuallyFreed
    CallReturns
