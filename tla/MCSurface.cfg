SPECIFICATION FairSpec
CONSTANTS
    Kind = {"identical", "converted"}
    Memory = {"client", "surface"}
    Slot = {d1, d2}
    VertexRead = FALSE
    MaxVersion = 3
INVARIANTS
    Coherent
    SampledCurrent
    BuffersGivenBack
PROPERTIES
    DrawReturns
