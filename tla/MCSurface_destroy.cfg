SPECIFICATION FairSpec
CONSTANTS
    Kind = {"identical", "converted"}
    Memory = {"client", "surface"}
    Slot = {d1}
    VertexRead = FALSE
    MaxVersion = 1
INVARIANTS
    SurfaceAlive
