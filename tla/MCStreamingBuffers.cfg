SPECIFICATION Spec
CONSTANTS
    Attribute <- Attributes
    Resource <- Resources
    DrawCall <- DrawCalls
    Sources <- SourcesOf
    IndexSize = {2}
    InitialSize = 3
    UINT = 64
    NONE = NONE
INVARIANTS
    StreamedInputsStable
    
    ClaimsExact
