SPECIFICATION FairSpec
CONSTANTS
    Thread = {t1, t2, t3, w1}
    Worker = {w1}
    Accessor = {PUBLIC, PRIVATE, MANAGED}
    PUBLIC = PUBLIC
    MaxCount = 2
INVARIANTS
    NoLostWakeup
    DeleteAlone
PROPERTIES
    
    ImplementsAccessorLock
    WaitersServed
    EventuallyFreed
