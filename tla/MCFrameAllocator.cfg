SPECIFICATION Spec
CONSTANTS
    c1 = c1
    c2 = c2
    MaxFrames = 3
    Clients <- MCClients
    Words <- MCWords
INVARIANTS
    TypeOK
    ExclusiveOwnership
    FreeListWellFormed
PROPERTY ImplementsFramePool
CHECK_DEADLOCK TRUE
