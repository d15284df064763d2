SPECIFICATION Spec
CONSTANTS
    a = a
    b = b
    Names <- MCNames
    MaxInodes = 4
    MaxDentries = 3
    InodeParts <- MCMixedInodeParts
    DentryParts <- MCMixedDentryParts
    MaxDepth = 1
    Outcomes = {"ok", "lost", "late"}
    MaxMishaps = 3
CHECK_DEADLOCK FALSE
INVARIANTS
    AgreeUnlessAbandoned
    LeaksAreBounded
    AcknowledgedSurvives
PROPERTY ImplementsDirectoryTree
