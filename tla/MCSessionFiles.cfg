SPECIFICATION SessionSpec
CONSTANTS
    Names <- MCNames
    Arguments <- MCArguments
    MaxParts = 3
    MaxListed = 3
    MaxDrawn = 2
    MaxHandles = 2
    MaxNodes = 5
    MaxMishaps = 1
INVARIANTS
    CwdIsADirectory
    ShownIsCurrent
    EachTouchKeepsAHandle
PROPERTIES
    OpensWhatIsShown
    FailureLeavesNothing
CHECK_DEADLOCK TRUE
