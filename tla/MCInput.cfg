SPECIFICATION InputSpec
CONSTANTS
    Keys <- MCKeys
    Flags <- MCFlags
    Motions <- MCMotions
    Configs <- MCConfigs
    ScreenWidth = 5
    MaxAttempts = 2
INVARIANTS
    AlignedUnlessMisled
    KeyboardStaysOn
PROPERTIES
    AppliesWhatWasSent
    NothingBlocks
    Realigns
CHECK_DEADLOCK TRUE
