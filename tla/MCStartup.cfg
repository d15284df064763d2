CONSTANTS
    LastPage = 8
    MapPage = 0
    InfoPage = 1
    PagingPage = 2
    PoolFloor = 3
    IdentityLimit = 8
    KernelPages = 1
    StoragePages = 1
    BufferPages = 1
    BufferSize = 8
    MaxRegions = 2
    MaxChanges = 3
    FirmwareAtStart <- MCFirmwareAtStart
    LoaderPages <- MCLoaderPages
    Modulus = 16
    KernelPhysical = 4
    KernelVirtual = 10
    AllocationSize = 4
    ImageSize = 4
    Images <- MCImages
    Sectors <- MCSectors
    Contents <- MCContents
    Volumes <- MCVolumes
    LiveVolumes <- MCLiveVolumes
    Written = {"a", "junk"}
    MaxAttempts = 2
    MaxServed = 3
    ProgramPages = {1, 2, 3}
    MaxCodePages = 2
    TaskFrames = 1
    LiveFrames = 1
    FrameScale = 9
SPECIFICATION Spec
INVARIANTS
    PoolIsFree
    OneChangeIsSurvived
    KernelIsLoaded
    AnswersAreTrue
    MountIsWhatIsThere
PROPERTIES
    OnlyTheSectorWritten
    NothingWaitsForEver
CHECK_DEADLOCK FALSE
