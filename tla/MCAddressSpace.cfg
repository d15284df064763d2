SPECIFICATION Spec
CONSTANTS
    f1 = f1
    f2 = f2
    f3 = f3
    f4 = f4
    f5 = f5
    device = device
    Frames <- MCFrames
    Devices <- MCDevices
    BootRoot = boot
    KernelTable = kernelTable
    Levels = 3
    Indices = {0, 1}
    KernelIndex = 1
    Nil = nil
SYMMETRY FrameSymmetry
CHECK_DEADLOCK FALSE
INVARIANTS
    EveryFrameHasOneRole
    KernelHalfShared
PROPERTY ImplementsAddressSpaces
