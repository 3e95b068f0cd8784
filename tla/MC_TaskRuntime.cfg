CONSTANTS
    Frames <- MCFrames
    Roots <- MCRoots
    LaunchMode <- MCLaunchMode
    Body <- MCBody
    MayThrow <- MCMayThrow
    FnMayThrow <- MCFnMayThrow
    Workers <- MCWorkers
    Cancellable = TRUE
    ExtStop = FALSE
    None = None

SPECIFICATION Spec

INVARIANT NoUseAfterFree
PROPERTY RunEndsUnlessStopperFails

CHECK_DEADLOCK FALSE
