CONSTANTS
    Frames <- MCFrames
    Roots <- MCRoots
    LaunchMode <- MCLaunchMode
    Body <- MCBody
    MayThrow <- MCMayThrow
    FnMayThrow <- MCFnMayThrow
    Workers <- MCWorkers
    Cancellable = TRUE
    ExtStop = TRUE
    None = None

SPECIFICATION Spec


CHECK_DEADLOCK FALSE
INVARIANT NoUseAfterFree
