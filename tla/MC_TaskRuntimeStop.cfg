CONSTANTS
    Frames <- MCFrames
    Roots <- MCRoots
    LaunchMode <- MCLaunchMode
    Body <- MCBody
    MayThrow <- MCMayThrow
    FnMayThrow <- MCFnMayThrow
    Workers <- MCWorkers
    Cancellable = TRUE
    ExtStop = TRUE
    None = None

SPECIFICATION Spec

INVARIANT FailurePropagates
PROPERTY OffloadResumed

CHECK_DEADLOCK FALSE
