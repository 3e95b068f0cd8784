CONSTANTS
    Frames <- MCFrames
    Body <- MCBody
    Runner = "runner"
    Inner = "chain"
    MayThrow = {}
    None = None

SPECIFICATION Spec

INVARIANT NoUseAfterFree

CHECK_DEADLOCK FALSE
