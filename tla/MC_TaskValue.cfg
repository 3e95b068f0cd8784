CONSTANTS
    Slots <- MCSlots
    Frames <- MCFrames
    Null = Null

SPECIFICATION Spec

INVARIANT OwnedAsIntended
INVARIANT AllFramesReclaimed

\* The client returns and the loop drains; nothing is left to do.
CHECK_DEADLOCK FALSE
