CONSTANTS
    Server = "srv"
    Clients <- MCOneClient
    Body <- MCBody
    StarterMayThrow = TRUE
    ThrowAfterRegister = {FALSE}
    Cancellable = TRUE
    MaxCaptures = 1
    MaxReads = 1
    None = None

SPECIFICATION Spec

INVARIANT NoUndefinedBehaviour

CHECK_DEADLOCK FALSE
