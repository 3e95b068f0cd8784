CONSTANTS
    Server = "srv"
    Clients <- MCTwoClients
    Body <- MCBody
    StarterMayThrow = TRUE
    ThrowAfterRegister = {FALSE}
    Cancellable = TRUE
    MaxCaptures = 1
    MaxReads = 1
    None = None

SPECIFICATION Spec

INVARIANT PostedOnce
PROPERTY ShutdownOnSignal

CHECK_DEADLOCK FALSE
