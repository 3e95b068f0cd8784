\* examples/07: app waits in async_wait with an on_signal callback set.
CONSTANTS
    App = App
    SIGINT = SIGINT
    SIGTERM = SIGTERM
    MaxCaptures <- MCMaxCaptures
    Canceled = Canceled
    None = None

SPECIFICATION Spec

 
INVARIANT AppFinishesBeforeRunReturns
PROPERTY SignalEndsProgram

\* The program ends (mainPc = "done"), and it also waits forever when no
\* signal is raised: both are final states of the real program.
CHECK_DEADLOCK FALSE
