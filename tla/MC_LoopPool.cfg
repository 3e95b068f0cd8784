\* The loop and the pool of one io_context (see MC_LoopPool.tla).
CONSTANTS
    Jobs <- MCJobs
    External <- MCExternal
    Closures <- MCClosures
    Workers <- MCWorkers
    Submits <- MCSubmits
    PostsBack <- MCPostsBack
    None = None

SPECIFICATION Spec

PROPERTY ImplementsAbs
PROPERTY PoolImplementsAbs

\* The program ends (mainPc = "done"), and it also waits forever when no
\* thread calls stop(): both are final states of the real program.
CHECK_DEADLOCK FALSE
