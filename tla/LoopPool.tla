------------------------------ MODULE LoopPool ------------------------------
(***************************************************************************)
(* The event loop and the CPU thread pool of one io_context, as they      *)
(* interact: jobs run on the loop may submit closures to the pool (the     *)
(* submit awaitable's await_suspend, or the fire-and-forget submit(fn));  *)
(* a worker running a closure may post a job back to the loop (ctx_post). *)
(* Other threads post jobs and call stop() at any time.  When run()        *)
(* returns, main() leaves its scope and ~io_context destroys cpu_pool_    *)
(* (stop, then join every worker) before sched_, its first member.         *)
(***************************************************************************)
EXTENDS Naturals, Sequences, FiniteSets

CONSTANTS Jobs,       \* jobs of the loop
          External,   \* the jobs other threads post
          Closures,   \* closures of the pool
          Workers,
          Submits,    \* [Jobs -> Closures \cup {None}]: closure a job submits
          PostsBack,  \* [Closures -> Jobs \cup {None}]: job a closure posts
          None

ASSUME /\ External \subseteq Jobs
       /\ Submits \in [Jobs -> Closures \cup {None}]
       /\ PostsBack \in [Closures -> Jobs \cup {None}]

VARIABLES q, stopRequested, running, loop, cur,  \* the scheduler
          posted, executed,                       \* the loop's histories
          poolQ, poolStop, wstate, wcur, ran,     \* the pool
          mainPc      \* main(): "launch", "run", "pool_stop", "pool_join",
                      \* "done" (the pool is joined, sched_ is next)

schedVars == <<q, stopRequested, running, loop, cur>>
loopVars == <<schedVars, posted, executed>>
poolVars == <<poolQ, poolStop, wstate, wcur, ran>>
vars == <<loopVars, poolVars, mainPc>>

H == INSTANCE SchedulerHarness
P == INSTANCE ThreadPool

TypeOK ==
    /\ H!HarnessTypeOK
    /\ P!PoolTypeOK
    /\ mainPc \in {"launch", "run", "pool_stop", "pool_join", "done"}

Init ==
    /\ H!Init
    /\ P!PoolInit
    /\ mainPc = "launch"

-----------------------------------------------------------------------------
(* Other threads                                                           *)

ExternalPost(j) ==
    /\ j \in External
    /\ H!PostJob(j)
    /\ UNCHANGED <<poolVars, mainPc>>

ExternalStop ==
    /\ H!RequestStop
    /\ UNCHANGED <<poolVars, mainPc>>

-----------------------------------------------------------------------------
(* main() and the loop thread                                              *)

\* ctx.run()
CallRun ==
    /\ mainPc = "launch"
    /\ H!RunStart
    /\ mainPc' = "run"
    /\ UNCHANGED <<posted, executed, poolVars>>

Dequeue ==
    /\ H!Dequeue
    /\ UNCHANGED <<posted, executed, poolVars, mainPc>>

\* The popped job runs: it submits its closure to the pool, if it has one,
\* and returns.
RunJob ==
    /\ H!Execute
    /\ \/ /\ Submits[cur] # None
          /\ P!Enqueue(Submits[cur])
       \/ /\ Submits[cur] = None
          /\ UNCHANGED poolVars
    /\ UNCHANGED mainPc

\* run() returns; main() leaves its scope and ~io_context begins.
ExitRun ==
    /\ H!Exit
    /\ mainPc' = "pool_stop"
    /\ UNCHANGED <<posted, executed, poolVars>>

\* ~thread_pool: stop() ...
DestroyPoolStop ==
    /\ mainPc = "pool_stop"
    /\ P!PoolStop
    /\ mainPc' = "pool_join"
    /\ UNCHANGED <<loopVars>>

\* ... then join every worker.
DestroyPoolJoin ==
    /\ mainPc = "pool_join"
    /\ P!Joinable
    /\ mainPc' = "done"
    /\ UNCHANGED <<loopVars, poolVars>>

-----------------------------------------------------------------------------
(* Workers                                                                 *)

\* The closure returns after posting its job back to the loop, if it has
\* one (ctx_post: post under the scheduler's lock).
WorkerFinish(w) ==
    /\ P!WorkerDone(w)
    /\ \/ /\ PostsBack[wcur[w]] # None
          /\ H!PostJob(PostsBack[wcur[w]])
       \/ /\ PostsBack[wcur[w]] = None
          /\ UNCHANGED loopVars
    /\ UNCHANGED mainPc

WorkerThread(w) ==
    \/ P!WorkerTake(w) /\ UNCHANGED <<loopVars, mainPc>>
    \/ WorkerFinish(w)
    \/ P!WorkerExit(w) /\ UNCHANGED <<loopVars, mainPc>>

MainThread ==
    \/ CallRun \/ Dequeue \/ RunJob \/ ExitRun
    \/ DestroyPoolStop \/ DestroyPoolJoin

Next ==
    \/ \E j \in External : ExternalPost(j)
    \/ ExternalStop
    \/ MainThread
    \/ \E w \in Workers : WorkerThread(w)

\* The loop thread and each worker wait on a condition variable that every
\* post, enqueue and stop notifies, so a thread that can step eventually
\* does.  Other threads need never post or stop.
Spec == Init /\ [][Next]_vars
             /\ WF_vars(MainThread)
             /\ \A w \in Workers : WF_vars(WorkerThread(w))

-----------------------------------------------------------------------------
(* Properties                                                              *)

\* The loop still implements SchedulerAbs when pool workers are among the
\* posting threads: FIFO dispatch, and run() returns only after stop() with
\* the queue drained.
ImplementsAbs == H!ImplementsAbs

PA == INSTANCE ThreadPoolAbs
        WITH pending <- P!InPool,
             done    <- ran,
             stopped <- poolStop,
             joined  <- (mainPc = "done")

\* The pool implements ThreadPoolAbs: every submitted closure runs at most
\* once, none runs after ~thread_pool's join has returned, and once stop()
\* is called the join returns (spec 4.4: workers drain in finite time);
\* the workers, the queue, the lock-split worker_loop and the closures'
\* posts to the loop all take part.
PoolImplementsAbs == PA!PASpec

====
