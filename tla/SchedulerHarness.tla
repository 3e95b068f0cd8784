--------------------------- MODULE SchedulerHarness ---------------------------
(***************************************************************************)
(* The event loop on its own: the loop thread runs run(), other threads    *)
(* post jobs (each job once) and call stop() at any time, before or after  *)
(* run() is entered and after it has returned.  A job here does nothing    *)
(* but return; `executed` records the order in which jobs ran.             *)
(***************************************************************************)
EXTENDS Scheduler

VARIABLES posted,    \* jobs some thread has posted (each job is posted once)
          executed   \* jobs whose fn() has run to completion, in order

vars == <<schedVars, posted, executed>>

\* is_running() and pending() read running_ and q_.  A queued job is a
\* move-only owning closure (job wrapping fn_holder):
\* moving it out of q_ leaves an empty holder behind, so a job is a value
\* that is queued once and run once.
HarnessTypeOK ==
    /\ SchedTypeOK
    /\ posted \subseteq Jobs
    /\ executed \in Seq(Jobs)

Init ==
    /\ SchedInit
    /\ posted = {}
    /\ executed = <<>>

\* Any thread posts a job it has not posted yet.
PostJob(j) ==
    /\ j \notin posted
    /\ Post(j)
    /\ posted' = posted \cup {j}
    /\ UNCHANGED executed

\* Any thread calls stop().
RequestStop ==
    /\ ~stopRequested
    /\ Stop
    /\ UNCHANGED <<posted, executed>>

\* The popped job runs and returns.
Execute ==
    /\ JobReturn
    /\ executed' = Append(executed, cur)
    /\ UNCHANGED posted

LoopStep ==
    \/ /\ RunStart
       /\ UNCHANGED <<posted, executed>>
    \/ /\ Dequeue
       /\ UNCHANGED <<posted, executed>>
    \/ /\ Exit
       /\ UNCHANGED <<posted, executed>>
    \/ Execute

Next ==
    \/ \E j \in Jobs : PostJob(j)
    \/ RequestStop
    \/ LoopStep

\* The loop thread is the only one that must keep running: whenever it can
\* take a step (its condition variable is notified on every post and stop)
\* it eventually does.  Posting threads and the stopping thread may never act.
Spec == Init /\ [][Next]_vars /\ WF_vars(LoopStep)

-----------------------------------------------------------------------------
(* Refinement: the loop implements SchedulerAbs.  A job counts as          *)
(* dispatched as soon as it is popped under the lock.                       *)

LoopPhase == CASE loop = "idle"   -> "idle"
               [] loop = "exited" -> "returned"
               [] OTHER           -> "running"

Abs == INSTANCE SchedulerAbs
         WITH queue      <- q,
              stopped    <- stopRequested,
              dispatched <- executed \o (IF cur = None THEN <<>> ELSE <<cur>>),
              phase      <- LoopPhase

\* Jobs run one after the other in the order they were posted under the
\* lock, and run() returns only after stop() with every job posted before
\* its last check of the queue already run (spec 4.1, run/stop in
\* part_003); once stop() is called, run() eventually returns.
ImplementsAbs == Abs!ASpec

=============================================================================
