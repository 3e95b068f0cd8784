------------------------------ MODULE Scheduler ------------------------------
(***************************************************************************)
(* The single-threaded event loop of cnerium::core::scheduler              *)
(* (src/unnamed/part_003; vix::async::core::scheduler in                   *)
(* src/include/vix/async/core/task.hpp is the same code).                  *)
(*                                                                         *)
(* The state is the code's: the job deque q_, stop_requested_, running_,   *)
(* plus the loop thread's position inside run() and the job it popped and  *)
(* is executing outside the lock.  post() and stop() hold the mutex for    *)
(* their whole critical section, so each is one step; run() is split at   *)
(* the points where it releases the mutex.                                 *)
(*                                                                         *)
(* This module only defines the operations; a system that uses the loop    *)
(* (SchedulerHarness, TaskRuntime) says what a job does when executed.     *)
(***************************************************************************)
EXTENDS Naturals, Sequences

CONSTANTS Jobs,   \* what a job refers to (a closure, or a coroutine handle)
          None    \* no job popped

VARIABLES q,              \* std::deque<job> q_
          stopRequested,  \* bool stop_requested_
          running,        \* bool running_
          loop,           \* the loop thread: "idle" (run() not called yet),
                          \* "wait" (top of while), "exec" (runs cur outside
                          \* the lock), "exited" (run() returned)
          cur             \* the job popped by the current iteration

schedVars == <<q, stopRequested, running, loop, cur>>

LoopStates == {"idle", "wait", "exec", "exited"}

SchedTypeOK ==
    /\ q \in Seq(Jobs)
    /\ stopRequested \in BOOLEAN
    /\ running \in BOOLEAN
    /\ loop \in LoopStates
    /\ cur \in Jobs \cup {None}

SchedInit ==
    /\ q = <<>>
    /\ stopRequested = FALSE
    /\ running = FALSE
    /\ loop = "idle"
    /\ cur = None

\* post(fn) / post(h): append under the lock, then notify_one.  Any thread.
Post(j) ==
    /\ q' = Append(q, j)
    /\ UNCHANGED <<stopRequested, running, loop, cur>>

\* stop(): set stop_requested_ under the lock, then notify_all.  Any thread.
Stop ==
    /\ stopRequested' = TRUE
    /\ UNCHANGED <<q, running, loop, cur>>

\* run() entry: running_ = true.
RunStart ==
    /\ loop = "idle"
    /\ running' = TRUE
    /\ loop' = "wait"
    /\ UNCHANGED <<q, stopRequested, cur>>

\* Mutant of Dequeue: takes the newest job (pop_back) instead of the oldest.
DequeueNewest ==
    /\ loop = "wait"
    /\ q # <<>>
    /\ cur' = q[Len(q)]
    /\ q' = SubSeq(q, 1, Len(q) - 1)
    /\ loop' = "exec"
    /\ UNCHANGED <<stopRequested, running>>

\* Mutant of Exit: tests stop_requested_ before the queue, dropping queued jobs.
ExitWhenStopped ==
    /\ loop = "wait"
    /\ stopRequested
    /\ loop' = "exited"
    /\ running' = FALSE
    /\ UNCHANGED <<q, stopRequested, cur>>

\* One locked section of the loop: cv_.wait(stop_requested_ || !q_.empty())
\* returns with a non-empty queue; the front job is moved out and popped.
Dequeue ==
    /\ loop = "wait"
    /\ q # <<>>
    /\ cur' = Head(q)
    /\ q' = Tail(q)
    /\ loop' = "exec"
    /\ UNCHANGED <<stopRequested, running>>

\* The same locked section finds the queue empty and stop requested: break,
\* then running_ = false after the loop.
Exit ==
    /\ loop = "wait"
    /\ q = <<>>
    /\ stopRequested
    /\ loop' = "exited"
    /\ running' = FALSE
    /\ UNCHANGED <<q, stopRequested, cur>>

\* The popped job's call j.fn() returns; the loop goes back to the top.
JobReturn ==
    /\ loop = "exec"
    /\ loop' = "wait"
    /\ cur' = None
    /\ UNCHANGED <<q, stopRequested, running>>

=============================================================================
