----------------------------- MODULE ThreadPool -----------------------------
(***************************************************************************)
(* The CPU thread pool vix::async::core::thread_pool (thread_pool.hpp).    *)
(* The header declares its members (the closure deque q_, stop_, the       *)
(* worker threads, one mutex and one condition variable) and defines the   *)
(* submit(fn, ct) awaitable; worker_loop, enqueue, stop, the fire-and-     *)
(* forget submit(fn) and ~thread_pool are only declared, and are modelled  *)
(* from spec 4.4:                                                          *)
(*                                                                         *)
(*  - enqueue: push the closure under the lock, notify one worker;         *)
(*  - worker_loop: under the lock wait until q_ is non-empty or stop_; if  *)
(*    stop_ and q_ is empty, return; else pop the front closure, unlock   *)
(*    and run it;                                                          *)
(*  - stop(): set stop_ under the lock, notify all;                        *)
(*  - ~thread_pool: stop(), then join every worker.                        *)
(*                                                                         *)
(* What a closure does when it runs is up to the system that uses the     *)
(* pool (it posts a job back to the loop, for instance).                   *)
(***************************************************************************)
EXTENDS Naturals, Sequences, FiniteSets

CONSTANTS Closures,   \* the closures submitted to the pool
          Workers,    \* workers_ (one std::thread each)
          None

VARIABLES poolQ,     \* std::deque<std::function<void()>> q_
          poolStop,  \* bool stop_
          wstate,    \* [Workers -> {"wait", "exec", "exited"}]: a worker
                     \* at the top of worker_loop, running a closure outside
                     \* the lock, or returned from worker_loop
          wcur,      \* [Workers -> Closures \cup {None}]: the closure it runs
          ran        \* history: the closures that have run to completion

poolVars == <<poolQ, poolStop, wstate, wcur, ran>>

PoolTypeOK ==
    /\ poolQ \in Seq(Closures)
    /\ poolStop \in BOOLEAN
    /\ wstate \in [Workers -> {"wait", "exec", "exited"}]
    /\ wcur \in [Workers -> Closures \cup {None}]
    /\ ran \subseteq Closures

\* The constructor starts every worker in worker_loop with an empty queue.
PoolInit ==
    /\ poolQ = <<>>
    /\ poolStop = FALSE
    /\ wstate = [w \in Workers |-> "wait"]
    /\ wcur = [w \in Workers |-> None]
    /\ ran = {}

\* enqueue(fn), which submit(fn) and the submit awaitable call: push under
\* the lock, then notify_one.
Enqueue(c) ==
    /\ poolQ' = Append(poolQ, c)
    /\ UNCHANGED <<poolStop, wstate, wcur, ran>>

\* Mutant of WorkerTake: the front closure is read but left in q_
\* (front() without pop_front()).
WorkerTakeNoPop(w) ==
    /\ wstate[w] = "wait" /\ poolQ # <<>>
    /\ wcur' = [wcur EXCEPT ![w] = Head(poolQ)]
    /\ wstate' = [wstate EXCEPT ![w] = "exec"]
    /\ UNCHANGED <<poolQ, poolStop, ran>>

\* worker_loop: the wait returns with a closure queued (stop_ or not):
\* pop the front one and run it outside the lock.
WorkerTake(w) ==
    /\ wstate[w] = "wait" /\ poolQ # <<>>
    /\ wcur' = [wcur EXCEPT ![w] = Head(poolQ)]
    /\ poolQ' = Tail(poolQ)
    /\ wstate' = [wstate EXCEPT ![w] = "exec"]
    /\ UNCHANGED <<poolStop, ran>>

\* The closure returns; the worker goes back to the top of its loop.
WorkerDone(w) ==
    /\ wstate[w] = "exec"
    /\ ran' = ran \cup {wcur[w]}
    /\ wstate' = [wstate EXCEPT ![w] = "wait"]
    /\ wcur' = [wcur EXCEPT ![w] = None]
    /\ UNCHANGED <<poolQ, poolStop>>

\* worker_loop: the wait returns with stop_ set and q_ empty: return.
WorkerExit(w) ==
    /\ wstate[w] = "wait" /\ poolStop /\ poolQ = <<>>
    /\ wstate' = [wstate EXCEPT ![w] = "exited"]
    /\ UNCHANGED <<poolQ, poolStop, wcur, ran>>

\* stop(): stop_ = true under the lock, then notify_all.
PoolStop ==
    /\ poolStop' = TRUE
    /\ UNCHANGED <<poolQ, wstate, wcur, ran>>

\* ~thread_pool's join of every worker returns once all have left
\* worker_loop.
Joinable == \A w \in Workers : wstate[w] = "exited"

\* The closures accepted and not yet run: queued, or running on a worker.
InPool == {poolQ[i] : i \in 1..Len(poolQ)}
          \cup {wcur[w] : w \in {x \in Workers : wstate[x] = "exec"}}

====
