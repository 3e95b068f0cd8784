----------------------------- MODULE TaskRuntime -----------------------------
(***************************************************************************)
(* Lazy coroutine tasks driven by the event loop, with CPU work offloaded  *)
(* to the thread pool, from launch to the teardown of main().              *)
(*                                                                         *)
(*  - task<T> and its promise (src/include/vix/async/core/task.hpp):       *)
(*    initial suspend, co_await of a child task by symmetric transfer,     *)
(*    final_awaiter (resume the continuation, or self-destroy when         *)
(*    detached, or stay suspended), await_resume rethrowing the stored    *)
(*    exception, ~task destroying the frame, start() detaching it.         *)
(*  - The loop thread (Scheduler): every resumption of a suspended frame   *)
(*    is a job `if (h) h.resume();` popped from the queue.                 *)
(*  - thread_pool::submit (thread_pool.hpp): a coroutine whose awaitable   *)
(*    enqueues a closure capturing `this` and h; a worker checks the       *)
(*    cancel token, runs fn, stores the value or the exception in the      *)
(*    awaitable and posts h back to the loop.                              *)
(*  - main() of the examples: create the root task, post its handle (or    *)
(*    start() it detached), run(), destroy the task value, then destroy    *)
(*    io_context, whose thread_pool joins its workers (spec 4.4, 4.7).     *)
(*                                                                         *)
(* A coroutine's code is a sequence of operations Body[f]; a frame runs    *)
(* its body only while it is the one executing on the loop thread.         *)
(***************************************************************************)
EXTENDS Naturals, Sequences, FiniteSets

CONSTANTS Frames,       \* coroutine frames (one per task ever created)
          Roots,        \* the tasks main() creates
          LaunchMode,   \* [Roots -> {"handle", "start"}]
          Body,         \* [Frames -> Seq(Ops)]: the coroutine's code
          MayThrow,     \* frames whose body may exit with an exception
          FnMayThrow,   \* submit frames whose pool callable may throw
          Workers,      \* thread_pool worker threads
          Cancellable,  \* the submits carry a token of a live cancel_source
          ExtStop,      \* some other party (a signal callback) may call stop()
          None

(* The operations a coroutine body performs, in order.                     *)
AwaitOp(c) == [kind |-> "await", callee |-> c]   \* co_await c()
SubmitOp   == [kind |-> "submit", callee |-> None] \* co_await awaitable{..}
StopOp     == [kind |-> "stop", callee |-> None]   \* ctx.stop()
YieldOp    == [kind |-> "yield", callee |-> None]  \* co_await sched.schedule()
SleepOp    == [kind |-> "sleep", callee |-> None]  \* co_await timers().sleep_for(d)
ReturnOp   == [kind |-> "return", callee |-> None] \* co_return (or throw)
Ops == {AwaitOp(c) : c \in Frames}
       \cup {SubmitOp, StopOp, YieldOp, SleepOp, ReturnOp}

ASSUME /\ Roots \subseteq Frames
       /\ LaunchMode \in [Roots -> {"handle", "start"}]
       /\ Body \in [Frames -> Seq(Ops)]
       /\ \A f \in Frames : Len(Body[f]) > 0 /\ Body[f][Len(Body[f])] = ReturnOp
       /\ MayThrow \cup FnMayThrow \subseteq Frames
       /\ Cancellable \in BOOLEAN /\ ExtStop \in BOOLEAN

VARIABLES q, stopRequested, running, loop, cur,  \* the scheduler
          inJob,      \* the popped job's fn() is executing
          fstate,     \* [Frames -> FrameStates]
          pc,         \* [Frames -> Nat]: next operation of the body
          cont,       \* promise.continuation
          detached,   \* promise.detached
          exc,        \* promise.exception is set
          owner,      \* who holds the task value owning the handle:
                      \* a frame (a temporary in it), "main", or None
          slot,       \* the submit awaitable's result: "none", "value" or
                      \* "error" (ex set)
          poolQ,      \* thread_pool queue of closures, by their awaitable
          busy,       \* [Workers -> Frames \cup {None}]: closure running
          cancelled,  \* cancel_state::cancelled_
          timers,     \* frames whose sleep_for entry the timer thread holds
          mainPc,     \* main(): "launch", "run", "drop", then the stages
                      \* of ~io_context (TeardownOrder), then "done"
          faults,     \* undefined behaviour the program has performed
          threw       \* history: the frame's own body threw

vars == <<q, stopRequested, running, loop, cur, inJob, fstate, pc, cont,
          detached, exc, owner, slot, poolQ, busy, cancelled, timers, mainPc,
          faults, threw>>

S == INSTANCE Scheduler WITH Jobs <- Frames

FrameStates == {"unborn", "initial", "running", "suspended", "final",
                "destroyed"}

Op(f) == Body[f][pc[f]]
InBody(f) == pc[f] \in 1..Len(Body[f])
BodyDone(f) == pc[f] = Len(Body[f]) + 1
Executing(f) == fstate[f] = "running"
NoneExecuting == \A f \in Frames : fstate[f] # "running"

\* The frames destroyed together with f: a frame suspended in a co_await
\* still holds the awaited child's task temporary, whose ~task destroys it.
RECURSIVE Tree(_)
Tree(f) == {f} \cup UNION {Tree(g) : g \in {g \in Frames :
                /\ owner[g] = f
                /\ fstate[g] \notin {"unborn", "destroyed"}}}

\* Mutant of TeardownOrder: sched_ declared after cpu_pool_, so that it
\* is destroyed before the pool is joined.
TeardownOrderSchedFirst == <<"timer", "sched", "pool">>

\* ~io_context destroys its members in reverse order of declaration
\* (net_, signals_, timer_, cpu_pool_, sched_); net_ and signals_ are
\* never created by these programs.
TeardownOrder == <<"timer", "pool", "sched">>

Stages == {TeardownOrder[i] : i \in 1..Len(TeardownOrder)}
StageIdx(s) == CHOOSE i \in 1..Len(TeardownOrder) : TeardownOrder[i] = s
\* The member main() destroys after s.
AfterStage(s) == IF StageIdx(s) = Len(TeardownOrder) THEN "done"
                 ELSE TeardownOrder[StageIdx(s) + 1]
\* Member s has been destroyed.
Destroyed(s) == \/ mainPc = "done"
                \/ mainPc \in Stages /\ StageIdx(mainPc) > StageIdx(s)

TypeOK ==
    /\ S!SchedTypeOK
    /\ inJob \in BOOLEAN
    /\ fstate \in [Frames -> FrameStates]
    /\ \A f \in Frames : pc[f] \in 1..(Len(Body[f]) + 1)
    /\ cont \in [Frames -> Frames \cup {None}]
    /\ detached \in [Frames -> BOOLEAN]
    /\ exc \in [Frames -> BOOLEAN]
    /\ owner \in [Frames -> Frames \cup {"main", None}]
    /\ slot \in [Frames -> {"none", "value", "error"}]
    /\ poolQ \in Seq(Frames)
    /\ busy \in [Workers -> Frames \cup {None}]
    /\ cancelled \in BOOLEAN
    /\ timers \subseteq Frames
    /\ mainPc \in {"launch", "run", "drop", "done"} \cup Stages
    /\ faults \subseteq {"resume_destroyed", "resume_done", "write_destroyed",
                        "double_destroy", "post_destroyed"}
    /\ threw \in [Frames -> BOOLEAN]

Init ==
    /\ S!SchedInit
    /\ inJob = FALSE
    /\ fstate = [f \in Frames |-> "unborn"]
    /\ pc = [f \in Frames |-> 1]
    /\ cont = [f \in Frames |-> None]
    /\ detached = [f \in Frames |-> FALSE]
    /\ exc = [f \in Frames |-> FALSE]
    /\ owner = [f \in Frames |-> None]
    /\ slot = [f \in Frames |-> "none"]
    /\ poolQ = <<>>
    /\ busy = [w \in Workers |-> None]
    /\ cancelled = FALSE
    /\ timers = {}
    /\ mainPc = "launch"
    /\ faults = {}
    /\ threw = [f \in Frames |-> FALSE]

-----------------------------------------------------------------------------
(* main(), before run(): `auto t = app(ctx); ctx.post(t.handle());`       *)
(* The coroutine is created suspended (initial_suspend) and t keeps it.   *)
PostHandle(r) ==
    /\ mainPc = "launch"
    /\ r \in Roots /\ LaunchMode[r] = "handle" /\ fstate[r] = "unborn"
    /\ fstate' = [fstate EXCEPT ![r] = "initial"]
    /\ owner' = [owner EXCEPT ![r] = "main"]
    /\ S!Post(r)
    /\ UNCHANGED <<inJob, pc, cont, detached, exc, slot, poolQ, busy,
                   cancelled, timers, mainPc, faults, threw>>

\* Mutant of StartDetached: start() forgets `h_ = {}`, so t still owns the
\* handle it released.
StartKeepsHandle(r) ==
    /\ mainPc = "launch"
    /\ r \in Roots /\ LaunchMode[r] = "start" /\ fstate[r] = "unborn"
    /\ fstate' = [fstate EXCEPT ![r] = "initial"]
    /\ detached' = [detached EXCEPT ![r] = TRUE]
    /\ owner' = [owner EXCEPT ![r] = "main"]
    /\ S!Post(r)
    /\ UNCHANGED <<inJob, pc, cont, exc, slot, poolQ, busy,
                   cancelled, timers, mainPc, faults, threw>>

\* `std::move(t).start(sched)`: mark detached, post, release the handle.
StartDetached(r) ==
    /\ mainPc = "launch"
    /\ r \in Roots /\ LaunchMode[r] = "start" /\ fstate[r] = "unborn"
    /\ fstate' = [fstate EXCEPT ![r] = "initial"]
    /\ detached' = [detached EXCEPT ![r] = TRUE]
    /\ S!Post(r)
    /\ UNCHANGED <<inJob, pc, cont, exc, owner, slot, poolQ, busy,
                   cancelled, timers, mainPc, faults, threw>>

\* main() calls ctx.run() once every root is launched.
CallRun ==
    /\ mainPc = "launch"
    /\ \A r \in Roots : fstate[r] # "unborn"
    /\ S!RunStart
    /\ mainPc' = "run"
    /\ UNCHANGED <<inJob, fstate, pc, cont, detached, exc, owner, slot,
                   poolQ, busy, cancelled, timers, faults, threw>>

-----------------------------------------------------------------------------
(* The loop thread inside run().                                           *)
Dequeue ==
    /\ S!Dequeue
    /\ UNCHANGED <<inJob, fstate, pc, cont, detached, exc, owner, slot,
                   poolQ, busy, cancelled, timers, mainPc, faults, threw>>

\* run() returns to main().
ExitRun ==
    /\ S!Exit
    /\ mainPc' = "drop"
    /\ UNCHANGED <<inJob, fstate, pc, cont, detached, exc, owner, slot,
                   poolQ, busy, cancelled, timers, faults, threw>>

\* The job posted for h: `if (h) h.resume();`.  h is never null, so a
\* frame that was destroyed or has already finished is resumed all the same
\* (undefined behaviour, recorded in faults; the model then lets it do
\* nothing).
ResumeJob ==
    /\ loop = "exec" /\ ~inJob
    /\ inJob' = TRUE
    /\ fstate' = IF fstate[cur] \in {"initial", "suspended"}
                 THEN [fstate EXCEPT ![cur] = "running"] ELSE fstate
    /\ faults' = CASE fstate[cur] = "destroyed" -> faults \cup {"resume_destroyed"}
                   [] fstate[cur] = "final"     -> faults \cup {"resume_done"}
                   [] OTHER                     -> faults
    /\ UNCHANGED <<q, stopRequested, running, loop, cur, pc, cont, detached,
                   exc, owner, slot, poolQ, busy, cancelled, timers, mainPc, threw>>

\* h.resume() returns once no coroutine is executing any more.
JobEnd ==
    /\ inJob /\ NoneExecuting
    /\ S!JobReturn
    /\ inJob' = FALSE
    /\ UNCHANGED <<fstate, pc, cont, detached, exc, owner, slot, poolQ, busy,
                   cancelled, timers, mainPc, faults, threw>>

-----------------------------------------------------------------------------
(* The coroutine executing on the loop thread.                             *)

\* Mutant of AwaitCall: await_suspend transfers to c without storing the
\* awaiting frame as c's continuation.
AwaitCallNoContinuation(f) ==
    /\ Executing(f) /\ InBody(f) /\ Op(f).kind = "await"
    /\ LET c == Op(f).callee IN
         /\ fstate[c] = "unborn"
         /\ fstate' = [fstate EXCEPT ![f] = "suspended", ![c] = "running"]
         /\ owner' = [owner EXCEPT ![c] = f]
    /\ UNCHANGED <<q, stopRequested, running, loop, cur, inJob, pc, cont,
                   detached, exc, slot, poolQ, busy, cancelled, timers, mainPc, faults,
                   threw>>

\* `co_await c()`: c() creates c's frame suspended (initial_suspend) and a
\* task temporary owning it; task_awaiter::await_ready is false (c is not
\* done), await_suspend stores the continuation and transfers to c.
AwaitCall(f) ==
    /\ Executing(f) /\ InBody(f) /\ Op(f).kind = "await"
    /\ LET c == Op(f).callee IN
         /\ fstate[c] = "unborn"
         /\ fstate' = [fstate EXCEPT ![f] = "suspended", ![c] = "running"]
         /\ cont' = [cont EXCEPT ![c] = f]
         /\ owner' = [owner EXCEPT ![c] = f]
    /\ UNCHANGED <<q, stopRequested, running, loop, cur, inJob, pc, detached,
                   exc, slot, poolQ, busy, cancelled, timers, mainPc, faults, threw>>

\* await_resume after c finished: rethrow c's exception if set, otherwise
\* move the value out; either way the task temporary's ~task then destroys
\* c's frame.  An exception leaves f's body: unhandled_exception() stores it.
AwaitResume(f) ==
    /\ Executing(f) /\ InBody(f) /\ Op(f).kind = "await"
    /\ LET c == Op(f).callee IN
         /\ fstate[c] = "final"
         /\ fstate' = [fstate EXCEPT ![c] = "destroyed"]
         /\ \/ /\ exc[c]
               /\ exc' = [exc EXCEPT ![f] = TRUE]
               /\ pc' = [pc EXCEPT ![f] = Len(Body[f]) + 1]
            \/ /\ ~exc[c]
               /\ pc' = [pc EXCEPT ![f] = @ + 1]
               /\ UNCHANGED exc
    /\ UNCHANGED <<q, stopRequested, running, loop, cur, inJob, cont,
                   detached, owner, slot, poolQ, busy, cancelled, timers, mainPc,
                   faults, threw>>

\* thread_pool::submit's awaitable: await_ready is false; await_suspend
\* enqueues the closure [this, h] and returns void, so f stays suspended
\* and control goes back to whoever resumed the chain (the job).
Submit(f) ==
    /\ Executing(f) /\ InBody(f) /\ Op(f) = SubmitOp
    /\ slot[f] = "none"
    /\ poolQ' = Append(poolQ, f)
    /\ fstate' = [fstate EXCEPT ![f] = "suspended"]
    /\ UNCHANGED <<q, stopRequested, running, loop, cur, inJob, pc, cont,
                   detached, exc, owner, slot, busy, cancelled, timers, mainPc,
                   faults, threw>>

\* Mutant of SubmitResume: the awaitable returns the (empty) store without
\* checking ex.
SubmitResumeNoRethrow(f) ==
    /\ Executing(f) /\ InBody(f) /\ Op(f) = SubmitOp
    /\ slot[f] # "none"
    /\ pc' = [pc EXCEPT ![f] = @ + 1]
    /\ UNCHANGED <<q, stopRequested, running, loop, cur, inJob, fstate, cont,
                   detached, exc, owner, slot, poolQ, busy, cancelled, timers, mainPc,
                   faults, threw>>

\* The awaitable's await_resume, once the worker posted h and the loop
\* resumed f: rethrow ex if set, else take the stored value; then
\* `co_return` it (an exception leaves the submit coroutine's body).
SubmitResume(f) ==
    /\ Executing(f) /\ InBody(f) /\ Op(f) = SubmitOp
    /\ slot[f] # "none"
    /\ \/ /\ slot[f] = "error"
          /\ exc' = [exc EXCEPT ![f] = TRUE]
          /\ pc' = [pc EXCEPT ![f] = Len(Body[f]) + 1]
       \/ /\ slot[f] = "value"
          /\ pc' = [pc EXCEPT ![f] = @ + 1]
          /\ UNCHANGED exc
    /\ UNCHANGED <<q, stopRequested, running, loop, cur, inJob, fstate, cont,
                   detached, owner, slot, poolQ, busy, cancelled, timers, mainPc,
                   faults, threw>>

\* `ctx.stop()` from coroutine code.
CallStop(f) ==
    /\ Executing(f) /\ InBody(f) /\ Op(f) = StopOp
    /\ S!Stop
    /\ pc' = [pc EXCEPT ![f] = @ + 1]
    /\ UNCHANGED <<inJob, fstate, cont, detached, exc, owner, slot, poolQ,
                   busy, cancelled, timers, mainPc, faults, threw>>

\* scheduler::schedule_awaitable: await_suspend posts h to the loop and f
\* suspends; await_resume does nothing, so f continues after the co_await
\* when the loop reaches that job.
Yield(f) ==
    /\ Executing(f) /\ InBody(f) /\ Op(f) = YieldOp
    /\ S!Post(f)
    /\ fstate' = [fstate EXCEPT ![f] = "suspended"]
    /\ pc' = [pc EXCEPT ![f] = @ + 1]
    /\ UNCHANGED <<stopRequested, running, loop, cur, inJob, cont, detached,
                   exc, owner, slot, poolQ, busy, cancelled, timers, mainPc, faults,
                   threw>>

\* timer::sleep_for(d) (example 00): the awaitable hands h to the timer
\* thread, which posts it back once d has elapsed (spec 2, 5); f suspends
\* and continues after the co_await when the loop reaches that job.
Sleep(f) ==
    /\ Executing(f) /\ InBody(f) /\ Op(f) = SleepOp
    /\ timers' = timers \cup {f}
    /\ fstate' = [fstate EXCEPT ![f] = "suspended"]
    /\ pc' = [pc EXCEPT ![f] = @ + 1]
    /\ UNCHANGED <<q, stopRequested, running, loop, cur, inJob, cont,
                   detached, exc, owner, slot, poolQ, busy, cancelled, mainPc,
                   faults, threw>>

\* The timer thread: a deadline passes and the handle is posted to the
\* loop.  It runs until ~io_context destroys timer_ (DestroyTimer).
TimerFire(f) ==
    /\ f \in timers
    /\ S!Post(f)
    /\ timers' = timers \ {f}
    /\ UNCHANGED <<stopRequested, running, loop, cur, inJob, fstate, pc,
                   cont, detached, exc, owner, slot, poolQ, busy, cancelled,
                   mainPc, faults, threw>>

\* `co_return v` (return_value emplaces the value), or the body throws
\* and unhandled_exception() stores the exception.
Return(f) ==
    /\ Executing(f) /\ InBody(f) /\ Op(f) = ReturnOp
    /\ pc' = [pc EXCEPT ![f] = @ + 1]
    /\ \/ UNCHANGED <<exc, threw>>
       \/ /\ f \in MayThrow
          /\ exc' = [exc EXCEPT ![f] = TRUE]
          /\ threw' = [threw EXCEPT ![f] = TRUE]
    /\ UNCHANGED <<q, stopRequested, running, loop, cur, inJob, fstate, cont,
                   detached, owner, slot, poolQ, busy, cancelled, timers, mainPc,
                   faults>>

\* final_awaiter::await_suspend: transfer to the continuation if there is
\* one; else destroy the frame if detached; else stay suspended at the
\* final point (the task value will destroy it).
FinalSuspend(f) ==
    /\ Executing(f) /\ BodyDone(f)
    /\ \/ /\ cont[f] # None
          /\ fstate' = [fstate EXCEPT ![f] = "final", ![cont[f]] = "running"]
       \/ /\ cont[f] = None /\ detached[f]
          /\ fstate' = [fstate EXCEPT ![f] = "destroyed"]
       \/ /\ cont[f] = None /\ ~detached[f]
          /\ fstate' = [fstate EXCEPT ![f] = "final"]
    /\ UNCHANGED <<q, stopRequested, running, loop, cur, inJob, pc, cont,
                   detached, exc, owner, slot, poolQ, busy, cancelled, timers, mainPc,
                   faults, threw>>

-----------------------------------------------------------------------------
(* thread_pool workers.                                                    *)

\* worker_loop: pop the oldest closure under the lock.
WorkerTake(w) ==
    /\ busy[w] = None /\ poolQ # <<>>
    /\ busy' = [busy EXCEPT ![w] = Head(poolQ)]
    /\ poolQ' = Tail(poolQ)
    /\ UNCHANGED <<q, stopRequested, running, loop, cur, inJob, fstate, pc,
                   cont, detached, exc, owner, slot, cancelled, timers, mainPc,
                   faults, threw>>

\* cancel_token::is_cancelled(): `st_ ? st_->is_cancelled() : false`; the
\* submits' token has a state (a live cancel_source) when Cancellable.
TokenIsCancelled == Cancellable /\ cancelled

\* Mutant of WorkerRun: a cancelled closure returns early, before ctx_post.
WorkerRunCancelNoPost(w) ==
    /\ busy[w] # None
    /\ LET f == busy[w] IN
         /\ faults' = IF fstate[f] = "destroyed"
                      THEN faults \cup {"write_destroyed"} ELSE faults
         /\ \/ /\ TokenIsCancelled
               /\ slot' = [slot EXCEPT ![f] = "error"]
               /\ UNCHANGED q
            \/ /\ ~TokenIsCancelled
               /\ slot' = [slot EXCEPT ![f] = "value"]
               /\ S!Post(f)
            \/ /\ ~TokenIsCancelled /\ f \in FnMayThrow
               /\ slot' = [slot EXCEPT ![f] = "error"]
               /\ S!Post(f)
    /\ busy' = [busy EXCEPT ![w] = None]
    /\ UNCHANGED <<stopRequested, running, loop, cur, inJob, fstate, pc, cont,
                   detached, exc, owner, poolQ, cancelled, timers, mainPc, threw>>

\* The closure [this, h]: if ct.is_cancelled() store a canceled error,
\* else run fn and store its value or its exception, all in the awaitable
\* inside frame f; then pool->ctx_post(h).  Nothing keeps f alive, nor
\* the scheduler ctx_post pushes into.
WorkerRun(w) ==
    /\ busy[w] # None
    /\ LET f == busy[w] IN
         /\ \/ TokenIsCancelled /\ slot' = [slot EXCEPT ![f] = "error"]
            \/ ~TokenIsCancelled /\ slot' = [slot EXCEPT ![f] = "value"]
            \/ ~TokenIsCancelled /\ f \in FnMayThrow
               /\ slot' = [slot EXCEPT ![f] = "error"]
         /\ faults' = faults \cup
                (IF fstate[f] = "destroyed" THEN {"write_destroyed"} ELSE {})
                \cup (IF Destroyed("sched") THEN {"post_destroyed"} ELSE {})
         /\ S!Post(f)
    /\ busy' = [busy EXCEPT ![w] = None]
    /\ UNCHANGED <<stopRequested, running, loop, cur, inJob, fstate, pc, cont,
                   detached, exc, owner, poolQ, cancelled, timers, mainPc, threw>>

-----------------------------------------------------------------------------
(* Other threads.                                                          *)

\* cancel_source::request_cancel() on the source of the submits' token.
RequestCancel ==
    /\ Cancellable /\ ~cancelled
    /\ cancelled' = TRUE
    /\ UNCHANGED <<q, stopRequested, running, loop, cur, inJob, fstate, pc,
                   cont, detached, exc, owner, slot, poolQ, busy, timers,
                   mainPc, faults, threw>>

\* ctx.stop() called by someone other than the coroutines above: an
\* on_signal callback (examples 07, 08) or another thread.
ExternalStop ==
    /\ ExtStop /\ ~stopRequested
    /\ S!Stop
    /\ UNCHANGED <<inJob, fstate, pc, cont, detached, exc, owner, slot, poolQ,
                   busy, cancelled, timers, mainPc, faults, threw>>

-----------------------------------------------------------------------------
(* main() after run() returned.                                            *)

\* `return 0;`: t goes out of scope before ctx; ~task destroys the frame
\* it owns, and with it the task temporaries the frame is suspended on.
DropTasks ==
    /\ mainPc = "drop"
    /\ LET held   == {f \in Frames : owner[f] = "main"}
           doomed == UNION {Tree(r) : r \in held}
       IN /\ fstate' = [f \in Frames |-> IF f \in doomed THEN "destroyed"
                                                        ELSE fstate[f]]
          /\ faults' = IF \E r \in held : fstate[r] = "destroyed"
                       THEN faults \cup {"double_destroy"} ELSE faults
    /\ owner' = [f \in Frames |-> IF owner[f] = "main" THEN None ELSE owner[f]]
    /\ mainPc' = TeardownOrder[1]
    /\ UNCHANGED <<q, stopRequested, running, loop, cur, inJob, pc, cont,
                   detached, exc, slot, poolQ, busy, cancelled, timers, threw>>

\* ~timer stops and joins the timer thread; the entries it still holds
\* are dropped without posting their handles.
DestroyTimer ==
    /\ mainPc = "timer"
    /\ timers' = {}
    /\ mainPc' = AfterStage("timer")
    /\ UNCHANGED <<q, stopRequested, running, loop, cur, inJob, fstate, pc,
                   cont, detached, exc, owner, slot, poolQ, busy, cancelled,
                   faults, threw>>

\* ~thread_pool stops and joins the workers, which drain the queue first.
PoolJoin ==
    /\ mainPc = "pool"
    /\ poolQ = <<>>
    /\ \A w \in Workers : busy[w] = None
    /\ mainPc' = AfterStage("pool")
    /\ UNCHANGED <<q, stopRequested, running, loop, cur, inJob, fstate, pc,
                   cont, detached, exc, owner, slot, poolQ, busy, cancelled, timers,
                   faults, threw>>

\* ~scheduler destroys q_ with the handles still in it, never resumed.
DestroySched ==
    /\ mainPc = "sched"
    /\ q' = <<>>
    /\ mainPc' = AfterStage("sched")
    /\ UNCHANGED <<stopRequested, running, loop, cur, inJob, fstate, pc,
                   cont, detached, exc, owner, slot, poolQ, busy, cancelled,
                   timers, faults, threw>>

-----------------------------------------------------------------------------
(* The main/loop thread runs main(), run() and, inside run()'s jobs, the   *)
(* coroutines; the workers run closures; other threads may cancel or stop. *)

CoroutineStep(f) ==
    \/ AwaitCall(f)
    \/ AwaitResume(f)
    \/ Submit(f)
    \/ SubmitResume(f)
    \/ CallStop(f)
    \/ Yield(f)
    \/ Sleep(f)
    \/ Return(f)
    \/ FinalSuspend(f)

MainThread ==
    \/ \E r \in Roots : PostHandle(r) \/ StartDetached(r)
    \/ CallRun
    \/ Dequeue
    \/ ExitRun
    \/ ResumeJob
    \/ JobEnd
    \/ \E f \in Frames : CoroutineStep(f)
    \/ DropTasks
    \/ DestroyTimer
    \/ PoolJoin
    \/ DestroySched

Worker(w) == WorkerTake(w) \/ WorkerRun(w)

TimerThread == \E f \in Frames : TimerFire(f)

Next ==
    \/ MainThread
    \/ \E w \in Workers : Worker(w)
    \/ TimerThread
    \/ RequestCancel
    \/ ExternalStop

\* The main thread, every worker and the timer thread keep running while they have something
\* to do (their condition variables are notified on every enqueue); nobody
\* is obliged to cancel or stop.
Spec ==
    /\ Init /\ [][Next]_vars
    /\ WF_vars(MainThread)
    /\ \A w \in Workers : WF_vars(Worker(w))
    /\ WF_vars(TimerThread)

-----------------------------------------------------------------------------
(* Properties                                                              *)

\* No coroutine frame is resumed after it was destroyed or finished, no
\* frame is destroyed twice, and no pool closure writes its result into an
\* awaitable whose frame is gone:
\* the handles in the loop queue and the pool closures' `this` are raw
\* pointers that nothing keeps alive (task.hpp ~task/destroy, the closure
\* of thread_pool::submit, the examples' main()).
NoUseAfterFree == faults = {}

\* f failed: its own body threw, its pool callable threw or was cancelled,
\* or a task it awaited failed.
RECURSIVE Fails(_)
Fails(f) ==
    \/ threw[f]
    \/ slot[f] = "error"
    \/ \E i \in 1..Len(Body[f]) :
          /\ Body[f][i].kind = "await"
          /\ fstate[Body[f][i].callee] # "unborn"
          /\ Fails(Body[f][i].callee)

\* A finished task holds an exception exactly when something in the chain
\* of tasks it awaited failed (a throw, a throwing pool callable, or a
\* cancelled token observed by the worker): failures travel from the worker
\* through the awaitable, the submit coroutine and every awaiting frame's
\* await_resume, and never appear from nowhere (spec 4.2, 4.4, 7).
FailurePropagates ==
    \A f \in Frames : fstate[f] = "final" => (exc[f] <=> Fails(f))

\* A coroutine suspended on a pool submission or on a timer sleep is
\* resumed on the loop thread, unless run() has returned first: the
\* worker runs the closure, or the timer thread sees the deadline, and
\* posts h, and the loop dequeues it (spec 2, 4.4, 5, property 8).
OffloadResumed ==
    \A f \in Frames :
        (/\ fstate[f] = "suspended"
         /\ f \in timers \/ (InBody(f) /\ Op(f) = SubmitOp))
            ~> (fstate[f] # "suspended" \/ loop = "exited")

\* r's body calls ctx.stop().
CallsStop(r) == \E i \in 1..Len(Body[r]) : Body[r][i] = StopOp

\* Once main() has entered run(), the program reaches its end, unless a
\* root that was to call ctx.stop() finished with an exception instead:
\* examples/00 stops the loop only on app's success path, so a failure in
\* app or in anything it awaits leaves run() waiting forever.  Every
\* await, pool offload and final_awaiter on the way must hand control
\* back for this to hold (spec 4.1, 4.2, 4.4).
RunEndsUnlessStopperFails ==
    (mainPc = "run")
        ~> \/ mainPc = "done"
           \/ \E r \in Roots : CallsStop(r) /\ fstate[r] = "final" /\ exc[r]

\* A task released with start() has its frame destroyed by the time the
\* program ends (spec property 7: "the scheduler must eventually destroy
\* the frame").
DetachedFrameReclaimed ==
    mainPc = "done" => \A f \in Frames : detached[f] => fstate[f] = "destroyed"

=============================================================================
