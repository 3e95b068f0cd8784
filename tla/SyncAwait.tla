----------------------------- MODULE SyncAwait -----------------------------
(***************************************************************************)
(* The sync_await helper of the task smoke test (src/unnamed/part_010),    *)
(* which drives a task to completion without a scheduler:                  *)
(*                                                                         *)
(*     runner r{std::move(t)};                                             *)
(*     auto h = r.run().handle();                                          *)
(*     while (!h.done()) h.resume();                                       *)
(*     return r.value;                                                     *)
(*                                                                         *)
(* r.run() is a task<void> coroutine whose body is `co_await inner;`.      *)
(* The frames of the awaited tasks follow the task protocol of            *)
(* TaskRuntime, whose coroutine steps are reused here with the event      *)
(* loop and the pool absent.                                               *)
(*                                                                         *)
(* `freed` is the memory of frames that were destroyed.  Touching a freed *)
(* frame is undefined; the outcomes modelled are a crash, or the freed    *)
(* memory still holding the frame, in which case it carries on.           *)
(***************************************************************************)
EXTENDS Naturals, Sequences

CONSTANTS Frames,    \* coroutine frames: the runner and the awaited tasks
          Runner,    \* the frame of r.run()
          Inner,     \* the task passed to sync_await
          Body,      \* as in TaskRuntime
          MayThrow,  \* frames whose body throws
          None

VARIABLES fstate, pc, cont, detached, exc, owner, faults, threw,
          freed,     \* frames whose memory was released by destroy()
          sp         \* sync_await: "make", "test", "resume", "inresume",
                     \* "return", "done", "crashed"

\* The parts of TaskRuntime sync_await never uses (no scheduler, no pool):
\* they keep their initial values.
VARIABLES q, stopRequested, running, loop, cur, inJob, slot, poolQ, busy,
          cancelled, timers, mainPc

unused == <<q, stopRequested, running, loop, cur, inJob, slot, poolQ, busy,
            cancelled, timers, mainPc>>

vars == <<fstate, pc, cont, detached, exc, owner, faults, threw, freed, sp,
          unused>>

T == INSTANCE TaskRuntime
       WITH Roots <- {}, LaunchMode <- [r \in {} |-> "handle"],
            FnMayThrow <- {}, Workers <- {}, Cancellable <- FALSE,
            ExtStop <- FALSE

ASSUME /\ {Runner, Inner} \subseteq Frames /\ Runner # Inner
       /\ Body[Runner] = <<[kind |-> "await", callee |-> Inner],
                           [kind |-> "return", callee |-> None]>>

TypeOK ==
    /\ fstate \in [Frames -> T!FrameStates]
    /\ \A f \in Frames : pc[f] \in 1..(Len(Body[f]) + 1)
    /\ cont \in [Frames -> Frames \cup {None}]
    /\ owner \in [Frames -> Frames \cup {"r", None}]
    /\ faults \subseteq {"read_destroyed", "resume_destroyed"}
    /\ freed \subseteq Frames
    /\ sp \in {"make", "test", "resume", "inresume", "return", "done",
               "crashed"}

\* sync_await(chain()): the argument's frame is created suspended and
\* moved into r.inner.
Init ==
    /\ fstate = [f \in Frames |-> IF f = Inner THEN "initial" ELSE "unborn"]
    /\ pc = [f \in Frames |-> 1]
    /\ cont = [f \in Frames |-> None]
    /\ detached = [f \in Frames |-> FALSE]
    /\ exc = [f \in Frames |-> FALSE]
    /\ owner = [f \in Frames |-> IF f = Inner THEN "r" ELSE None]
    /\ faults = {}
    /\ threw = [f \in Frames |-> FALSE]
    /\ freed = {}
    /\ sp = "make"
    /\ q = <<>> /\ stopRequested = FALSE /\ running = FALSE /\ loop = "idle"
    /\ cur = None /\ inJob = FALSE /\ slot = [f \in Frames |-> "none"]
    /\ poolQ = <<>> /\ busy = [w \in {} |-> None] /\ cancelled = FALSE
    /\ timers = {}
    /\ mainPc = "launch"

\* `auto h = r.run().handle();`: r.run() creates the runner's frame at its
\* initial suspend, returned in a temporary task<void>; h copies the
\* handle, and at the end of the full expression the temporary's ~task
\* destroys the frame.
MakeHandle ==
    /\ sp = "make"
    /\ fstate' = [fstate EXCEPT ![Runner] = "initial"]
    /\ freed' = freed \cup {Runner}
    /\ sp' = "test"
    /\ UNCHANGED unused
    /\ UNCHANGED <<pc, cont, detached, exc, owner, faults, threw>>

\* Undefined behaviour on a freed frame: the program crashes, or the
\* memory still holds the frame and the access behaves as on a live one.
Touch(kind) ==
    IF Runner \in freed THEN faults \cup {kind} ELSE faults

\* `while (!h.done())`.
LoopTest ==
    /\ sp = "test"
    /\ faults' = Touch("read_destroyed")
    /\ \/ /\ Runner \in freed
          /\ sp' = "crashed"
       \/ sp' = IF fstate[Runner] = "final" THEN "return" ELSE "resume"
    /\ UNCHANGED unused
    /\ UNCHANGED <<fstate, pc, cont, detached, exc, owner, threw, freed>>

\* `h.resume();`
LoopResume ==
    /\ sp = "resume"
    /\ faults' = Touch("resume_destroyed")
    /\ \/ /\ Runner \in freed
          /\ sp' = "crashed"
          /\ UNCHANGED fstate
       \/ /\ fstate' = [fstate EXCEPT ![Runner] = "running"]
          /\ sp' = "inresume"
    /\ UNCHANGED unused
    /\ UNCHANGED <<pc, cont, detached, exc, owner, threw, freed>>

\* h.resume() returns once no coroutine is executing.
ResumeReturns ==
    /\ sp = "inresume" /\ T!NoneExecuting
    /\ sp' = "test"
    /\ UNCHANGED unused
    /\ UNCHANGED <<fstate, pc, cont, detached, exc, owner, faults, threw,
                   freed>>

\* `return std::move(r.value);` (or return for void); then ~runner
\* destroys r.inner, the task that owns the inner frame.
SyncReturn ==
    /\ sp = "return"
    /\ fstate' = [f \in Frames |-> IF f \in T!Tree(Inner) THEN "destroyed"
                                                        ELSE fstate[f]]
    /\ freed' = freed \cup T!Tree(Inner)
    /\ sp' = "done"
    /\ UNCHANGED unused
    /\ UNCHANGED <<pc, cont, detached, exc, owner, faults, threw>>

-----------------------------------------------------------------------------
(* runner::run(): `co_await inner;` on the member task (operator co_await  *)
(* &), so the inner frame is not destroyed when the await ends: r owns it. *)

\* await_ready is false (inner not done); await_suspend stores the runner
\* as continuation and transfers to inner.
RunnerAwaitCall ==
    /\ T!Executing(Runner) /\ pc[Runner] = 1
    /\ fstate[Inner] = "initial"
    /\ fstate' = [fstate EXCEPT ![Runner] = "suspended", ![Inner] = "running"]
    /\ cont' = [cont EXCEPT ![Inner] = Runner]
    /\ UNCHANGED unused
    /\ UNCHANGED <<pc, detached, exc, owner, faults, threw, freed, sp>>

\* await_resume: rethrow inner's exception (it leaves the runner's body
\* and unhandled_exception stores it), else take the value.
RunnerAwaitResume ==
    /\ T!Executing(Runner) /\ pc[Runner] = 1
    /\ fstate[Inner] = "final"
    /\ \/ /\ exc[Inner]
          /\ exc' = [exc EXCEPT ![Runner] = TRUE]
          /\ pc' = [pc EXCEPT ![Runner] = Len(Body[Runner]) + 1]
       \/ /\ ~exc[Inner]
          /\ pc' = [pc EXCEPT ![Runner] = 2]
          /\ UNCHANGED exc
    /\ UNCHANGED unused
    /\ UNCHANGED <<fstate, cont, detached, owner, faults, threw, freed, sp>>

CoroutineStep(f) ==
    \/ /\ f = Runner
       /\ \/ RunnerAwaitCall \/ RunnerAwaitResume
          \/ T!Return(f) \/ T!FinalSuspend(f)
       /\ UNCHANGED <<freed, sp>>
    \/ /\ f # Runner
       /\ T!CoroutineStep(f)
       /\ UNCHANGED <<freed, sp>>

Next ==
    \/ MakeHandle
    \/ LoopTest
    \/ LoopResume
    \/ ResumeReturns
    \/ SyncReturn
    \/ \E f \in Frames : CoroutineStep(f)

\* One thread runs everything.
Spec == Init /\ [][Next]_vars /\ WF_vars(Next)

-----------------------------------------------------------------------------
(* Properties                                                              *)

\* sync_await never reads or resumes a coroutine frame that was destroyed
\* (the handle it loops on must stay owned while it is used).
NoUseAfterFree == faults = {}

====
