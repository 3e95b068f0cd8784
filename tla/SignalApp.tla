----------------------------- MODULE SignalApp -----------------------------
(***************************************************************************)
(* examples/07 (src/unnamed/part_007): a coroutine that waits for SIGINT  *)
(* or SIGTERM through the signal bridge, on the event loop.                *)
(*                                                                         *)
(*   app:   sig.add(SIGINT); sig.add(SIGTERM);                             *)
(*          sig.on_signal([&](int){ ctx.stop(); });                        *)
(*          int s = co_await sig.async_wait();  ctx.stop();  co_return;    *)
(*   main:  auto t = app(ctx); ctx.post(t.handle()); ctx.run();            *)
(*          return 0;   -- ~task destroys the frame, then ~io_context      *)
(*          destroys signals_, whose ~signal_set calls stop() and joins    *)
(*          the capture thread.                                            *)
(*                                                                         *)
(* The task<int> that async_wait returns is awaited straight away; its     *)
(* frame and the app's are folded into the one frame App, which is the    *)
(* waiter.                                                                 *)
(***************************************************************************)
EXTENDS Naturals, Sequences

CONSTANTS App, SIGINT, SIGTERM, MaxCaptures, Canceled, None

VARIABLES q, stopRequested, running, loop, cur, inJob,
          sigs, onSig, pending, waiter, wake, sigStop, capture, captured,
          received,
          fstate,   \* the app frame: "initial", "running", "suspended",
                    \* "final", "destroyed"
          apc,      \* the app's next statement: "add_int", "add_term",
                    \* "on_signal", "wait", "resume", "stop", "return", "end"
          threw,    \* the app's body left with an exception
          faults,   \* undefined behaviour performed: a resume of a frame
                    \* that is not suspended
          mainPc    \* main(): "launch", "run", "drop", "sigstop", "join",
                    \* "done"

schedVars == <<q, stopRequested, running, loop, cur>>
appVars == <<inJob, fstate, apc, threw, faults, mainPc>>
bridgeVars == <<sigs, onSig, pending, waiter, wake, sigStop, capture,
                captured, received>>
vars == <<schedVars, sigs, onSig, pending, waiter, wake, sigStop, capture,
          captured, received, appVars>>

B == INSTANCE SignalSet
       WITH Signals <- {SIGINT, SIGTERM}, Frames <- {App}, HandlerStops <- TRUE

TypeOK ==
    /\ B!S!SchedTypeOK
    /\ B!BridgeTypeOK
    /\ inJob \in BOOLEAN
    /\ fstate \in {"initial", "running", "suspended", "final", "destroyed"}
    /\ apc \in {"add_int", "add_term", "on_signal", "wait", "resume", "stop",
                "return", "end"}
    /\ threw \in BOOLEAN
    /\ faults \subseteq {"resume_not_suspended"}
    /\ mainPc \in {"launch", "run", "drop", "sigstop", "join", "done"}

\* `auto t = app(ctx); ctx.post(t.handle());`
Init ==
    /\ q = <<App>>
    /\ stopRequested = FALSE /\ running = FALSE /\ loop = "idle"
    /\ cur = None /\ inJob = FALSE
    /\ B!BridgeInit
    /\ fstate = "initial" /\ apc = "add_int" /\ threw = FALSE
    /\ faults = {}
    /\ mainPc = "launch"

-----------------------------------------------------------------------------
(* main() and the loop thread.                                             *)

\* ctx.run()
CallRun ==
    /\ mainPc = "launch"
    /\ B!S!RunStart
    /\ mainPc' = "run"
    /\ UNCHANGED <<inJob, fstate, apc, threw, faults>>
    /\ UNCHANGED bridgeVars

Dequeue ==
    /\ B!S!Dequeue
    /\ UNCHANGED appVars /\ UNCHANGED bridgeVars

\* The popped job is the app's handle: `if (h) h.resume();`.
ResumeJob ==
    /\ loop = "exec" /\ cur = App /\ ~inJob
    /\ inJob' = TRUE
    /\ IF fstate \in {"initial", "suspended"}
       THEN fstate' = "running" /\ UNCHANGED faults
       ELSE faults' = faults \cup {"resume_not_suspended"} /\ UNCHANGED fstate
    /\ UNCHANGED <<schedVars, apc, threw, mainPc>> /\ UNCHANGED bridgeVars

\* The resumed coroutine has suspended or finished: the job returns.
JobEnd ==
    /\ inJob /\ fstate # "running"
    /\ B!S!JobReturn
    /\ inJob' = FALSE
    /\ UNCHANGED <<fstate, apc, threw, faults, mainPc>>
    /\ UNCHANGED bridgeVars

\* The popped job is a signal delivery.
Deliver ==
    /\ B!RunDelivery
    /\ UNCHANGED appVars

\* run() returns: the queue is empty and stop was requested.
ExitRun ==
    /\ B!S!Exit
    /\ mainPc' = "drop"
    /\ UNCHANGED <<inJob, fstate, apc, threw, faults>>
    /\ UNCHANGED bridgeVars

\* `return 0;`: t is destroyed first; ~task destroys the frame.
DropTask ==
    /\ mainPc = "drop"
    /\ fstate' = "destroyed"
    /\ mainPc' = "sigstop"
    /\ UNCHANGED <<schedVars, inJob, apc, threw, faults>>
    /\ UNCHANGED bridgeVars

\* ~io_context destroys signals_: ~signal_set calls stop() ...
TeardownStop ==
    /\ mainPc = "sigstop"
    /\ B!SigStop
    /\ mainPc' = "join"
    /\ UNCHANGED <<inJob, fstate, apc, threw, faults>>

\* ... and joins the capture thread if it was started.
TeardownJoin ==
    /\ mainPc = "join"
    /\ capture \in {"idle", "exited"}
    /\ mainPc' = "done"
    /\ UNCHANGED <<schedVars, inJob, fstate, apc, threw, faults>>
    /\ UNCHANGED bridgeVars

-----------------------------------------------------------------------------
(* The app coroutine, executing on the loop thread.                        *)

AppRuns(at) == fstate = "running" /\ apc = at

AppStep(from, to) == AppRuns(from) /\ apc' = to

\* sig.add(SIGINT); sig.add(SIGTERM);
AppAdd ==
    \/ AppStep("add_int", "add_term") /\ B!Add(SIGINT)
    \/ AppStep("add_term", "on_signal") /\ B!Add(SIGTERM)

\* sig.on_signal([&](int s){ ... ctx.stop(); });
AppOnSignal ==
    /\ AppStep("on_signal", "wait")
    /\ B!OnSignal

\* `co_await sig.async_wait()`: ready with a pending signal, else suspend
\* as the waiter.
AppAwait ==
    /\ AppStep("wait", "resume")
    /\ \/ B!WaitReady(App) /\ UNCHANGED fstate
       \/ B!WaitSuspend(App) /\ fstate' = "suspended"

\* await_resume: the signal number, or the cancellation stop() handed over,
\* which propagates out of the body (unhandled_exception, final_suspend).
AppResume ==
    /\ AppRuns("resume")
    /\ IF wake[App] = Canceled
       THEN apc' = "end" /\ threw' = TRUE /\ fstate' = "final"
       ELSE apc' = "stop" /\ UNCHANGED <<threw, fstate>>

\* ctx.stop();
AppStop ==
    /\ AppStep("stop", "return")
    /\ B!S!Stop

\* co_return; final_awaiter: no continuation, not detached: the frame
\* stays at its final suspend until t destroys it.
AppReturn ==
    /\ AppStep("return", "end")
    /\ fstate' = "final"

AppCoroutine ==
    \/ AppAdd /\ UNCHANGED <<schedVars, inJob, fstate, threw, faults, mainPc>>
    \/ AppOnSignal /\ UNCHANGED <<schedVars, inJob, fstate, threw, faults,
                                  mainPc>>
    \/ AppAwait /\ UNCHANGED <<schedVars, inJob, threw, faults, mainPc>>
    \/ AppResume /\ UNCHANGED <<schedVars, inJob, faults, mainPc>>
                 /\ UNCHANGED bridgeVars
    \/ AppStop /\ UNCHANGED <<inJob, fstate, threw, faults, mainPc>>
               /\ UNCHANGED bridgeVars
    \/ AppReturn /\ UNCHANGED <<schedVars, inJob, threw, faults, mainPc>>
                 /\ UNCHANGED bridgeVars

-----------------------------------------------------------------------------

MainThread ==
    \/ CallRun \/ Dequeue \/ ResumeJob \/ JobEnd \/ Deliver \/ ExitRun
    \/ AppCoroutine
    \/ DropTask \/ TeardownStop \/ TeardownJoin

CaptureThread ==
    \/ \E s \in {SIGINT, SIGTERM} : B!Capture(s) /\ UNCHANGED appVars
    \/ B!CaptureExit /\ UNCHANGED appVars

Next == MainThread \/ CaptureThread

\* The main/loop thread runs whenever it can (its condition variable is
\* notified on every post and stop).  The capture thread is assumed to leave
\* its wait once stop() asked it to (spec 4.5); when the OS raises a signal
\* is not up to the program, so Capture has no fairness.
Spec == Init /\ [][Next]_vars
             /\ WF_vars(MainThread)
             /\ WF_vars(B!CaptureExit /\ UNCHANGED appVars)

-----------------------------------------------------------------------------
(* Properties                                                              *)

AppFinishesBeforeRunReturns ==
    /\ loop = "exited" => fstate \in {"final", "destroyed"}
    /\ faults = {}

\* Once the OS has raised one of the signals, the program ends: the
\* delivery stops the loop and wakes the app, run() returns, and
\* ~signal_set stops and joins the capture thread.
SignalEndsProgram == (Len(captured) > 0) ~> (mainPc = "done")

====
