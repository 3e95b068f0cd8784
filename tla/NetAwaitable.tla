---------------------------- MODULE NetAwaitable ----------------------------
(***************************************************************************)
(* The network bridge: cnerium::net::detail::asio_awaitable               *)
(* (src/src/core/scheduler.cpp) used by coroutines on the event loop, the  *)
(* way the echo server of examples/08 (src/unnamed/part_008) uses it.      *)
(*                                                                         *)
(*  - await_suspend: if the token is cancelled, post h and return; else   *)
(*    call the starter with a completion callback [this, h]; if the       *)
(*    starter throws, store the exception and post h.                     *)
(*  - The callback runs on the net thread when the reactor completes the  *)
(*    operation: it stores ec (and the value) into the awaitable, then    *)
(*    posts h to the loop.                                                 *)
(*  - await_resume: throw canceled if the token is cancelled, rethrow ex, *)
(*    throw on ec, else move the value out.                               *)
(*  - The server sets up the signal bridge, awaits async_listen (a       *)
(*    failure escapes the coroutine), then loops on async_accept while    *)
(*    ctx.is_running(), which is always true on the loop thread inside    *)
(*    run(): each accepted connection is handed to spawn_detached(        *)
(*    handle_client(...)), and only a failed accept breaks the loop, to   *)
(*    listener->close(); ctx.stop().  A client handler loops read, write *)
(*    until one fails or reads 0 bytes, then returns; its detached       *)
(*    wrapper destroys its frame.                                         *)
(*  - main(): post the server's handle, run(), destroy the task, then     *)
(*    ~io_context destroys net_ first, whose stop() ends the reactor;     *)
(*    handlers still pending are dropped without being called; then       *)
(*    signals_, whose ~signal_set stops and joins the capture thread.      *)
(*  - The signal bridge (SignalSet) delivers a captured signal on the     *)
(*    loop, where the server's on_signal callback calls ctx.stop().       *)
(*                                                                         *)
(* A coroutine's body is a sequence of operations: "signals" (the        *)
(* server's sig.add(SIGINT); sig.add(SIGTERM); sig.on_signal(...ctx.stop  *)
(* ...)), the awaits "listen", "accept", "read", "write" (each one        *)
(* co_await of an asio_awaitable), "stop" (ctx.stop()) and "return"       *)
(* (co_return).  The peer is bounded: it opens at most one connection   *)
(* per client frame and sends at most MaxReads chunks on each.            *)
(***************************************************************************)
EXTENDS Naturals, Sequences, FiniteSets

CONSTANTS Server,             \* the server coroutine; main() posts its handle
          Clients,            \* handle_client frames, one per connection
          Body,               \* [Frames -> Seq(Ops)]
          StarterMayThrow,    \* the starter may throw
          ThrowAfterRegister, \* subset of BOOLEAN: whether a throwing starter
                              \* may already have registered the callback
          Cancellable,        \* the awaits carry the token of a live source
          MaxCaptures,        \* bound on the signals the OS raises
          MaxReads,           \* bound on the chunks a peer sends
          None

Frames == {Server} \cup Clients
NetOps == {"listen", "accept", "read", "write"}
Ops == NetOps \cup {"signals", "stop", "return"}

ASSUME /\ Body \in [Frames -> Seq(Ops)]
       /\ \A f \in Frames : Len(Body[f]) > 0 /\ Body[f][Len(Body[f])] = "return"
       /\ ThrowAfterRegister \subseteq BOOLEAN
       /\ {StarterMayThrow, Cancellable} \subseteq BOOLEAN

VARIABLES q, stopRequested, running, loop, cur,  \* the scheduler
          inJob,       \* the popped job's fn() is executing
          fstate,      \* "unborn" (client not accepted yet), "initial",
                       \* "running", "suspended", "final", "destroyed"
          pc,          \* next operation of the body
          waiting,     \* f is suspended inside an asio_awaitable
          res,         \* the awaitable's res.ec: "none" (not written),
                       \* "ok" (value emplaced) or "err"
          ex,          \* the awaitable's ex is set
          registered,  \* [Frames -> Nat]: 0, or the pc of the await whose
                       \* callback the reactor still holds
          cancelled,   \* cancel_state::cancelled_
          netUp,       \* the net thread is running the reactor
          reads,       \* [Frames -> Nat]: chunks the peer sent to f
          mainPc,      \* main(): "launch", "run", "drop", "netstop",
                       \* "sigstop", "join", "done"
          faults       \* undefined behaviour the program has performed

\* The signal bridge (ctx.signals()).
VARIABLES sigs, onSig, pending, waiter, wake, sigStop, capture, captured,
          received

bridgeVars == <<sigs, onSig, pending, waiter, wake, sigStop, capture,
                captured, received>>
netVars == <<inJob, fstate, pc, waiting, res, ex, registered, cancelled,
             netUp, reads, mainPc, faults>>
vars == <<q, stopRequested, running, loop, cur, netVars, bridgeVars>>

Sigs == {"SIGINT", "SIGTERM"}

S == INSTANCE Scheduler WITH Jobs <- Frames \cup Sigs
B == INSTANCE SignalSet
       WITH Signals <- Sigs, HandlerStops <- TRUE, Canceled <- "canceled"

Op(f) == Body[f][pc[f]]
InBody(f) == pc[f] \in 1..Len(Body[f])
Executing(f) == fstate[f] = "running"
NoneExecuting == \A f \in Frames : fstate[f] # "running"

\* `break` out of the accept loop (server) or the read/write loop
\* (handle_client): the first operation after the loop's awaits.
AfterLoop(f) ==
    CHOOSE i \in (pc[f] + 1)..Len(Body[f]) :
        /\ Body[f][i] \notin {"accept", "read", "write"}
        /\ \A j \in (pc[f] + 1)..(i - 1) : Body[f][j] \in {"read", "write"}

TypeOK ==
    /\ S!SchedTypeOK
    /\ inJob \in BOOLEAN
    /\ fstate \in [Frames -> {"unborn", "initial", "running", "suspended",
                              "final", "destroyed"}]
    /\ \A f \in Frames : pc[f] \in 1..(Len(Body[f]) + 1)
    /\ waiting \in [Frames -> BOOLEAN]
    /\ res \in [Frames -> {"none", "ok", "err"}]
    /\ ex \in [Frames -> BOOLEAN]
    /\ \A f \in Frames : registered[f] \in 0..Len(Body[f])
    /\ cancelled \in BOOLEAN
    /\ netUp \in BOOLEAN
    /\ reads \in [Frames -> 0..MaxReads]
    /\ mainPc \in {"launch", "run", "drop", "netstop", "sigstop", "join",
                   "done"}
    /\ faults \subseteq {"resume_destroyed", "resume_done", "write_destroyed",
                        "write_stale", "empty_value"}

\* main(): `auto t = server(ctx); ctx.post(t.handle());`
Init ==
    /\ q = <<Server>>
    /\ stopRequested = FALSE /\ running = FALSE /\ loop = "idle"
    /\ cur = None
    /\ inJob = FALSE
    /\ fstate = [f \in Frames |-> IF f = Server THEN "initial" ELSE "unborn"]
    /\ pc = [f \in Frames |-> 1]
    /\ waiting = [f \in Frames |-> FALSE]
    /\ res = [f \in Frames |-> "none"]
    /\ ex = [f \in Frames |-> FALSE]
    /\ registered = [f \in Frames |-> 0]
    /\ cancelled = FALSE
    /\ netUp = TRUE
    /\ reads = [f \in Frames |-> 0]
    /\ mainPc = "launch"
    /\ faults = {}
    /\ B!BridgeInit

-----------------------------------------------------------------------------
(* main() and the loop thread.                                             *)

CallRun ==
    /\ mainPc = "launch"
    /\ S!RunStart
    /\ mainPc' = "run"
    /\ UNCHANGED <<inJob, fstate, pc, waiting, res, ex, registered, cancelled,
                   netUp, reads, faults>>

Dequeue ==
    /\ S!Dequeue
    /\ UNCHANGED <<inJob, fstate, pc, waiting, res, ex, registered, cancelled,
                   netUp, reads, mainPc, faults>>

ExitRun ==
    /\ S!Exit
    /\ mainPc' = "drop"
    /\ UNCHANGED <<inJob, fstate, pc, waiting, res, ex, registered, cancelled,
                   netUp, reads, faults>>

\* The job `if (h) h.resume();`: resuming a finished or destroyed frame is
\* undefined behaviour, recorded in faults.
ResumeJob ==
    /\ loop = "exec" /\ cur \in Frames /\ ~inJob
    /\ inJob' = TRUE
    /\ fstate' = IF fstate[cur] \in {"initial", "suspended"}
                 THEN [fstate EXCEPT ![cur] = "running"] ELSE fstate
    /\ faults' = CASE fstate[cur] = "destroyed" -> faults \cup {"resume_destroyed"}
                   [] fstate[cur] = "final"     -> faults \cup {"resume_done"}
                   [] OTHER                     -> faults
    /\ UNCHANGED <<q, stopRequested, running, loop, cur, pc, waiting, res, ex,
                   registered, cancelled, netUp, reads, mainPc>>

JobEnd ==
    /\ inJob /\ NoneExecuting
    /\ S!JobReturn
    /\ inJob' = FALSE
    /\ UNCHANGED <<fstate, pc, waiting, res, ex, registered, cancelled, netUp, reads,
                   mainPc, faults>>

-----------------------------------------------------------------------------
(* The coroutine executing on the loop thread.                             *)

\* Mutant of NetSuspend: the cancelled branch posts h but falls through to
\* the starter (the `return;` is missing).
CancelPathStarts(f) ==
    /\ Executing(f) /\ InBody(f) /\ Op(f) \in NetOps /\ ~waiting[f]
    /\ waiting' = [waiting EXCEPT ![f] = TRUE]
    /\ fstate' = [fstate EXCEPT ![f] = "suspended"]
    /\ res' = [res EXCEPT ![f] = "none"]
    /\ \/ /\ cancelled
          /\ S!Post(f)
          /\ ex' = [ex EXCEPT ![f] = FALSE]
          /\ registered' = [registered EXCEPT ![f] = pc[f]]
       \/ /\ ~cancelled
          /\ registered' = [registered EXCEPT ![f] = pc[f]]
          /\ ex' = [ex EXCEPT ![f] = FALSE]
          /\ UNCHANGED q
       \/ /\ ~cancelled /\ StarterMayThrow
          /\ ex' = [ex EXCEPT ![f] = TRUE]
          /\ S!Post(f)
          /\ \E reg \in ThrowAfterRegister :
                registered' = [registered EXCEPT ![f] = IF reg THEN pc[f] ELSE 0]
    /\ UNCHANGED <<stopRequested, running, loop, cur, inJob, pc, cancelled,
                   netUp, reads, mainPc, faults>>

\* `co_await asio_awaitable{...}`: a fresh awaitable (res, ex empty);
\* await_ready is false; await_suspend either posts h at once (token
\* cancelled), or hands the callback to the starter, or catches the
\* starter's exception and posts h.
NetSuspend(f) ==
    /\ Executing(f) /\ InBody(f) /\ Op(f) \in NetOps /\ ~waiting[f]
    /\ waiting' = [waiting EXCEPT ![f] = TRUE]
    /\ fstate' = [fstate EXCEPT ![f] = "suspended"]
    /\ res' = [res EXCEPT ![f] = "none"]
    /\ \/ /\ cancelled
          /\ S!Post(f)
          /\ ex' = [ex EXCEPT ![f] = FALSE]
          /\ UNCHANGED registered
       \/ /\ ~cancelled
          /\ registered' = [registered EXCEPT ![f] = pc[f]]
          /\ ex' = [ex EXCEPT ![f] = FALSE]
          /\ UNCHANGED q
       \/ /\ ~cancelled /\ StarterMayThrow
          /\ ex' = [ex EXCEPT ![f] = TRUE]
          /\ S!Post(f)
          /\ \E reg \in ThrowAfterRegister :
                registered' = [registered EXCEPT ![f] = IF reg THEN pc[f] ELSE 0]
    /\ UNCHANGED <<stopRequested, running, loop, cur, inJob, pc, cancelled,
                   netUp, reads, mainPc, faults>>

\* await_resume throws: cancel observed, ex rethrown, or res.ec set.
Failed(f) == cancelled \/ ex[f] \/ res[f] = "err"

\* await_resume rethrows what the starter threw, whose type the awaitable
\* does not fix (catch (...)): it may be other than std::system_error.
Foreign(f) == ~cancelled /\ ex[f]

\* The clients whose connection the peer has not opened yet.
Unaccepted == {c \in Clients : fstate[c] = "unborn"}

\* The server's body leaves with an exception: unhandled_exception, then
\* final_suspend keeps the frame, which t owns.
ServerEscapes(f) ==
    /\ pc' = [pc EXCEPT ![f] = Len(Body[f]) + 1]
    /\ fstate' = [fstate EXCEPT ![f] = "final"]
    /\ UNCHANGED q

\* server() after one of its awaits.  async_listen is outside any try: a
\* failure leaves the body.  async_accept is in the loop
\* `while (ctx.is_running())`, which is true on the loop thread inside
\* run(): a std::system_error (a cancel, an ec, or a starter's
\* system_error) breaks out to listener->close(); ctx.stop(); a starter's
\* exception of another type (foreign: the rethrown ex may be anything
\* the starter threw) escapes `catch (const std::system_error&)` and the
\* body, with no ctx.stop(); a success calls spawn_detached(ctx,
\* handle_client(std::move(client))), which creates the make_detached
\* frame suspended and posts its handle, and accepts again.
ServerAfterAwait(f, failed, foreign) ==
    \/ Op(f) = "listen" /\ failed /\ ServerEscapes(f)
    \/ Op(f) = "accept" /\ foreign /\ ServerEscapes(f)
    \/ /\ Op(f) = "listen" /\ ~failed
       /\ pc' = [pc EXCEPT ![f] = @ + 1]
       /\ UNCHANGED <<fstate, q>>
    \/ /\ Op(f) = "accept" /\ failed
       /\ pc' = [pc EXCEPT ![f] = AfterLoop(f)]
       /\ UNCHANGED <<fstate, q>>
    \/ /\ Op(f) = "accept" /\ ~failed /\ Unaccepted # {}
       /\ LET c == CHOOSE c \in Unaccepted : TRUE IN
            /\ fstate' = [fstate EXCEPT ![c] = "initial"]
            /\ S!Post(c)
       /\ UNCHANGED pc

\* handle_client() after one of its awaits, in the loop
\* `while (client && client->is_open())`: a failed read or write, or a
\* read of 0 bytes, breaks out to client->close(); co_return; a read of
\* n > 0 bytes is written back, and a write is followed by the next read.
ClientAfterAwait(f, failed) ==
    /\ \/ failed /\ pc' = [pc EXCEPT ![f] = AfterLoop(f)]
       \/ ~failed /\ Op(f) = "read" /\ pc' = [pc EXCEPT ![f] = @ + 1]
       \/ ~failed /\ Op(f) = "write" /\ pc' = [pc EXCEPT ![f] = @ - 1]
    /\ UNCHANGED <<fstate, q>>

\* Mutant of NetResume: await_resume without `if (ex) rethrow`.
NetResumeNoRethrow(f) ==
    /\ Executing(f) /\ InBody(f) /\ waiting[f]
    /\ waiting' = [waiting EXCEPT ![f] = FALSE]
    /\ LET failed == cancelled \/ res[f] = "err" IN
         IF f = Server THEN ServerAfterAwait(f, failed, FALSE)
         ELSE ClientAfterAwait(f, failed)
    /\ faults' = IF (cancelled \/ res[f] = "err") \/ res[f] # "none"
                 THEN faults ELSE faults \cup {"empty_value"}
    /\ UNCHANGED <<stopRequested, running, loop, cur, inJob, res, ex,
                   registered, cancelled, netUp, reads, mainPc>>

\* await_resume, when the loop resumes f: throw canceled if the token is
\* cancelled, else rethrow ex, else throw on ec; else `*res.value`, which
\* is undefined when nothing was emplaced.  Then the example's code runs
\* on to the next await or operation.
NetResume(f) ==
    /\ Executing(f) /\ InBody(f) /\ waiting[f]
    /\ waiting' = [waiting EXCEPT ![f] = FALSE]
    /\ IF f = Server THEN ServerAfterAwait(f, Failed(f), Foreign(f))
       ELSE ClientAfterAwait(f, Failed(f))
    /\ faults' = IF Failed(f) \/ res[f] # "none"
                 THEN faults ELSE faults \cup {"empty_value"}
    /\ UNCHANGED <<stopRequested, running, loop, cur, inJob, res, ex,
                   registered, cancelled, netUp, reads, mainPc>>

\* `listener->close(); ctx.stop();` after the accept loop.
CallStop(f) ==
    /\ Executing(f) /\ InBody(f) /\ Op(f) = "stop"
    /\ S!Stop
    /\ pc' = [pc EXCEPT ![f] = @ + 1]
    /\ UNCHANGED <<inJob, fstate, waiting, res, ex, registered, cancelled,
                   netUp, reads, mainPc, faults>>

\* `co_return;` then final_awaiter.  The server has no continuation and
\* is not detached: its frame stays at its final point until t destroys
\* it.  A client transfers to its make_detached wrapper, which ends and
\* destroys itself and, with it, the handle_client frame.
Return(f) ==
    /\ Executing(f) /\ InBody(f) /\ Op(f) = "return"
    /\ pc' = [pc EXCEPT ![f] = @ + 1]
    /\ fstate' = [fstate EXCEPT ![f] = IF f = Server THEN "final"
                                                     ELSE "destroyed"]
    /\ UNCHANGED <<q, stopRequested, running, loop, cur, inJob, waiting, res,
                   ex, registered, cancelled, netUp, reads, mainPc, faults>>

-----------------------------------------------------------------------------
(* The net thread.                                                         *)

\* What the peer can make the registered operation return: an accept
\* succeeds only for a connection the peer opens, a read of n > 0 bytes
\* only for a chunk the peer sends (a read of 0 bytes, the peer closing,
\* leaves the loop like an error).
Outcomes(f) ==
    LET op == Body[f][registered[f]] IN
    {"err"} \cup (IF \/ op = "accept" /\ Unaccepted = {}
                     \/ op = "read" /\ reads[f] = MaxReads
                  THEN {} ELSE {"ok"})

\* The reactor completes the operation and calls the callback [this, h]:
\* `res.ec = ec;` (and the value when !ec), then `ctx->post(h)`.  `this`
\* is the awaitable of the await that registered it: writing through it
\* after that await ended, or after the frame was destroyed, is undefined.
NetComplete(f) ==
    /\ netUp /\ registered[f] # 0
    /\ registered' = [registered EXCEPT ![f] = 0]
    /\ \E ec \in Outcomes(f) :
          /\ IF fstate[f] # "destroyed" /\ waiting[f] /\ pc[f] = registered[f]
             THEN /\ res' = [res EXCEPT ![f] = ec]
                  /\ UNCHANGED faults
             ELSE /\ faults' = faults \cup {IF fstate[f] = "destroyed"
                                            THEN "write_destroyed"
                                            ELSE "write_stale"}
                  /\ UNCHANGED res
          /\ reads' = IF Body[f][registered[f]] = "read" /\ ec = "ok"
                      THEN [reads EXCEPT ![f] = @ + 1] ELSE reads
    /\ S!Post(f)
    /\ UNCHANGED <<stopRequested, running, loop, cur, inJob, fstate, pc,
                   waiting, ex, cancelled, netUp, mainPc>>

-----------------------------------------------------------------------------
(* Other threads, and main() after run().                                  *)

\* cancel_source::request_cancel() on the source of the awaits' token.
RequestCancel ==
    /\ Cancellable /\ ~cancelled
    /\ cancelled' = TRUE
    /\ UNCHANGED <<q, stopRequested, running, loop, cur, inJob, fstate, pc,
                   waiting, res, ex, registered, netUp, reads, mainPc, faults>>

\* `return 0;`: t is destroyed before ctx, and ~task destroys the server's
\* frame; nothing owns the client frames still in flight.
DropTasks ==
    /\ mainPc = "drop"
    /\ fstate' = [fstate EXCEPT ![Server] = "destroyed"]
    /\ mainPc' = "netstop"
    /\ UNCHANGED <<q, stopRequested, running, loop, cur, inJob, pc, waiting,
                   res, ex, registered, cancelled, netUp, reads, faults>>

\* ~io_context destroys net_ (its last member) first: stop() releases the
\* work guard, stops the reactor and joins the net thread; the handlers it
\* still holds are destroyed without being called.
NetStop ==
    /\ mainPc = "netstop"
    /\ netUp' = FALSE
    /\ registered' = [f \in Frames |-> 0]
    /\ mainPc' = "sigstop"
    /\ UNCHANGED <<q, stopRequested, running, loop, cur, inJob, fstate, pc,
                   waiting, res, ex, cancelled, reads, faults>>

-----------------------------------------------------------------------------
(* The signal bridge, as the server uses it.                               *)

\* `auto &sig = ctx.signals(); sig.add(SIGINT); sig.add(SIGTERM);
\* sig.on_signal([&](int s){ ...; ctx.stop(); });` -- no suspension point
\* in between, and a signal the capture thread takes meanwhile is only
\* delivered once the loop is free again, so the three calls are one step.
SigSetup(f) ==
    /\ Executing(f) /\ InBody(f) /\ Op(f) = "signals"
    /\ sigs' = Sigs
    /\ onSig' = TRUE
    /\ capture' = IF capture = "idle" THEN "wait" ELSE capture
    /\ pc' = [pc EXCEPT ![f] = @ + 1]
    /\ UNCHANGED <<q, stopRequested, running, loop, cur, inJob, fstate,
                   waiting, res, ex, registered, cancelled, netUp, reads, mainPc,
                   faults>>
    /\ UNCHANGED <<pending, waiter, wake, sigStop, captured, received>>

\* The popped job is a signal delivery: on_signal's ctx.stop().
Deliver ==
    /\ B!RunDelivery
    /\ UNCHANGED netVars

\* ~io_context then destroys signals_: ~signal_set calls stop() ...
TeardownStop ==
    /\ mainPc = "sigstop"
    /\ B!SigStop
    /\ mainPc' = "join"
    /\ UNCHANGED <<inJob, fstate, pc, waiting, res, ex, registered, cancelled,
                   netUp, reads, faults>>

\* ... and joins the capture thread if it was started.
TeardownJoin ==
    /\ mainPc = "join"
    /\ capture \in {"idle", "exited"}
    /\ mainPc' = "done"
    /\ UNCHANGED <<q, stopRequested, running, loop, cur, inJob, fstate, pc,
                   waiting, res, ex, registered, cancelled, netUp, reads, faults>>
    /\ UNCHANGED bridgeVars

-----------------------------------------------------------------------------

CoroutineStep(f) ==
    \/ NetSuspend(f) /\ UNCHANGED bridgeVars
    \/ NetResume(f) /\ UNCHANGED bridgeVars
    \/ CallStop(f) /\ UNCHANGED bridgeVars
    \/ Return(f) /\ UNCHANGED bridgeVars
    \/ SigSetup(f)

MainThread ==
    \/ CallRun /\ UNCHANGED bridgeVars
    \/ Dequeue /\ UNCHANGED bridgeVars
    \/ ExitRun /\ UNCHANGED bridgeVars
    \/ ResumeJob /\ UNCHANGED bridgeVars
    \/ JobEnd /\ UNCHANGED bridgeVars
    \/ Deliver
    \/ \E f \in Frames : CoroutineStep(f)
    \/ DropTasks /\ UNCHANGED bridgeVars
    \/ NetStop /\ UNCHANGED bridgeVars
    \/ TeardownStop
    \/ TeardownJoin

CaptureThread ==
    \/ \E s \in Sigs : B!Capture(s) /\ UNCHANGED netVars
    \/ B!CaptureExit /\ UNCHANGED netVars

Next ==
    \/ MainThread
    \/ \E f \in Frames : NetComplete(f) /\ UNCHANGED bridgeVars
    \/ RequestCancel /\ UNCHANGED bridgeVars
    \/ CaptureThread

\* The main/loop thread runs whenever it can, and the capture thread leaves
\* its wait once stop() asked it to (spec 4.5).  Whether the reactor ever
\* completes an operation depends on the peer, and when the OS raises a
\* signal is not up to the program, so the net thread and Capture get no
\* fairness.
Spec == Init /\ [][Next]_vars
             /\ WF_vars(MainThread)
             /\ WF_vars(B!CaptureExit /\ UNCHANGED netVars)

-----------------------------------------------------------------------------
(* Properties                                                              *)

\* The resumptions of f that are on their way: its jobs in the loop queue,
\* the popped job not yet run, and a callback the reactor holds.
InFlight(f) ==
    Cardinality({i \in DOMAIN q : q[i] = f})
    + (IF cur = f /\ ~inJob THEN 1 ELSE 0)
    + (IF registered[f] # 0 THEN 1 ELSE 0)

\* Each suspension in an asio_awaitable is ended by exactly one resumption:
\* a coroutine that is running or finished has no resumption on its way,
\* and a suspended one at most one.  await_suspend's three exits (cancelled,
\* starter registered, starter threw) and the net thread's callback must
\* between them post h once.
PostedOnce ==
    \A f \in Frames :
        /\ InFlight(f) <= 1
        /\ fstate[f] \in {"running", "final"} => InFlight(f) = 0

\* The program never resumes a finished or destroyed frame, never writes a
\* result through the `this` of an awaitable that no longer exists, and
\* never moves a value out of an empty result (await_resume, the callback
\* of await_suspend, and the teardown of main()).
NoUndefinedBehaviour == faults = {}

\* Once the OS has raised SIGINT or SIGTERM, examples/08 ends: the
\* delivery's ctx.stop() makes run() return whatever the server and the
\* clients are waiting on, main() tears down the reactor, and ~signal_set
\* stops and joins the capture thread.
ShutdownOnSignal == (Len(captured) > 0) ~> (mainPc = "done")

====
