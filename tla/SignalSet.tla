----------------------------- MODULE SignalSet -----------------------------
(***************************************************************************)
(* The signal bridge cnerium::core::signal_set (src/unnamed/part_002;     *)
(* vix::async::core::signal_set in src/include/vix/async/core/signal.hpp  *)
(* is the same class).  Only the class declaration is in the repository:   *)
(* its members are the state below, and its operations are modelled from  *)
(* spec 4.5 and the declaration's comments:                                *)
(*                                                                         *)
(*  - a capture thread waits synchronously for one of the added signals,  *)
(*    pushes it into pending_ ("produced by worker thread") and posts its *)
(*    delivery onto the event loop;                                        *)
(*  - the delivery, run on the loop, calls the on_signal callback if one   *)
(*    is set, then, if a waiter is installed, pops the head of pending_    *)
(*    into it and posts its handle ("consumed by event loop delivery");   *)
(*  - awaiting async_wait takes the head of pending_ at once, or installs  *)
(*    the awaiting coroutine as the single waiter and suspends;           *)
(*  - stop() ends the capture thread and wakes the waiter with a          *)
(*    cancellation.                                                        *)
(*                                                                         *)
(* The posted delivery closure of a signal is identified with the signal:  *)
(* the loop's jobs are coroutine handles (Frames) and deliveries           *)
(* (Signals).  A system that uses the bridge composes these operations    *)
(* with its own coroutines and main().                                     *)
(***************************************************************************)
EXTENDS Naturals, Sequences

CONSTANTS Signals,       \* signal numbers (SIGINT, SIGTERM)
          Frames,        \* coroutine frames that may await async_wait
          HandlerStops,  \* the on_signal callback calls ctx.stop()
          MaxCaptures,   \* bound on the signals the OS raises
          Canceled,      \* the completion stop() gives the waiter
          None

ASSUME /\ Signals \cap Frames = {}
       /\ HandlerStops \in BOOLEAN
       /\ MaxCaptures \in Nat

VARIABLES q, stopRequested, running, loop, cur,  \* the scheduler
          sigs,      \* signals_
          onSig,     \* on_signal_ is set
          pending,   \* pending_: signals captured and not yet consumed
          waiter,    \* waiter_ (None when !waiter_active_)
          wake,      \* [Frames -> ...]: the completion handed to a waiter
          sigStop,   \* stop_
          capture,   \* the capture thread worker_: "idle" (not started,
                     \* started_ false), "wait" (in its loop), "exited"
          captured,  \* history: the signals the capture thread observed
          received   \* history: the signals async_wait returned, in order

bridgeVars == <<sigs, onSig, pending, waiter, wake, sigStop, capture,
                captured, received>>

S == INSTANCE Scheduler WITH Jobs <- Frames \cup Signals

BridgeTypeOK ==
    /\ sigs \subseteq Signals
    /\ onSig \in BOOLEAN
    /\ pending \in Seq(Signals)
    /\ waiter \in Frames \cup {None}
    /\ wake \in [Frames -> Signals \cup {Canceled, None}]
    /\ sigStop \in BOOLEAN
    /\ capture \in {"idle", "wait", "exited"}
    /\ captured \in Seq(Signals) /\ Len(captured) <= MaxCaptures
    /\ received \in Seq(Signals)

BridgeInit ==
    /\ sigs = {}
    /\ onSig = FALSE
    /\ pending = <<>>
    /\ waiter = None
    /\ wake = [f \in Frames |-> None]
    /\ sigStop = FALSE
    /\ capture = "idle"
    /\ captured = <<>>
    /\ received = <<>>

-----------------------------------------------------------------------------
(* Operations called on the loop thread by a coroutine.                    *)

\* add(sig): under the lock, add to signals_, then start_if_needed()
\* starts the capture thread on first use.
Add(s) ==
    /\ sigs' = sigs \cup {s}
    /\ capture' = IF capture = "idle" /\ ~sigStop THEN "wait" ELSE capture
    /\ UNCHANGED <<onSig, pending, waiter, wake, sigStop, captured, received>>

\* on_signal(fn): store the callback.
OnSignal ==
    /\ onSig' = TRUE
    /\ UNCHANGED <<sigs, pending, waiter, wake, sigStop, capture, captured,
                   received>>

\* Awaiting async_wait() when pending_ has a signal: consume its head and
\* complete without suspending.
WaitReady(f) ==
    /\ pending # <<>>
    /\ wake' = [wake EXCEPT ![f] = Head(pending)]
    /\ received' = Append(received, Head(pending))
    /\ pending' = Tail(pending)
    /\ UNCHANGED <<sigs, onSig, waiter, sigStop, capture, captured>>

\* Awaiting async_wait() with pending_ empty: f becomes the waiter.
WaitSuspend(f) ==
    /\ pending = <<>>
    /\ waiter' = f
    /\ wake' = [wake EXCEPT ![f] = None]
    /\ UNCHANGED <<sigs, onSig, pending, sigStop, capture, captured,
                   received>>

-----------------------------------------------------------------------------
(* The capture thread.                                                     *)

\* worker_loop(): the synchronous wait returns one of the added signals;
\* it is pushed into pending_ under the lock, and ctx_post() queues its
\* delivery on the loop.
Capture(s) ==
    /\ capture = "wait" /\ ~sigStop
    /\ s \in sigs
    /\ Len(captured) < MaxCaptures
    /\ captured' = Append(captured, s)
    /\ pending' = Append(pending, s)
    /\ S!Post(s)
    /\ UNCHANGED <<stopRequested, running, loop, cur>>
    /\ UNCHANGED <<sigs, onSig, waiter, wake, sigStop, capture, received>>

\* worker_loop() sees stop_ and returns.
CaptureExit ==
    /\ capture = "wait" /\ sigStop
    /\ capture' = "exited"
    /\ UNCHANGED <<q, stopRequested, running, loop, cur>>
    /\ UNCHANGED <<sigs, onSig, pending, waiter, wake, sigStop, captured,
                   received>>

-----------------------------------------------------------------------------
(* The delivery job, and stop().                                           *)

\* The waiter takes the head of pending_ and its handle is posted.
HandOver ==
    /\ wake' = [wake EXCEPT ![waiter] = Head(pending)]
    /\ received' = Append(received, Head(pending))
    /\ pending' = Tail(pending)
    /\ waiter' = None

DeliverNoPost ==
    /\ loop = "exec" /\ cur \in Signals
    /\ stopRequested' = (stopRequested \/ (onSig /\ HandlerStops))
    /\ \/ waiter # None /\ pending # <<>> /\ HandOver /\ UNCHANGED q
       \/ (waiter = None \/ pending = <<>>)
          /\ UNCHANGED <<q, pending, waiter, wake, received>>
    /\ loop' = "wait" /\ cur' = None
    /\ UNCHANGED <<running, sigs, onSig, sigStop, capture, captured>>

\* The popped job is a delivery: call on_signal_(sig) if set (the
\* examples' callback is `ctx.stop();`); then, with a waiter active and
\* pending_ not empty, pop its head as the waiter's result, clear
\* waiter_active_ and post its handle.  The job then returns to the loop.
RunDelivery ==
    /\ loop = "exec" /\ cur \in Signals
    /\ stopRequested' = (stopRequested \/ (onSig /\ HandlerStops))
    /\ \/ waiter # None /\ pending # <<>>
          /\ HandOver /\ q' = Append(q, waiter)
       \/ (waiter = None \/ pending = <<>>)
          /\ UNCHANGED <<q, pending, waiter, wake, received>>
    /\ loop' = "wait" /\ cur' = None
    /\ UNCHANGED <<running, sigs, onSig, sigStop, capture, captured>>

\* Mutant of SigStop: stop() wakes the waiter but does not set stop_, so
\* the capture thread never leaves its loop.
SigStopNoFlag ==
    /\ \/ /\ waiter # None
          /\ wake' = [wake EXCEPT ![waiter] = Canceled]
          /\ S!Post(waiter)
          /\ waiter' = None
       \/ /\ waiter = None
          /\ UNCHANGED <<q, waiter, wake>>
    /\ UNCHANGED <<stopRequested, running, loop, cur>>
    /\ UNCHANGED <<sigs, onSig, pending, sigStop, capture, captured, received>>

\* stop(): set stop_ under the lock; a waiter is woken with a cancellation
\* (its handle posted).
SigStop ==
    /\ sigStop' = TRUE
    /\ \/ /\ waiter # None
          /\ wake' = [wake EXCEPT ![waiter] = Canceled]
          /\ S!Post(waiter)
          /\ waiter' = None
       \/ /\ waiter = None
          /\ UNCHANGED <<q, waiter, wake>>
    /\ UNCHANGED <<stopRequested, running, loop, cur>>
    /\ UNCHANGED <<sigs, onSig, pending, capture, captured, received>>

-----------------------------------------------------------------------------
(* Properties of the bridge                                                 *)

====
