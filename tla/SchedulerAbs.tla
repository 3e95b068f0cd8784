----------------------------- MODULE SchedulerAbs -----------------------------
(***************************************************************************)
(* What the event loop promises (spec 4.1), with no locks and no threads:  *)
(* jobs are dispatched one at a time in the order they were posted, and    *)
(* run() returns only once stop was requested and nothing is left queued.  *)
(* Dispatch is a single atomic step here; the detailed Scheduler pops a    *)
(* job under the lock and runs it later outside the lock.                  *)
(***************************************************************************)
EXTENDS Sequences

CONSTANTS Jobs

VARIABLES queue,       \* jobs posted and not yet dispatched, oldest first
          stopped,     \* stop() has been called
          dispatched,  \* jobs handed to the loop thread, in order
          phase        \* "idle" | "running" | "returned"

absVars == <<queue, stopped, dispatched, phase>>

AInit ==
    /\ queue = <<>>
    /\ stopped = FALSE
    /\ dispatched = <<>>
    /\ phase = "idle"

APost(j) ==
    /\ queue' = Append(queue, j)
    /\ UNCHANGED <<stopped, dispatched, phase>>

AStop ==
    /\ stopped' = TRUE
    /\ UNCHANGED <<queue, dispatched, phase>>

ABegin ==
    /\ phase = "idle"
    /\ phase' = "running"
    /\ UNCHANGED <<queue, stopped, dispatched>>

\* The oldest queued job is the next one the loop runs.
ADispatch ==
    /\ phase = "running"
    /\ queue # <<>>
    /\ dispatched' = Append(dispatched, Head(queue))
    /\ queue' = Tail(queue)
    /\ UNCHANGED <<stopped, phase>>

\* run() returns only with stop requested and the queue drained.
AReturn ==
    /\ phase = "running"
    /\ stopped
    /\ queue = <<>>
    /\ phase' = "returned"
    /\ UNCHANGED <<queue, stopped, dispatched>>

ANext ==
    \/ \E j \in Jobs : APost(j)
    \/ AStop
    \/ ABegin
    \/ ADispatch
    \/ AReturn

\* Once run() is entered, queued jobs are dispatched and a requested stop
\* ends the loop.
ASpec ==
    /\ AInit
    /\ [][ANext]_absVars
    /\ WF_absVars(ABegin)
    /\ WF_absVars(ADispatch)
    /\ WF_absVars(AReturn)

=============================================================================
