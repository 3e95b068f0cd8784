---------------------------- MODULE ThreadPoolAbs ----------------------------
(***************************************************************************)
(* What the thread pool promises (spec 4.4), with no workers and no queue  *)
(* order: a submitted closure runs at most once, and only while the pool   *)
(* is alive; after stop() the destructor's join returns in finite time.   *)
(* Closures still pending at stop may or may not run (the spec leaves it   *)
(* to the implementation), so the join may leave some behind.              *)
(***************************************************************************)
CONSTANTS Closures

VARIABLES pending,  \* closures submitted and not yet run
          done,     \* closures that have run
          stopped,  \* stop() has been called
          joined    \* ~thread_pool has returned

absPoolVars == <<pending, done, stopped, joined>>

PAInit ==
    /\ pending = {}
    /\ done = {}
    /\ stopped = FALSE
    /\ joined = FALSE

PASubmit(c) ==
    /\ c \notin pending \cup done
    /\ pending' = pending \cup {c}
    /\ UNCHANGED <<done, stopped, joined>>

\* A pending closure runs once, never after the pool is gone.
PARun(c) ==
    /\ c \in pending
    /\ ~joined
    /\ pending' = pending \ {c}
    /\ done' = done \cup {c}
    /\ UNCHANGED <<stopped, joined>>

PAStop ==
    /\ stopped' = TRUE
    /\ UNCHANGED <<pending, done, joined>>

\* The join returns after stop(); closures left pending never run.
PAJoin ==
    /\ stopped /\ ~joined
    /\ joined' = TRUE
    /\ UNCHANGED <<pending, done, stopped>>

PANext ==
    \/ \E c \in Closures : PASubmit(c) \/ PARun(c)
    \/ PAStop
    \/ PAJoin

\* Once stopped, the pool is eventually joined.
PASpec == PAInit /\ [][PANext]_absPoolVars /\ WF_absPoolVars(PAJoin)

====
