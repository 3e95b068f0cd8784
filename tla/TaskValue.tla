----------------------------- MODULE TaskValue -----------------------------
(***************************************************************************)
(* Ownership of coroutine frames by task values (task.hpp 272-556): the    *)
(* move-only task<T> / task<void> with its move constructor, move          *)
(* assignment, destructor, start() and co_await, used by a client          *)
(* coroutine on the loop thread.  A task's own body is one atomic step     *)
(* here (its interleavings are TaskRuntime's): it returns a value or       *)
(* throws.                                                                 *)
(*                                                                         *)
(* `intent` is the client's view of which task each variable holds under  *)
(* the value semantics of C++ moves (a = std::move(b) leaves b empty,       *)
(* a = std::move(a) leaves a unchanged).  The client only awaits a         *)
(* variable it believes holds a task it has not awaited yet, and only      *)
(* starts one it has not awaited (spec 3: one consumer per task), so       *)
(* await_ready's `!h || h.done()` is false whenever the code is right.     *)
(***************************************************************************)
EXTENDS Naturals, FiniteSets

CONSTANTS Slots,             \* the client's task variables
          Frames,            \* coroutine frames the client may create
          Null               \* the empty handle

VARIABLES h,        \* h[s]: the handle_type h_ of variable s
          intent,   \* h[s] under C++ value semantics (client's view)
          fstate,   \* "unborn", "initial" (initial_suspend), "final",
                    \* "destroyed"
          detached, \* promise_common::detached
          cont,     \* promise_common::continuation is set
          exc,      \* promise_common::exception is set
          value,    \* promise_value::value: "none", "value", "moved"
          posted,   \* handles posted to the scheduler by start()
          spawned,  \* frames of tasks handed to spawn_detached whose
                    \* make_detached wrapper is posted and not yet run
          awaited,  \* frames the client awaited (history)
          faults,   \* undefined behaviour performed (a double destroy)
          phase     \* "body", then "done" once every variable is gone

vars == <<h, intent, fstate, detached, cont, exc, value, posted, spawned,
          awaited, faults, phase>>

TypeOK ==
    /\ h \in [Slots -> Frames \cup {Null}]
    /\ intent \in [Slots -> Frames \cup {Null}]
    /\ fstate \in [Frames -> {"unborn", "initial", "final", "destroyed"}]
    /\ detached \in [Frames -> BOOLEAN]
    /\ cont \in [Frames -> BOOLEAN]
    /\ exc \in [Frames -> BOOLEAN]
    /\ value \in [Frames -> {"none", "value", "moved"}]
    /\ posted \subseteq Frames
    /\ spawned \subseteq Frames
    /\ awaited \subseteq Frames
    /\ phase \in {"body", "done"}

Init ==
    /\ h = [s \in Slots |-> Null]
    /\ intent = [s \in Slots |-> Null]
    /\ fstate = [f \in Frames |-> "unborn"]
    /\ detached = [f \in Frames |-> FALSE]
    /\ cont = [f \in Frames |-> FALSE]
    /\ exc = [f \in Frames |-> FALSE]
    /\ value = [f \in Frames |-> "none"]
    /\ posted = {}
    /\ spawned = {}
    /\ awaited = {}
    /\ faults = {}
    /\ phase = "body"

\* task::destroy(): `if (h_) { h_.destroy(); h_ = {}; }` on a variable
\* holding g; the new frame states, and the faults (a frame destroyed
\* twice).
DestroyHandle(g) ==
    IF g = Null THEN fstate ELSE [fstate EXCEPT ![g] = "destroyed"]
DestroyFaults(g) ==
    IF g # Null /\ fstate[g] = "destroyed" THEN faults \cup {"double_destroy"}
                                           ELSE faults

\* The task body runs from initial_suspend to final_suspend: co_return v
\* (return_value emplaces the value) or a throw (unhandled_exception).
RunBody(f) ==
    \/ /\ value' = [value EXCEPT ![f] = "value"] /\ UNCHANGED exc
    \/ /\ exc' = [exc EXCEPT ![f] = TRUE] /\ UNCHANGED value

\* `s = co_fn();`: the coroutine allocates a frame suspended at
\* initial_suspend, get_return_object wraps it in a temporary task, and the
\* move assignment destroys what s held and takes the handle; the
\* temporary's destructor then finds it empty.
Call(s) ==
    /\ phase = "body"
    /\ \E f \in Frames :
          /\ fstate[f] = "unborn"
          /\ fstate' = [DestroyHandle(h[s]) EXCEPT ![f] = "initial"]
          /\ h' = [h EXCEPT ![s] = f]
          /\ intent' = [intent EXCEPT ![s] = f]
    /\ faults' = DestroyFaults(h[s])
    /\ UNCHANGED <<detached, cont, exc, value, posted, spawned, awaited, phase>>

\* `task<T> d{std::move(src)};` into an empty variable d:
\* h_(other.h_) { other.h_ = {}; }
MoveConstruct(d, src) ==
    /\ phase = "body"
    /\ d # src /\ intent[d] = Null
    /\ h' = [h EXCEPT ![d] = h[src], ![src] = Null]
    /\ intent' = [intent EXCEPT ![d] = intent[src], ![src] = Null]
    /\ UNCHANGED <<fstate, detached, cont, exc, value, posted, spawned, awaited,
                   faults, phase>>

\* Mutant of MoveAssign: no self-assignment check.
MoveAssignNoSelfCheck(d, src) ==
    /\ phase = "body"
    /\ fstate' = DestroyHandle(h[d])
    /\ faults' = DestroyFaults(h[d])
    /\ LET h1 == [h EXCEPT ![d] = Null]
       IN  h' = [h1 EXCEPT ![d] = h1[src], ![src] = Null]
    /\ intent' = IF d = src THEN intent
                 ELSE [intent EXCEPT ![d] = intent[src], ![src] = Null]
    /\ UNCHANGED <<detached, cont, exc, value, posted, spawned, awaited, phase>>

\* Mutant of MoveAssign: takes the handle without destroying the old frame.
MoveAssignNoDestroy(d, src) ==
    /\ phase = "body"
    /\ d # src
    /\ h' = [h EXCEPT ![d] = h[src], ![src] = Null]
    /\ intent' = [intent EXCEPT ![d] = intent[src], ![src] = Null]
    /\ UNCHANGED <<fstate, detached, cont, exc, value, posted, spawned, awaited,
                   faults, phase>>

\* `d = std::move(src);`: if (this != &other) { destroy(); h_ = other.h_;
\* other.h_ = {}; }
MoveAssign(d, src) ==
    /\ phase = "body"
    /\ \/ /\ d = src
          /\ UNCHANGED <<h, intent, fstate, faults>>
       \/ /\ d # src
          /\ fstate' = DestroyHandle(h[d])
          /\ faults' = DestroyFaults(h[d])
          /\ h' = [h EXCEPT ![d] = h[src], ![src] = Null]
          /\ intent' = [intent EXCEPT ![d] = intent[src], ![src] = Null]
    /\ UNCHANGED <<detached, cont, exc, value, posted, spawned, awaited, phase>>

\* The variable goes out of scope: ~task() { destroy(); }
Drop(s) ==
    /\ phase = "body"
    /\ intent[s] # Null
    /\ fstate' = DestroyHandle(h[s])
    /\ faults' = DestroyFaults(h[s])
    /\ h' = [h EXCEPT ![s] = Null]
    /\ intent' = [intent EXCEPT ![s] = Null]
    /\ UNCHANGED <<detached, cont, exc, value, posted, spawned, awaited, phase>>

\* Mutant of Start: does not release the handle (no h_ = {}).
StartKeepsHandle(s) ==
    /\ phase = "body"
    /\ intent[s] \notin awaited
    /\ \/ /\ h[s] = Null
          /\ UNCHANGED <<detached, posted>>
       \/ /\ h[s] # Null
          /\ detached' = [detached EXCEPT ![h[s]] = TRUE]
          /\ posted' = posted \cup {h[s]}
    /\ intent' = [intent EXCEPT ![s] = Null]
    /\ UNCHANGED <<h, fstate, cont, exc, value, spawned, awaited, faults, phase>>

\* `std::move(s).start(sched)`: if (!h_) return; mark detached, post the
\* handle, release it (h_ = {}).  The client never starts a task it has
\* awaited.
Start(s) ==
    /\ phase = "body"
    /\ intent[s] \notin awaited
    /\ \/ /\ h[s] = Null
          /\ UNCHANGED <<h, detached, posted>>
       \/ /\ h[s] # Null
          /\ detached' = [detached EXCEPT ![h[s]] = TRUE]
          /\ posted' = posted \cup {h[s]}
          /\ h' = [h EXCEPT ![s] = Null]
    /\ intent' = [intent EXCEPT ![s] = Null]
    /\ UNCHANGED <<fstate, cont, exc, value, spawned, awaited, faults, phase>>

\* final_awaiter::await_suspend: transfer to the continuation if one is
\* set, else destroy the frame if detached, else stay suspended.
FinalState(f) ==
    IF ~cont[f] /\ detached[f] THEN "destroyed" ELSE "final"

\* `co_await s` (or co_await std::move(s); both build a task_awaiter on h_
\* and leave s owning the frame).  await_ready (`!h || h.done()`) is
\* false; await_suspend sets the continuation and transfers to the task,
\* whose final_awaiter transfers back; await_resume rethrows the exception
\* or moves the value out.
Await(s) ==
    /\ phase = "body"
    /\ intent[s] # Null /\ intent[s] \notin awaited
    /\ LET g == h[s] IN
       /\ g # Null /\ fstate[g] = "initial"
       /\ cont' = [cont EXCEPT ![g] = TRUE]
       /\ fstate' = [fstate EXCEPT ![g] = "final"]
       /\ \/ exc' = [exc EXCEPT ![g] = TRUE] /\ UNCHANGED value
          \/ value' = [value EXCEPT ![g] = "moved"] /\ UNCHANGED exc
    /\ awaited' = awaited \cup {intent[s]}
    /\ UNCHANGED <<h, intent, detached, posted, spawned, faults, phase>>

\* The loop pops a handle posted by start(): `if (h) h.resume();`.  The
\* detached body runs to final_suspend; its exception is swallowed.
RunPosted ==
    \E f \in posted :
       /\ posted' = posted \ {f}
       /\ fstate[f] = "initial"
       /\ RunBody(f)
       /\ fstate' = [fstate EXCEPT ![f] = FinalState(f)]
       /\ UNCHANGED <<h, intent, detached, cont, spawned, awaited, faults, phase>>

\* `spawn_detached(ctx, std::move(s))`: the task is moved into the
\* parameter of the make_detached coroutine, whose frame starts suspended;
\* its handle is posted and the detached_task value is dropped without
\* destroying anything.
Spawn(s) ==
    /\ phase = "body"
    /\ intent[s] # Null /\ intent[s] \notin awaited
    /\ h[s] # Null
    /\ spawned' = spawned \cup {h[s]}
    /\ h' = [h EXCEPT ![s] = Null]
    /\ intent' = [intent EXCEPT ![s] = Null]
    /\ UNCHANGED <<fstate, detached, cont, exc, value, posted, awaited,
                   faults, phase>>

\* Mutant of RunSpawned: the wrapper's final_awaiter does not destroy its
\* frame, so the task parameter is never destroyed.
RunSpawnedNoDestroy ==
    \E f \in spawned :
       /\ spawned' = spawned \ {f}
       /\ cont' = [cont EXCEPT ![f] = TRUE]
       /\ RunBody(f)
       /\ fstate' = [fstate EXCEPT ![f] = "final"]
       /\ UNCHANGED <<h, intent, detached, posted, awaited, faults, phase>>

\* The loop resumes a make_detached frame: `co_await t` runs the task (its
\* final_awaiter transfers back), an exception is swallowed by the
\* wrapper's unhandled_exception, and the wrapper's final_awaiter destroys
\* its frame, whose parameter t destroys the task's frame.
RunSpawned ==
    \E f \in spawned :
       /\ spawned' = spawned \ {f}
       /\ fstate[f] = "initial"
       /\ cont' = [cont EXCEPT ![f] = TRUE]
       /\ RunBody(f)
       /\ fstate' = [fstate EXCEPT ![f] = "destroyed"]
       /\ UNCHANGED <<h, intent, detached, posted, awaited, faults, phase>>

\* The client coroutine returns once every variable has gone out of scope.
End ==
    /\ phase = "body"
    /\ \A s \in Slots : intent[s] = Null
    /\ phase' = "done"
    /\ UNCHANGED <<h, intent, fstate, detached, cont, exc, value, posted,
                   spawned, awaited, faults>>

Next ==
    \/ \E s \in Slots : Call(s) \/ Drop(s) \/ Start(s) \/ Await(s) \/ Spawn(s)
    \/ \E d, src \in Slots : MoveConstruct(d, src) \/ MoveAssign(d, src)
    \/ RunPosted
    \/ RunSpawned
    \/ End

Spec == Init /\ [][Next]_vars

-----------------------------------------------------------------------------
(* Properties                                                              *)

\* Every task variable owns exactly the frame the program's value semantics
\* say it holds, whatever sequence of calls, moves, self-assignments,
\* drops and starts led there; and no frame was ever destroyed twice.
OwnedAsIntended == h = intent /\ faults = {}

\* Once the client has returned and the loop has run every posted handle,
\* every frame it created has been destroyed: by ~task or an assignment
\* over it when attached, by its final_awaiter when started, by the
\* make_detached wrapper when spawned (spec 3, "destroyed exactly once";
\* spec property 7).
AllFramesReclaimed ==
    (phase = "done" /\ posted = {} /\ spawned = {}) =>
        \A f \in Frames : fstate[f] \in {"unborn", "destroyed"}

====
