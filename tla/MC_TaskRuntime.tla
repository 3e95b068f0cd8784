--------------------------- MODULE MC_TaskRuntime ---------------------------
(***************************************************************************)
(* Example 00_hello_task grown by one level: main() posts the handle of    *)
(* app, which awaits a user task `work` (it may throw), which awaits a     *)
(* thread_pool::submit coroutine `sub` (its callable may throw, its token  *)
(* may be cancelled); app then calls ctx.stop().  A second root `bg` is    *)
(* started detached, yields to the loop once (schedule()) and offloads     *)
(* work of its own (`sub2`).  Two workers.                                 *)
(***************************************************************************)
EXTENDS TaskRuntime

MCFrames == {"app", "work", "sub", "bg", "sub2"}
MCRoots == {"app", "bg"}
MCLaunchMode == [r \in MCRoots |-> IF r = "app" THEN "handle" ELSE "start"]
MCBody ==
    [f \in MCFrames |->
        CASE f = "app"  -> <<SleepOp, AwaitOp("work"), StopOp, ReturnOp>>
          [] f = "work" -> <<AwaitOp("sub"), ReturnOp>>
          [] f = "sub"  -> <<SubmitOp, ReturnOp>>
          [] f = "bg"   -> <<YieldOp, AwaitOp("sub2"), ReturnOp>>
          [] f = "sub2" -> <<SubmitOp, ReturnOp>>]
MCMayThrow == {"work"}
MCFnMayThrow == {"sub"}
MCWorkers == {"w1", "w2"}
=============================================================================
