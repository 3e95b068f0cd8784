---------------------------- MODULE MC_SyncAwait ----------------------------
(***************************************************************************)
(* The three calls of the task smoke test's main() (part_010):            *)
(*   chain():       co_await compute_value(); co_await add_one(v); return *)
(*   chain_void():  co_await chain(); return                               *)
(*   throws_task(): throw                                                  *)
(* `Inner` picks the argument of sync_await.                               *)
(***************************************************************************)
EXTENDS SyncAwait

MCFrames == {"runner", "chain_void", "chain", "compute", "add_one", "throws"}

\* The body operations of TaskRuntime (AwaitOp, ReturnOp), written out
\* because Body is a parameter of the instance that defines them.
Aw(c) == [kind |-> "await", callee |-> c]
Ret == [kind |-> "return", callee |-> None]

MCBody ==
    [f \in MCFrames |->
        CASE f = "runner"     -> <<Aw(Inner), Ret>>
          [] f = "chain_void" -> <<Aw("chain"), Ret>>
          [] f = "chain"      -> <<Aw("compute"), Aw("add_one"),
                                   Ret>>
          [] OTHER            -> <<Ret>>]
=============================================================================
