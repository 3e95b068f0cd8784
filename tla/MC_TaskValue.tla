---------------------------- MODULE MC_TaskValue ----------------------------
(***************************************************************************)
(* Two task variables and three coroutine calls: enough for a frame to be *)
(* moved between variables, assigned over (and self-assigned), started,    *)
(* awaited and dropped, with a started frame still queued on the loop.     *)
(***************************************************************************)
EXTENDS TaskValue

MCSlots == {"a", "b"}
MCFrames == {"f1", "f2", "f3"}
=============================================================================
