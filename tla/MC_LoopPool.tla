---------------------------- MODULE MC_LoopPool ----------------------------
(***************************************************************************)
(* Two jobs posted by other threads: j1 submits closure c1, whose worker   *)
(* posts j2 back to the loop; j3 submits c2, which posts nothing (a        *)
(* fire-and-forget submit).  Two workers.                                  *)
(***************************************************************************)
EXTENDS LoopPool

MCJobs == {"j1", "j2", "j3"}
MCExternal == {"j1", "j3"}
MCClosures == {"c1", "c2"}
MCWorkers == {"w1", "w2"}
MCSubmits == [j \in MCJobs |-> CASE j = "j1" -> "c1"
                                 [] j = "j3" -> "c2"
                                 [] OTHER    -> None]
MCPostsBack == [c \in MCClosures |-> IF c = "c1" THEN "j2" ELSE None]

====
