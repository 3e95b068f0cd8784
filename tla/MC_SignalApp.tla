---------------------------- MODULE MC_SignalApp ----------------------------
(***************************************************************************)
(* examples/07 with two signal numbers and at most two signals raised by  *)
(* the OS: enough for a second signal to be captured while the first     *)
(* one's delivery, or the woken app, is still on the loop's queue.        *)
(***************************************************************************)
EXTENDS SignalApp

MCMaxCaptures == 2
=============================================================================
