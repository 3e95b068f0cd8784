-------------------------- MODULE MC_NetAwaitable --------------------------
(***************************************************************************)
(* The echo server of examples/08 on the network bridge.  `srv` sets up  *)
(* the signal bridge with its on_signal callback, awaits async_listen,    *)
(* then loops on async_accept, spawning a handle_client coroutine per     *)
(* connection, until an accept fails; then ctx.stop().  A client handler  *)
(* loops async_read, async_write.  The starter may throw; the token may  *)
(* be cancelled.                                                           *)
(***************************************************************************)
EXTENDS NetAwaitable

SrvBody == <<"signals", "listen", "accept", "stop", "return">>
CliBody == <<"read", "write", "return">>

\* One connection, or two that the server accepts one after the other.
MCOneClient == {"c1"}
MCTwoClients == {"c1", "c2"}

MCBody == [f \in Frames |-> IF f = "srv" THEN SrvBody ELSE CliBody]
=============================================================================
