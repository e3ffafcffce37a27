--------------------------- MODULE MCProjectLock ---------------------------
(***************************************************************************)
(* Two processes, one with two concurrent index calls (a watcher tick and  *)
(* a tool call), one with a single call.                                   *)
(***************************************************************************)
EXTENDS ProjectLock, TLC

CONSTANTS watcher, tool, cli, server, shell

MCCaller == {watcher, tool, cli}
MCProcess == {server, shell}
MCProcOf == watcher :> server @@ tool :> server @@ cli :> shell
=============================================================================
