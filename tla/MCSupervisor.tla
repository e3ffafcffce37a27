---------------------------- MODULE MCSupervisor ----------------------------
(***************************************************************************)
(* A client with its handshake, a status call and one request; one probe   *)
(* outstanding (the default timeout is shorter than the interval) or two.  *)
(***************************************************************************)
EXTENDS Supervisor

CONSTANTS r1, p1, p2
=============================================================================
