--------------------------- MODULE MCPassResources ---------------------------
(* The processes of MCProjectLock, and three Python files, one of them hard. *)
EXTENDS PassResources, MCProjectLock, MCResolution

CONSTANTS f1, f2, f3

MCSource == {f1, f2, f3}
MCHard == {f3}
=============================================================================
