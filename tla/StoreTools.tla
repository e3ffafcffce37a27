----------------------------- MODULE StoreTools -----------------------------
(***************************************************************************)
(* The store and the tools that read it.  Each is explored while the other *)
(* is at rest: a question brings its own tables, which no process changes  *)
(* before it is answered.                                                  *)
(***************************************************************************)
EXTENDS Store, ToolAnswers

StoreRests == Init /\ version = 0 /\ projects = <<>> /\ UNCHANGED vars

AllInit == Init /\ ToolsInit

AllNext == (Next /\ ToolsRest) \/ (StoreRests /\ ToolsNext)

AllSpec == AllInit /\ [][AllNext]_<<vars, asked>>
=============================================================================
