----------------------------- MODULE MCWatcher -----------------------------
(***************************************************************************)
(* The files of MCIndexer with a fixed and b the one that is edited and    *)
(* deleted: moving n between a and b re-binds the call in c.               *)
(***************************************************************************)
EXTENDS Watcher, TLC

CONSTANTS a, b, c, n, def, use, blank

MCDefs == def :> {n} @@ use :> {} @@ blank :> {}
MCCalls == def :> {} @@ use :> {n} @@ blank :> {}
MCVersions == a :> {def, blank} @@ b :> {def, Absent} @@ c :> {use}
MCBefore == a :> {} @@ b :> {a} @@ c :> {a, b}
=============================================================================
