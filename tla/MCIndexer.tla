----------------------------- MODULE MCIndexer -----------------------------
(***************************************************************************)
(* Three files in id order a, b, c.  a defines n or is blank, b defines n  *)
(* or is not there, c calls n and m and defines m.                         *)
(***************************************************************************)
EXTENDS Indexer, TLC

CONSTANTS a, b, c, n, m, def, use, blank

MCDefs == def :> {n} @@ use :> {m} @@ blank :> {}
MCCalls == def :> {} @@ use :> {n, m} @@ blank :> {}
MCVersions == a :> {def, blank} @@ b :> {def, Absent} @@ c :> {use}
MCBefore == a :> {} @@ b :> {a} @@ c :> {a, b}
=============================================================================
