------------------------------ MODULE MCStore ------------------------------
(***************************************************************************)
(* An old and a new binary.  The last of the two migrations is the new     *)
(* binary's own: it adds a column and makes a table, as v21 to v22 does.   *)
(* The new one is an unstamped development build, which                    *)
(* CompareBinaryVersion ranks below every release.                         *)
(***************************************************************************)
EXTENDS Store, TLC

CONSTANTS old, new, canon, alias, former

MCKnows == old :> 2 @@ new :> 3
MCBinary == old :> 2 @@ new :> 1
MCMigration == <<<<TRUE>>, <<TRUE, FALSE>>>>
MCProjects0 == {{}, {canon, alias}, {alias, former}}
NoProjects == {{}}
=============================================================================
