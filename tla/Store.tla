-------------------------------- MODULE Store --------------------------------
(***************************************************************************)
(* Processes that open the one database file (internal/db/db.go) and work  *)
(* on its projects.                                                        *)
(*                                                                         *)
(* Open migrates: it reads schema_version and, for every migration that    *)
(* the database has not seen, runs its DDL statements, each a transaction  *)
(* of its own, and then writes the new version.  Some statements may be    *)
(* run again (IF NOT EXISTS), others not (ADD COLUMN).  Then it merges     *)
(* project rows that name the same directory: every table keyed by project *)
(* is moved to the winner statement by statement, the losers go, and the   *)
(* winner is renamed to the canonical id.  A statement may meet a locked   *)
(* database, in which case Open starts over, at most Attempts times.       *)
(*                                                                         *)
(* An open process runs index passes over the canonical project (one at a  *)
(* time, see ProjectLock; what a pass does to a file is in Indexer),       *)
(* deletes projects, sweeps the empty ones, and exits when it sees that    *)
(* the schema has outgrown it.                                             *)
(*                                                                         *)
(* One directory is modelled, with all the ids it ever had.  symbols       *)
(* stands for symbols, edges and extraction_failures; files for files,     *)
(* adrs and symbol_moves; pending for pending_edges, struct_fields and     *)
(* interface_methods.                                                      *)
(***************************************************************************)
EXTENDS Integers, Sequences, FiniteSets

CONSTANTS
    Proc,           \* processes
    Knows,          \* Knows[p]: the schema version of p's binary
    Binary,         \* Binary[p]: its version, as CompareBinaryVersion ranks it
    Migration,      \* Migration[v]: from version v; TRUE: not to be run again
    Id, Canon,      \* ids of the directory's project rows, today's id
    Key,            \* files of the directory, each with its symbols
    Versions0,      \* versions and sets of project rows the database may
    Projects0,      \* start with
    Attempts,       \* retryOnDBLock's maxAttempts
    Closure,        \* whether passes fill the closure table
    MaxFaults,      \* bound: crashes, statements that meet a locked database
    None

MaxVersion == Len(Migration) + 1

ASSUME ConstantsOK ==
    /\ Migration \in Seq(Seq(BOOLEAN))
    /\ IsFiniteSet(Id) /\ IsFiniteSet(Key)
    /\ \A p \in Proc : Knows[p] \in 1 .. MaxVersion /\ Binary[p] \in Nat \ {0}
    /\ Attempts \in Nat \ {0} /\ Versions0 \subseteq 0 .. MaxVersion
    /\ Canon \in Id /\ None \notin Id \cup Proc
    /\ Projects0 \subseteq SUBSET Id
    /\ Closure \in BOOLEAN /\ MaxFaults \in Nat

VARIABLES
    version,    \* schema_version, 0 before the table has its row
    ddl,        \* statements <<v, j>> whose effect is in the schema
    projects,   \* the projects table
    rows,       \* the other tables: pairs of an id and a key
    pc, tries,  \* each process: where it is, attempts of migrate so far
    at, stmt,   \* migrate: the version it is at, the next statement
    plan,       \* dedup: winner, loser, losers left, table
    batch,      \* a pass: keys it has committed and not flushed
    total,      \* a pass: GraphStats at its end
    seen,       \* a pass: the binary_version it has read and not yet written over
    listed,     \* a sweep: the rows it has still to delete
    lock,       \* the project lock
    faults,     \* bound
    scars       \* history: dedup or pass, when one was cut short or disturbed

schema == <<version, ddl>>
tables == <<projects, rows>>
migration == <<tries, at, stmt>>
pass == <<batch, total, seen, lock>>
ghosts == <<faults, scars>>
vars == <<schema, tables, pc, migration, plan, pass, listed, ghosts>>

-----------------------------------------------------------------------------
(* The tables.                                                             *)

Table == {"symbols", "files", "closure", "pending"}

\* Tables whose project_id REFERENCES projects(id).
References == {"symbols", "closure"}

\* The tables a merge moves and, after projects, a rename rewrites.
Moved == <<"symbols", "files">>

Row == [count : 0 .. Cardinality(Key), binary : Nat, schema : 1 .. MaxVersion]
NoPlan == [winner |-> None, loser |-> None, rest |-> {}, tab |-> 1]

Of(t, id) == {r \in rows[t] : r[1] = id}
Keys(t) == {r[2] : r \in rows[t]}
Rekey(S, from, to) ==
    {IF r[1] = from THEN <<to, r[2]>> ELSE r : r \in S}
Without(f, id) == [i \in DOMAIN f \ {id} |-> f[i]]
Larger(m, n) == IF m >= n THEN m ELSE n
With(f, id, r) == [i \in DOMAIN f \cup {id} |-> IF i = id THEN r ELSE f[i]]

-----------------------------------------------------------------------------
(* Where a process may be.                                                 *)

Merging == {"move", "drop", "unlink", "rename", "rekey", "recount"}
Opening == {"baseline", "read", "ddl", "bump", "dedup"} \cup Merging
InPass == {"renew", "meta", "commit", "flush", "stats", "look", "stamp", "closure"}
Serving == {"open", "sweep"} \cup InPass
Down == {"down", "failed", "refused", "locked"}

\* The stamps of binaries that the schema has not outgrown, and none.
Stamps0 == {<<0, 1>>} \cup
           {<<Binary[p], Knows[p]>> : p \in {q \in Proc : Knows[q] <= version}}

Init ==
    /\ version \in Versions0
    /\ ddl = UNION {{v} \X DOMAIN Migration[v] : v \in 1 .. (version - 1)}
    /\ \E P \in Projects0, S \in SUBSET (Id \X Key), cl \in {{}, Key}, by \in Stamps0 :
        LET held == {r \in S : r[1] \in P} IN
        /\ S = held /\ (version <= 1 => P = {})
        /\ rows = [t \in Table |->
                    IF t = "closure"
                    THEN {r \in held : Closure /\ r[2] \in cl} ELSE held]
        /\ projects = [i \in P |->
                    [count |-> Cardinality({r \in held : r[1] = i}),
                     binary |-> by[1], schema |-> by[2]]]
    /\ pc = [p \in Proc |-> "down"]
    /\ tries = [p \in Proc |-> 0] /\ at = [p \in Proc |-> 0]
    /\ stmt = [p \in Proc |-> 1] /\ plan = [p \in Proc |-> NoPlan]
    /\ batch = [p \in Proc |-> {}] /\ total = [p \in Proc |-> 0]
    /\ seen = [p \in Proc |-> 0]
    /\ listed = [p \in Proc |-> {}] /\ lock = None
    /\ faults = 0 /\ scars = {}

Goto(p, l) == pc' = [pc EXCEPT ![p] = l]

\* migrate returns: retryOnDBLock does not retry a success or another error.
Return(p, l) == Goto(p, l) /\ tries' = [tries EXCEPT ![p] = 0]

-----------------------------------------------------------------------------
(* Open: migrate.                                                          *)

OpenStart(p) ==
    /\ pc[p] \in Down
    /\ Goto(p, "baseline") /\ tries' = [tries EXCEPT ![p] = 1]
    /\ UNCHANGED <<schema, tables, at, stmt, plan, pass, listed, ghosts>>

\* The baseline DDL and the row of schema_version: both IF NOT EXISTS.
Bootstrap(p) ==
    /\ pc[p] = "baseline"
    /\ version' = IF version = 0 THEN 1 ELSE version
    /\ Goto(p, "read")
    /\ UNCHANGED <<ddl, tables, migration, plan, pass, listed, ghosts>>

\* A database newer than the binary is refused.
ReadVersion(p) ==
    /\ pc[p] = "read"
    /\ at' = [at EXCEPT ![p] = version] /\ stmt' = [stmt EXCEPT ![p] = 1]
    /\ IF version > Knows[p] THEN Return(p, "refused")
       ELSE Goto(p, "ddl") /\ UNCHANGED tries
    /\ UNCHANGED <<schema, tables, plan, pass, listed, ghosts>>

Pending(p) == pc[p] = "ddl" /\ at[p] < Knows[p]

\* One statement of the migration; ADD COLUMN of a column that is there fails.
RunStatement(p) ==
    LET s == <<at[p], stmt[p]>> IN
    /\ Pending(p) /\ stmt[p] <= Len(Migration[at[p]])
    /\ IF Migration[at[p]][stmt[p]] /\ s \in ddl
       THEN Return(p, "failed") /\ UNCHANGED <<ddl, stmt>>
       ELSE /\ ddl' = ddl \cup {s}
            /\ stmt' = [stmt EXCEPT ![p] = @ + 1]
            /\ UNCHANGED <<pc, tries>>
    /\ UNCHANGED <<version, tables, at, plan, pass, listed, ghosts>>

\* Mutant: the version is written before the last statement has run.
BumpVersionEarly(p) ==
    /\ Pending(p) /\ stmt[p] >= Len(Migration[at[p]])
    /\ version' = at[p] + 1
    /\ at' = [at EXCEPT ![p] = @ + 1] /\ stmt' = [stmt EXCEPT ![p] = 1]
    /\ UNCHANGED <<ddl, tables, pc, tries, plan, pass, listed, ghosts>>

\* The version is written whatever another process has written since.
BumpVersion(p) ==
    /\ Pending(p) /\ stmt[p] > Len(Migration[at[p]])
    /\ version' = at[p] + 1
    /\ at' = [at EXCEPT ![p] = @ + 1] /\ stmt' = [stmt EXCEPT ![p] = 1]
    /\ UNCHANGED <<ddl, tables, pc, tries, plan, pass, listed, ghosts>>

Migrated(p) ==
    /\ pc[p] = "ddl" /\ at[p] >= Knows[p]
    /\ Goto(p, "dedup")
    /\ UNCHANGED <<schema, tables, migration, plan, pass, listed, ghosts>>

\* SQLITE_BUSY: the statement has no effect and retryOnDBLock starts over.
Busy(p) ==
    /\ pc[p] = "baseline" \/ pc[p] \in Merging \/ Pending(p)
    /\ faults < MaxFaults
    /\ faults' = faults + 1
    /\ IF tries[p] < Attempts
       THEN Goto(p, "baseline") /\ tries' = [tries EXCEPT ![p] = @ + 1]
       ELSE Return(p, "locked")
    /\ plan' = [plan EXCEPT ![p] = NoPlan]
    /\ scars' = IF pc[p] \in Merging THEN scars \cup {"dedup"} ELSE scars
    /\ UNCHANGED <<schema, tables, at, stmt, pass, listed>>

-----------------------------------------------------------------------------
(* Open: dedupProjectsByCanonicalPath.                                     *)

\* The row with the canonical id, or else the one with the most symbols; of
\* equals, the first in an order that every process finds the same.
Winner ==
    IF Canon \in DOMAIN projects THEN Canon
    ELSE CHOOSE i \in DOMAIN projects :
            \A j \in DOMAIN projects : projects[j].count <= projects[i].count

Scan(p) ==
    /\ pc[p] = "dedup"
    /\ IF Cardinality(DOMAIN projects) <= 1
       THEN Return(p, "open") /\ UNCHANGED plan
       ELSE \E l \in DOMAIN projects \ {Winner} :
                /\ plan' = [plan EXCEPT ![p] =
                        [winner |-> Winner, loser |-> l, tab |-> 1,
                         rest |-> DOMAIN projects \ {Winner, l}]]
                /\ Goto(p, "move") /\ UNCHANGED tries
    /\ UNCHANGED <<schema, tables, at, stmt, pass, listed, ghosts>>

\* A merge that meets a pass, or another dedup, is marked.
Disturb(p) ==
    scars' = IF lock # None \/ \E q \in Proc \ {p} : pc[q] \in Merging
             THEN scars \cup {"dedup"} ELSE scars

\* Open returns the error of a statement.
Fail(p) ==
    /\ Return(p, "failed")
    /\ plan' = [plan EXCEPT ![p] = NoPlan]
    /\ scars' = scars \cup {"dedup"}

\* Mutant: nothing is moved.
MoveNothing(p) ==
    /\ pc[p] = "move" /\ Goto(p, "drop") /\ Disturb(p)
    /\ UNCHANGED <<schema, tables, migration, plan, pass, listed, faults>>

\* UPDATE ... SET project_id: the rows that the winner does not have.
Move(p) ==
    LET pl == plan[p]
        t == Moved[pl.tab]
        go == {r \in Of(t, pl.loser) : <<pl.winner, r[2]>> \notin rows[t]}
    IN
    /\ pc[p] = "move"
    /\ IF go # {} /\ t \in References /\ pl.winner \notin DOMAIN projects
       THEN Fail(p) /\ UNCHANGED rows
       ELSE /\ rows' = [rows EXCEPT ![t] =
                            (@ \ go) \cup Rekey(go, pl.loser, pl.winner)]
            /\ Goto(p, "drop") /\ Disturb(p) /\ UNCHANGED <<plan, tries>>
    /\ UNCHANGED <<schema, projects, at, stmt, pass, listed, faults>>

\* DELETE: the rows that could not be moved.
Drop(p) ==
    LET pl == plan[p] IN
    /\ pc[p] = "drop"
    /\ rows' = [rows EXCEPT ![Moved[pl.tab]] =
                    @ \ Of(Moved[pl.tab], pl.loser)]
    /\ IF pl.tab < Len(Moved)
       THEN /\ plan' = [plan EXCEPT ![p].tab = @ + 1]
            /\ Goto(p, "move")
       ELSE Goto(p, "unlink") /\ UNCHANGED plan
    /\ Disturb(p)
    /\ UNCHANGED <<schema, projects, migration, pass, listed, faults>>

\* DELETE FROM projects: refused while some row still references the loser.
Unlink(p) ==
    LET pl == plan[p] IN
    /\ pc[p] = "unlink"
    /\ IF \E t \in References : Of(t, pl.loser) # {}
       THEN Fail(p) /\ UNCHANGED projects
       ELSE /\ projects' = Without(projects, pl.loser)
            /\ Disturb(p) /\ UNCHANGED tries
            /\ IF pl.rest # {}
               THEN /\ \E l \in pl.rest :
                          plan' = [plan EXCEPT ![p].loser = l,
                                        ![p].rest = @ \ {l}, ![p].tab = 1]
                    /\ Goto(p, "move")
               ELSE /\ UNCHANGED plan
                    /\ Goto(p, IF pl.winner = Canon THEN "recount"
                               ELSE "rename")
    /\ UNCHANGED <<schema, rows, at, stmt, pass, listed, faults>>

\* renameProjectID with foreign keys off: projects first,
Rename(p) ==
    LET w == plan[p].winner IN
    /\ pc[p] = "rename"
    /\ IF w \in DOMAIN projects /\ Canon \in DOMAIN projects
       THEN Fail(p) /\ UNCHANGED projects
       ELSE /\ projects' = IF w \in DOMAIN projects
                           THEN With(Without(projects, w), Canon, projects[w])
                           ELSE projects
            /\ plan' = [plan EXCEPT ![p].tab = 1]
            /\ Goto(p, "rekey") /\ Disturb(p) /\ UNCHANGED tries
    /\ UNCHANGED <<schema, rows, at, stmt, pass, listed, faults>>

\* then table after table; a key that both ids have violates uniqueness.
RekeyTable(p) ==
    LET pl == plan[p]
        t == Moved[pl.tab]
        own == Of(t, pl.winner)
    IN
    /\ pc[p] = "rekey"
    /\ IF \E r \in own : <<Canon, r[2]>> \in rows[t]
       THEN Fail(p) /\ UNCHANGED rows
       ELSE /\ rows' = [rows EXCEPT ![t] = Rekey(@, pl.winner, Canon)]
            /\ plan' = [plan EXCEPT ![p].tab = @ + 1]
            /\ Goto(p, IF pl.tab < Len(Moved) THEN "rekey" ELSE "recount")
            /\ Disturb(p) /\ UNCHANGED tries
    /\ UNCHANGED <<schema, projects, at, stmt, pass, listed, faults>>

\* Mutant: the counts are left as they were.
RecountNothing(p) ==
    /\ pc[p] = "recount"
    /\ plan' = [plan EXCEPT ![p] = NoPlan]
    /\ Return(p, "open") /\ Disturb(p)
    /\ UNCHANGED <<schema, tables, at, stmt, pass, listed, faults>>

\* recomputeProjectCounts
Recount(p) ==
    /\ pc[p] = "recount"
    /\ projects' = IF Canon \in DOMAIN projects
                   THEN [projects EXCEPT ![Canon].count =
                            Cardinality(Of("symbols", Canon))]
                   ELSE projects
    /\ plan' = [plan EXCEPT ![p] = NoPlan]
    /\ Return(p, "open") /\ Disturb(p)
    /\ UNCHANGED <<schema, rows, at, stmt, pass, listed, faults>>

-----------------------------------------------------------------------------
(* An index pass over the canonical project, as far as other processes     *)
(* and other ids of the project are concerned.                             *)

\* The stamp of the project's row, read before the statement that writes it.
See(p) == seen' = [seen EXCEPT ![p] =
              IF Canon \in DOMAIN projects THEN Larger(@, projects[Canon].binary) ELSE @]

\* Mutant: another process' pass is no obstacle.
PassStartAnyway(p) ==
    /\ pc[p] = "open"
    /\ lock' = p /\ See(p)
    /\ Goto(p, "renew")
    /\ UNCHANGED <<schema, tables, migration, plan, batch, total, listed, ghosts>>

\* indexImpl takes the lock and reads the stamp it is to keep.
PassStart(p) ==
    /\ pc[p] = "open" /\ lock = None
    /\ lock' = p /\ See(p)
    /\ Goto(p, "renew")
    /\ UNCHANGED <<schema, tables, migration, plan, batch, total, listed, ghosts>>

\* UpsertProjectMeta reads it again, lest there be a newer one,
PassReread(p) ==
    /\ pc[p] = "renew" /\ See(p)
    /\ Goto(p, "meta")
    /\ UNCHANGED <<schema, tables, migration, plan, batch, total, lock, listed, ghosts>>

\* and makes the row, or writes the stamp it has seen and keeps the counts.  The
\* guard on the schema is in the statement itself.
Renewed(p, old) ==
    [old EXCEPT !.binary = IF Knows[p] >= old.schema THEN seen[p] ELSE @,
                !.schema = Larger(Knows[p], @)]

PassMeta(p) ==
    /\ pc[p] = "meta"
    /\ projects' = With(projects, Canon,
            IF Canon \in DOMAIN projects THEN Renewed(p, projects[Canon])
            ELSE [count |-> 0, binary |-> seen[p], schema |-> Knows[p]])
    /\ seen' = [seen EXCEPT ![p] = 0]
    /\ Goto(p, "commit")
    /\ UNCHANGED <<schema, rows, migration, plan, batch, total, lock, listed, ghosts>>

\* Files with a current hash are skipped; no foreign key guards these rows.
PassCommit(p) ==
    /\ pc[p] = "commit"
    /\ batch' = [batch EXCEPT ![p] = Key \ {r[2] : r \in Of("files", Canon)}]
    /\ rows' = [t \in Table |-> IF t \in {"files", "pending"}
                THEN rows[t] \cup ({Canon} \X batch'[p]) ELSE rows[t]]
    /\ Goto(p, "flush")
    /\ UNCHANGED <<schema, projects, migration, plan, total, seen, lock, listed,
                   ghosts>>

\* BulkUpsertSymbols fails without the project's row; the pass goes on.
PassFlush(p) ==
    /\ pc[p] = "flush"
    /\ rows' = IF Canon \in DOMAIN projects
               THEN [rows EXCEPT !["symbols"] = @ \cup ({Canon} \X batch[p])]
               ELSE rows
    /\ batch' = [batch EXCEPT ![p] = {}]
    /\ Goto(p, "stats")
    /\ UNCHANGED <<schema, projects, migration, plan, total, seen, lock, listed,
                   ghosts>>

\* GraphStats
PassStats(p) ==
    /\ pc[p] = "stats"
    /\ total' = [total EXCEPT ![p] = Cardinality(Of("symbols", Canon))]
    /\ Goto(p, "look")
    /\ UNCHANGED <<schema, tables, migration, plan, batch, seen, lock, listed, ghosts>>

\* UpsertProject reads the stamp,
PassLook(p) ==
    /\ pc[p] = "look" /\ See(p)
    /\ Goto(p, "stamp")
    /\ UNCHANGED <<schema, tables, migration, plan, batch, total, lock, listed, ghosts>>

\* and writes its own or that one, whichever is newer, under the same guard.
Stamped(p, old) ==
    [count |-> total[p],
     binary |-> IF Knows[p] >= old.schema THEN Larger(Binary[p], seen[p]) ELSE old.binary,
     schema |-> Larger(Knows[p], old.schema)]

PassStamp(p) ==
    /\ pc[p] = "stamp"
    /\ projects' = With(projects, Canon,
            IF Canon \in DOMAIN projects THEN Stamped(p, projects[Canon])
            ELSE [count |-> total[p], binary |-> Larger(Binary[p], seen[p]),
                  schema |-> Knows[p]])
    /\ total' = [total EXCEPT ![p] = 0] /\ seen' = [seen EXCEPT ![p] = 0]
    /\ Goto(p, "closure")
    /\ UNCHANGED <<schema, rows, migration, plan, batch, lock, listed, ghosts>>

\* ComputeClosure, in one transaction, when it is switched on.
PassClosure(p) ==
    /\ pc[p] = "closure"
    /\ rows' = IF Closure /\ Canon \in DOMAIN projects
               THEN [rows EXCEPT !["closure"] =
                        (@ \ Of("closure", Canon)) \cup Of("symbols", Canon)]
               ELSE rows
    /\ lock' = None /\ Goto(p, "open")
    /\ UNCHANGED <<schema, projects, migration, plan, batch, total, seen, listed,
                   ghosts>>

-----------------------------------------------------------------------------
(* Deletion.                                                               *)

\* DeleteProject: every table in one transaction.
Deleted(id) ==
    /\ rows' = [t \in Table |-> rows[t] \ Of(t, id)]
    /\ projects' = Without(projects, id)
    /\ scars' = scars \cup (IF lock # None THEN {"pass"} ELSE {})
                       \cup (IF \E q \in Proc : pc[q] \in Merging
                             THEN {"dedup"} ELSE {})

\* The command line, the dashboard, list's prune_dead.
DeleteProject(p, id) ==
    /\ pc[p] = "open" /\ id \in DOMAIN projects
    /\ Deleted(id)
    /\ UNCHANGED <<schema, pc, migration, plan, pass, listed, faults>>

\* DeleteEmptyProjects lists the rows whose counts are 0,
Empty == {i \in DOMAIN projects : projects[i].count = 0}

ListEmpty(p) ==
    /\ pc[p] = "open" /\ Empty # {}
    /\ listed' = [listed EXCEPT ![p] = Empty]
    /\ Goto(p, "sweep")
    /\ UNCHANGED <<schema, tables, migration, plan, pass, ghosts>>

\* and deletes them one by one, without another look.
Sweep(p) ==
    /\ pc[p] = "sweep"
    /\ IF listed[p] = {}
       THEN Goto(p, "open") /\ UNCHANGED <<tables, listed, scars>>
       ELSE \E id \in listed[p] :
                /\ Deleted(id)
                /\ listed' = [listed EXCEPT ![p] = @ \ {id}]
                /\ UNCHANGED pc
    /\ UNCHANGED <<schema, migration, plan, pass, faults>>

-----------------------------------------------------------------------------
(* The end of a process.                                                   *)

Gone(p) ==
    /\ Goto(p, "down")
    /\ tries' = [tries EXCEPT ![p] = 0] /\ at' = [at EXCEPT ![p] = 0]
    /\ stmt' = [stmt EXCEPT ![p] = 1] /\ plan' = [plan EXCEPT ![p] = NoPlan]
    /\ batch' = [batch EXCEPT ![p] = {}] /\ total' = [total EXCEPT ![p] = 0]
    /\ seen' = [seen EXCEPT ![p] = 0]
    /\ listed' = [listed EXCEPT ![p] = {}]
    /\ lock' = IF lock = p THEN None ELSE lock
    /\ scars' = scars \cup (IF pc[p] \in Merging THEN {"dedup"}
                            ELSE IF pc[p] \in InPass THEN {"pass"} ELSE {})
    /\ UNCHANGED <<schema, tables>>

\* detectSchemaDrift: exit 1, and the supervisor starts another.
DriftTick(p) ==
    /\ pc[p] \in Serving /\ version > Knows[p]
    /\ Gone(p) /\ UNCHANGED faults

Exit(p) ==
    /\ pc[p] = "open"
    /\ Gone(p) /\ UNCHANGED faults

Crash(p) ==
    /\ pc[p] \notin Down \cup {"open"} /\ faults < MaxFaults
    /\ faults' = faults + 1
    /\ Gone(p)

Migrate(p) ==
    \/ OpenStart(p) \/ Bootstrap(p) \/ ReadVersion(p) \/ RunStatement(p)
    \/ BumpVersion(p) \/ Migrated(p) \/ Busy(p)

Dedup(p) ==
    \/ Scan(p) \/ Move(p) \/ Drop(p) \/ Unlink(p) \/ Rename(p)
    \/ RekeyTable(p) \/ Recount(p)

Pass(p) ==
    \/ PassStart(p) \/ PassReread(p) \/ PassMeta(p) \/ PassCommit(p) \/ PassFlush(p)
    \/ PassStats(p) \/ PassLook(p) \/ PassStamp(p) \/ PassClosure(p)

Next == \E p \in Proc :
    \/ Migrate(p) \/ Dedup(p) \/ Pass(p)
    \/ ListEmpty(p) \/ Sweep(p) \/ \E id \in Id : DeleteProject(p, id)
    \/ DriftTick(p) \/ Exit(p) \/ Crash(p)

\* The watcher's ticker keeps ticking.
Spec == Init /\ [][Next]_vars

-----------------------------------------------------------------------------
(* Properties.                                                             *)

\* Every variable has its type: sets of rows, positions within the tables.
TypeOK ==
    /\ version \in 0 .. MaxVersion
    /\ \A s \in ddl : s[1] \in DOMAIN Migration /\ s[2] \in DOMAIN Migration[s[1]]
    /\ DOMAIN projects \subseteq Id
    /\ \A i \in DOMAIN projects : projects[i] \in Row
    /\ rows \in [Table -> SUBSET (Id \X Key)]
    /\ pc \in [Proc -> Opening \cup Serving \cup Down]
    /\ tries \in [Proc -> 0 .. Attempts] /\ at \in [Proc -> 0 .. MaxVersion]
    /\ listed \in [Proc -> SUBSET Id] /\ batch \in [Proc -> SUBSET Key]
    /\ seen \in [Proc -> Nat]
    /\ lock \in Proc \cup {None} /\ scars \subseteq {"dedup", "pass"}
    /\ \A p \in Proc : lock = p <=> pc[p] \in InPass

\* The version never claims a migration some statement of which has not run,
\* whatever crashes and whoever else migrates (migrate, Step 4).
VersionIsEarned ==
    \A v \in 1 .. (version - 1) : \A j \in DOMAIN Migration[v] : <<v, j>> \in ddl

\* A dedup loses no file's symbols: what the directory's ids have together
\* stays what it was (mergeProjectInto, renameProjectID), unless the dedup
\* is cut short or meets another writer.
MergeLosesNoKey ==
    [][("dedup" \notin scars' /\ \E p \in Proc : pc[p] \in Merging /\ pc'[p] # pc[p]) =>
        \A i \in DOMAIN Moved : Keys(Moved[i]) \subseteq Keys(Moved[i])']_vars

\* A symbol has its project, although the rename writes with foreign keys
\* off (renameProjectID), unless a rename is under way or a dedup was cut
\* short or met another writer; and between passes the counts of a project
\* are those of its rows: list shows them and the sweep of empty projects
\* trusts them (recomputeProjectCounts, UpsertProject).  Not after a dedup or
\* a pass that was cut short, a dedup that met a pass, or a deletion that
\* did.  (Rows of closure, which REFERENCES projects(id) as well, are left
\* behind by the rename.)
ProjectsAddUp ==
    /\ ("dedup" \notin scars /\ \A p \in Proc : pc[p] # "rekey") =>
            \A r \in rows["symbols"] : r[1] \in DOMAIN projects
    /\ (scars = {} /\ lock = None /\ \A p \in Proc : pc[p] \notin Merging) =>
            \A i \in DOMAIN projects :
                projects[i].count = Cardinality(Of("symbols", i))

\* As long as a project's row lives, neither stamp goes back, whichever of
\* two binaries indexes it (UpsertProject, UpsertProjectMeta), although
\* binary_version is read before the statement that writes it: the project
\* lock keeps other passes out in between.  It does not keep out the rename
\* of a dedup, which may bring another row with a newer stamp: not after a
\* dedup that met a pass.
StampNeverGoesBack ==
    [][\A i \in DOMAIN projects \cap DOMAIN projects' :
        /\ "dedup" \notin scars' => projects'[i].binary >= projects[i].binary
        /\ projects'[i].schema >= projects[i].schema]_vars

\* migrate may be run again after any interruption (retryOnDBLock: "fn must
\* be idempotent"): no Open of a database its binary knows ever fails.
MigrateIsIdempotent == \A p \in Proc : pc[p] # "failed"
=============================================================================
