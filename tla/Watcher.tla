------------------------------- MODULE Watcher -------------------------------
(***************************************************************************)
(* The background watcher (Indexer.Watch in internal/index/indexer.go)     *)
(* over the passes of module Indexer.  On a tick with nothing running it   *)
(* asks which files have changed since indexed_at; if some have, it clears *)
(* the hashes of their referencers, runs an incremental pass and remembers *)
(* that a self-heal is owed; if none have and one is owed, it runs the     *)
(* resolve-only pass.  After HealThreshold incremental passes in a row it  *)
(* does not wait for a quiet tick.                                         *)
(*                                                                         *)
(* A project becomes known to it with the first pass, which the server     *)
(* starts for its session.  Passes run beside it: tool calls in its own    *)
(* process, and command lines in others, which it only meets as a refused  *)
(* lock.  What a crash leaves behind is the matter of module Indexer: here *)
(* the process ends only to be upgraded.                                   *)
(***************************************************************************)
EXTENDS Indexer

CONSTANTS
    Callers,        \* who else runs passes: tool, cli
    HealThreshold,  \* selfHealReindexThreshold
    MaxCalls        \* bound: passes of others

ASSUME WatcherConstantsOK ==
    /\ Callers \subseteq {"tool", "cli"}
    /\ HealThreshold \in Nat \ {0}
    /\ MaxCalls \in Nat

VARIABLES
    known,          \* the project has a row
    owner,          \* whose pass is running: none, watcher, tool, cli
    wpc,            \* the watcher: idle, invalidate, index, indexing,
                    \* heal, healing
    changed,        \* what changedFiles returned
    selfHealNeeded, \* selfHealNeeded[projectID]
    sinceHeal,      \* incrementalSinceHeal[projectID]
    calls           \* bound

watcher == <<wpc, changed, selfHealNeeded, sinceHeal>>
wvars   == <<vars, known, owner, watcher, calls>>

WInit ==
    /\ Init
    /\ known = FALSE /\ owner = "none"
    /\ wpc = "idle" /\ changed = {}
    /\ selfHealNeeded = FALSE /\ sinceHeal = 0
    /\ calls = 0

-----------------------------------------------------------------------------
(* Passes.                                                                 *)

\* indexImpl's flag and lock: refused unless no pass is running.
StartFor(who, k) ==
    /\ Start(k)
    /\ owner' = who
    /\ known' = TRUE

\* A step of the running pass; its last one gives the locks back.
PassStep ==
    /\ Pass
    /\ owner' = IF pc' = "idle" THEN "none" ELSE owner
    /\ UNCHANGED <<known, watcher, calls>>

\* The first pass: startAutoIndex, or the first tool call on the project.
FirstIndex ==
    /\ ~known
    /\ StartFor("tool", "index")
    /\ UNCHANGED <<watcher, calls>>

Call ==
    /\ known
    /\ calls < MaxCalls /\ calls' = calls + 1
    /\ \E who \in Callers, k \in Kinds \ {"heal"} : StartFor(who, k)
    /\ UNCHANGED watcher

-----------------------------------------------------------------------------
(* The watcher.                                                            *)

\* Mutant: a deletion is not a change.
ModifiedFiles == newer

\* changedFiles: newer than indexed_at, or stored and no longer there.
ChangedFiles == newer \cup {f \in File : hash[f] # None /\ disk[f] = Absent}

\* A tick.  anyActive() sees the passes of this process only.  The heal's
\* flags are deleted before it is tried.
Tick ==
    /\ wpc = "idle"
    /\ known
    /\ owner \in {"none", "cli"}
    /\ \/ /\ ChangedFiles # {} \/ stamp = "old"
          /\ changed' = ChangedFiles
          /\ wpc' = "invalidate"
          /\ UNCHANGED <<selfHealNeeded, sinceHeal>>
       \/ /\ ChangedFiles = {} /\ stamp # "old"
          /\ selfHealNeeded
          /\ selfHealNeeded' = FALSE /\ sinceHeal' = 0
          /\ wpc' = "heal"
          /\ UNCHANGED changed
    /\ UNCHANGED <<vars, known, owner, calls>>

\* invalidateReferencers.
Invalidate ==
    /\ wpc = "invalidate"
    /\ LET refs == UNION {FilesWithEdgesToFile(f) : f \in changed}
       IN  hash' = [f \in File |-> IF f \in refs THEN None ELSE hash[f]]
    /\ changed' = {}
    /\ wpc' = "index"
    /\ UNCHANGED <<tree, pend, syms, edges, stamp, pc, kind, walk, buf,
                   reap, edits, faults, history, known, owner, selfHealNeeded,
                   sinceHeal, calls>>

\* Mutant: a pass that has just run owes no self-heal.
CountNothing ==
    /\ wpc' = "idle"
    /\ UNCHANGED <<changed, selfHealNeeded, sinceHeal>>

\* Index has returned, with an error or without.
Count ==
    /\ IF sinceHeal + 1 >= HealThreshold
          THEN wpc' = "heal" /\ selfHealNeeded' = FALSE /\ sinceHeal' = 0
          ELSE wpc' = "idle" /\ selfHealNeeded' = TRUE
                             /\ sinceHeal' = sinceHeal + 1
    /\ UNCHANGED changed

\* Index(ctx, p.Path, false); refused while another pass is running.
StartIndex ==
    /\ wpc = "index"
    /\ \/ /\ StartFor("watcher", "index")
          /\ wpc' = "indexing"
          /\ UNCHANGED <<changed, selfHealNeeded, sinceHeal>>
       \/ /\ owner # "none"
          /\ Count
          /\ UNCHANGED <<vars, known, owner>>
    /\ UNCHANGED calls

IndexReturns ==
    /\ wpc = "indexing"
    /\ owner # "watcher"
    /\ Count
    /\ UNCHANGED <<vars, known, owner, calls>>

\* ResolveOnly(ctx, p.Path); refused likewise.
StartHeal ==
    /\ wpc = "heal"
    /\ \/ /\ StartFor("watcher", "heal")
          /\ wpc' = "healing"
       \/ /\ owner # "none"
          /\ wpc' = "idle"
          /\ UNCHANGED <<vars, known, owner>>
    /\ UNCHANGED <<changed, selfHealNeeded, sinceHeal, calls>>

HealReturns ==
    /\ wpc = "healing"
    /\ owner # "watcher"
    /\ wpc' = "idle"
    /\ UNCHANGED <<vars, known, owner, changed, selfHealNeeded, sinceHeal, calls>>

-----------------------------------------------------------------------------
(* Around it.                                                              *)

Edits ==
    /\ (\E f \in File : Edit(f)) \/ NextSecond
    /\ UNCHANGED <<known, owner, watcher, calls>>

\* A new process knows of no heal that is owed.
Forget ==
    /\ wpc' = "idle" /\ changed' = {}
    /\ selfHealNeeded' = FALSE /\ sinceHeal' = 0

\* The server is replaced by a newer binary.
Upgraded ==
    /\ Upgrade
    /\ Forget
    /\ UNCHANGED <<known, owner, calls>>

Watch == Tick \/ Invalidate \/ StartIndex \/ IndexReturns \/ StartHeal
             \/ HealReturns

WNext == FirstIndex \/ PassStep \/ Watch \/ Call \/ Edits \/ Upgraded

(***************************************************************************)
(* The ticker ticks for ever, a pass that has begun goes on, time passes.  *)
(***************************************************************************)
WFairness ==
    /\ WF_wvars(FirstIndex) /\ WF_wvars(PassStep) /\ WF_wvars(Watch)
    /\ WF_wvars(NextSecond /\ UNCHANGED <<known, owner, watcher, calls>>)

WSpec == WInit /\ [][WNext]_wvars /\ WFairness

-----------------------------------------------------------------------------
(* Properties.                                                             *)

WTypeOK ==
    /\ TypeOK
    /\ known \in BOOLEAN
    /\ owner \in {"none", "watcher", "tool", "cli"}
    /\ wpc \in {"idle", "invalidate", "index", "indexing", "heal", "healing"}
    /\ changed \subseteq File
    /\ selfHealNeeded \in BOOLEAN
    /\ sinceHeal \in 0 .. HealThreshold - 1
    /\ calls \in 0 .. MaxCalls
    /\ owner = "none" <=> pc = "idle"

\* Upgrades come to an end.
UpgradesEnd == <>[][stamp' = "old" => stamp = "old"]_wvars

\* The rows that belong to the files on disk.
Tree == [f \in File |-> IF disk[f] = Absent THEN None ELSE disk[f]]

FilesSettled ==
    /\ pc = "idle"
    /\ syms = Shown(Tree)
    /\ \A f \in File : hash[f] \in {Tree[f], None}

(***************************************************************************)
(* No edit escapes the watcher.  However edits, deletions, upgrades and    *)
(* the passes of others fall between its scan, its pass and the pass's     *)
(* walk, the stored symbols end up being those of the tree.                *)
(***************************************************************************)
FilesConverge == UpgradesEnd => <>[]FilesSettled

\* A pass that no self-heal will follow has left wrong edges.
LeftWrong ==
    /\ pc = "finish"
    /\ ~(owner = "watcher" /\ kind = "index")
    /\ edges # IdealEdges(Shown(read))

(***************************************************************************)
(* "An incremental-tick resolve can leave the graph with fewer edges than  *)
(* a force-reindex would produce, and this restores them": the edges end   *)
(* up being those of the tree.                                             *)
(***************************************************************************)
Converges == UpgradesEnd => <>[](FilesSettled /\ edges = IdealEdges(Shown(Tree)))

(***************************************************************************)
(* The watcher's bookkeeping never forgets a heal: if every pass it does   *)
(* not follow up, its own heals among them, has left the right edges, then *)
(* the edges end up being those of the tree.                               *)
(***************************************************************************)
HealsWhatItOwes == []~LeftWrong => Converges
=============================================================================
