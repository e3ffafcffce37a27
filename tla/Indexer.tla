------------------------------- MODULE Indexer -------------------------------
(***************************************************************************)
(* One index pass over a project (internal/index/indexer.go, indexImpl)    *)
(* and the rows it keeps in SQLite (internal/db/db.go): for every file a   *)
(* content hash, the symbols it defines and the calls it has left to       *)
(* resolve (pending_edges), and the call edges between symbols.            *)
(*                                                                         *)
(* A pass walks the tree and hands every file whose hash differs to a      *)
(* goroutine of its own.  The goroutine deletes the file's old rows,       *)
(* extracts, commits hash and pending calls in one transaction and appends *)
(* the symbols to a buffer in memory, which is flushed in batches and once *)
(* at the end.  Then the pass resolves pending calls to edges, removes the *)
(* rows of files it has not seen, and stamps the project.  The program may *)
(* die, a caller may cancel, a transaction may fail between any two steps. *)
(*                                                                         *)
(* A file's content is a value; Defs and Calls say which names it defines  *)
(* and which it calls.  A file that calls has one calling symbol.  One     *)
(* kind of edge (CALLS) stands for all four, which are resolved alike.     *)
(* Passes of one project exclude each other (see ProjectLock).             *)
(***************************************************************************)
EXTENDS Naturals, FiniteSets

CONSTANTS
    File,           \* paths
    Content,        \* contents a file may have
    Name,           \* names that are defined and called
    Defs, Calls,    \* Defs[c], Calls[c]: names a content defines, calls
    Versions,       \* Versions[f]: what may be at path f, Absent included
    Before,         \* Before[f]: the paths whose symbol ids sort before f's
    Kinds,          \* the callers' kinds of pass that are considered
    ScopeThreshold, \* incrementalScopeThreshold
    Faults,         \* what may go wrong: commit, flush, cancel, crash
    MaxEdits,       \* bound: edits on disk
    MaxFaults,      \* bound: faults
    Absent,         \* no file at the path
    None            \* no row

Kind == {"index", "force", "heal"}

ASSUME ConstantsOK ==
    /\ Defs \in [Content -> SUBSET Name]
    /\ Calls \in [Content -> SUBSET Name]
    /\ Versions \in [File -> SUBSET (Content \cup {Absent})]
    /\ Before \in [File -> SUBSET File]
    /\ Kinds \subseteq Kind
    /\ Faults \subseteq {"commit", "flush", "cancel", "crash"}
    /\ Absent \notin Content /\ None \notin Content
    /\ ScopeThreshold \in Nat /\ MaxEdits \in Nat /\ MaxFaults \in Nat

VARIABLES
    disk,       \* the tree
    newer,      \* files whose mtime is after projects.indexed_at
    fresh,      \* files written within the current second
    hash,       \* files.hash, None without a row
    pend,       \* the content whose calls are in pending_edges
    syms,       \* the content whose symbols are in symbols
    edges,      \* the edges table
    stamp,      \* projects.binary_version: none, old, running
    pc,         \* the pass: idle, walk, cancelled, resolve, gc, finish
    kind,       \* its arguments: index, force (force), heal (resolveOnly)
    todo,       \* files the walk has still to yield
    read,       \* seenFiles, each with the content read
    extracted,  \* extractedFiles
    referrers,  \* referrerFiles
    job,        \* the file's goroutine: none, read, cleared
    buf,        \* files whose symbols are in symBuf
    reap,       \* files the tail GC has still to remove
    edits, faults,  \* bounds
    history     \* what no code reads, see below

tree == <<disk, newer, fresh>>
db   == <<hash, pend, syms, edges>>
walk == <<todo, read, extracted, referrers, job>>
vars == <<tree, db, stamp, pc, kind, walk, buf, reap, edits, faults,
          history>>

(***************************************************************************)
(* history.before: the edges at the start of the pass.                     *)
(* history.lost:   files with a row in files that a fault has left without *)
(*                 the symbols or the pending calls that belong to it.     *)
(* history.missed: files an interrupted pass had not committed.            *)
(* history.old:    files whose symbols an older binary extracted.          *)
(* history.reaped: the pass has removed some file's rows.                  *)
(***************************************************************************)
Edge == [from : File, to : File, name : Name]

Blank(c) == Defs[c] = {} /\ Calls[c] = {}
Visible(c) == IF Blank(c) THEN None ELSE c

-----------------------------------------------------------------------------
(* Names and edges.                                                        *)

Defines(table, f, n) == table[f] # None /\ n \in Defs[table[f]]

\* pickCanonical: of the symbols of that name, the one with the least id.
Target(table, n) == {g \in File : /\ Defines(table, g, n)
                                  /\ \A d \in Before[g] : ~Defines(table, d, n)}

\* Calls whose target the extractor finds in the file itself.
LocalEdges(f, c) ==
    {[from |-> f, to |-> f, name |-> n] : n \in Calls[c] \cap Defs[c]}

\* The others are left to the resolve pass.
Deferred(c) == Calls[c] \ Defs[c]

\* Mutant: a call is bound to every file that defines its name.
ResolvedToAll(stored, pending, scope) ==
    {e \in [from : scope, to : File, name : Name] :
        /\ pending[e.from] # None
        /\ e.name \in Deferred(pending[e.from])
        /\ stored[e.from] # None
        /\ Defines(stored, e.to, e.name)}

\* resolveCalls over the pending calls of the files of scope.
Resolved(stored, pending, scope) ==
    {e \in [from : scope, to : File, name : Name] :
        /\ pending[e.from] # None
        /\ e.name \in Deferred(pending[e.from])
        /\ stored[e.from] # None
        /\ e.to \in Target(stored, e.name)}

\* FilesWithEdgesToFile.
FilesWithEdgesToFile(f) ==
    {g \in File \ {f} : \E e \in edges : e.from = g /\ e.to = f}

\* Mutant: only the edges from the file go, those into it stay.
EdgesNotFrom(f) == {e \in edges : e.from # f}

\* DeleteSymbolsForFile takes the edges from the file and into it.
EdgesWithout(f) == {e \in edges : e.from # f /\ e.to # f}

-----------------------------------------------------------------------------
Init ==
    /\ disk \in {d \in [File -> Content \cup {Absent}] :
                    \A f \in File : d[f] \in Versions[f]}
    /\ newer = {f \in File : disk[f] # Absent} /\ fresh = {}
    /\ hash = [f \in File |-> None]
    /\ pend = [f \in File |-> None]
    /\ syms = [f \in File |-> None]
    /\ edges = {}
    /\ stamp = "none"
    /\ pc = "idle" /\ kind = "index"
    /\ todo = {} /\ read = [f \in File |-> None]
    /\ extracted = {} /\ referrers = {}
    /\ job = [f \in File |-> "none"]
    /\ buf = {} /\ reap = {}
    /\ edits = 0 /\ faults = 0
    /\ history = [before |-> {}, lost |-> {}, missed |-> {}, old |-> {},
                  reaped |-> FALSE]

Fault(what) ==
    /\ what \in Faults
    /\ faults < MaxFaults
    /\ faults' = faults + 1

-----------------------------------------------------------------------------
(* The tree.  Writing a file gives it a new mtime.                         *)

Edit(f) ==
    /\ edits < MaxEdits
    /\ \E c \in Versions[f] \ {disk[f]} :
          /\ disk' = [disk EXCEPT ![f] = c]
          /\ newer' = IF c = Absent THEN newer \ {f} ELSE newer \cup {f}
          /\ fresh' = IF c = Absent THEN fresh \ {f} ELSE fresh \cup {f}
    /\ edits' = edits + 1
    /\ UNCHANGED <<db, stamp, pc, kind, walk, buf, reap, faults, history>>

\* indexed_at has the precision of a second.
NextSecond ==
    /\ fresh # {}
    /\ fresh' = {}
    /\ UNCHANGED <<disk, newer, db, stamp, pc, kind, walk, buf, reap, edits,
                   faults, history>>

-----------------------------------------------------------------------------
(* The walk.                                                               *)

\* Mutant: the start of the pass stamps the running binary's version.
PriorStampLost == "running"

\* UpsertProjectMeta at the start writes the version the row had.
PriorStamp == stamp

\* indexImpl up to the walk: indexed_at becomes the start of this pass, cut
\* to the second.
Start(k) ==
    /\ pc = "idle"
    /\ pc' = "walk" /\ kind' = k
    /\ todo' = File
    /\ read' = [f \in File |-> None]
    /\ extracted' = {} /\ referrers' = {}
    /\ newer' = newer \cap fresh
    /\ stamp' = PriorStamp
    /\ history' = [history EXCEPT !.before = edges, !.reaped = FALSE]
    /\ UNCHANGED <<disk, fresh, db, job, buf, reap, edits, faults>>

\* force, or binaryDriftForce: the stamp is of an older binary.
Forced == kind = "force" \/ stamp = "old"

\* Mutant: only re-extracted files are in the resolve scope.
NoReferrers(f) == {}

\* The referrers of a changed file, read before its goroutine starts.
Referrers(f) == FilesWithEdgesToFile(f)

\* One file of the walk: read it, compare hashes, start its goroutine.
Walk(f) ==
    /\ pc = "walk"
    /\ f \in todo
    /\ todo' = todo \ {f}
    /\ read' = [read EXCEPT ![f] = IF disk[f] = Absent THEN None ELSE disk[f]]
    /\ IF disk[f] # Absent /\ (Forced \/ hash[f] # disk[f])
          THEN /\ extracted' = extracted \cup {f}
               /\ referrers' = referrers \cup Referrers(f)
               /\ job' = [job EXCEPT ![f] = "read"]
               /\ UNCHANGED history
          ELSE /\ history' = [history EXCEPT !.missed = @ \ {f}]
               /\ UNCHANGED <<extracted, referrers, job>>
    /\ UNCHANGED <<tree, db, stamp, pc, kind, buf, reap, edits, faults>>

-----------------------------------------------------------------------------
(* The goroutine of one file.  It runs on after a cancellation.            *)

Walking == pc \in {"walk", "cancelled"}

\* DeleteSymbolsForFile.
ClearFile(f) ==
    /\ Walking
    /\ job[f] = "read"
    /\ job' = [job EXCEPT ![f] = "cleared"]
    /\ syms' = [syms EXCEPT ![f] = None]
    /\ edges' = EdgesWithout(f)
    /\ history' = [history EXCEPT !.old = @ \ {f}]
    /\ UNCHANGED <<tree, hash, pend, stamp, pc, kind, todo, read,
                   extracted, referrers, buf, reap, edits, faults>>

\* Nothing extracted: SetFileHash alone.  Otherwise CommitFileExtraction
\* writes hash and pending calls in one transaction; when it fails the hash
\* is written all the same.
CommitFile(f) ==
    /\ Walking
    /\ job[f] = "cleared"
    /\ job' = [job EXCEPT ![f] = "none"]
    /\ hash' = [hash EXCEPT ![f] = read[f]]
    /\ \/ /\ Blank(read[f])
          /\ history' = [history EXCEPT !.lost = @ \ {f}, !.missed = @ \ {f}]
          /\ UNCHANGED <<pend, buf, faults>>
       \/ /\ ~Blank(read[f])
          /\ pend' = [pend EXCEPT ![f] = read[f]]
          /\ buf' = buf \cup {f}
          /\ history' = [history EXCEPT !.lost = @ \ {f}, !.missed = @ \ {f}]
          /\ UNCHANGED faults
       \/ /\ ~Blank(read[f])
          /\ Fault("commit")
          /\ buf' = buf \cup {f}
          /\ history' = [history EXCEPT !.lost = @ \cup {f},
                                        !.missed = @ \ {f}]
          /\ UNCHANGED pend
    /\ UNCHANGED <<tree, syms, edges, stamp, pc, kind, todo, read,
                   extracted, referrers, reap, edits>>

-----------------------------------------------------------------------------
(* Batches.                                                                *)

FlushSymbols == syms' = [f \in File |-> IF f \in buf THEN read[f] ELSE syms[f]]
FlushEdges == edges' = edges \cup UNION {LocalEdges(f, read[f]) : f \in buf}

\* Mutant: the buffers are emptied whatever came of the flush.
FlushOnce ==
    /\ buf' = {}
    /\ \/ FlushSymbols /\ FlushEdges /\ UNCHANGED faults
       \/ /\ buf # {} /\ Fault("flush")
          /\ FlushSymbols \/ UNCHANGED syms
          /\ UNCHANGED edges

\* flushBuffers: symbols, then edges, each in a transaction; the buffers are
\* emptied only if both succeed.
Flush ==
    \/ /\ FlushSymbols /\ FlushEdges
       /\ buf' = {}
       /\ UNCHANGED faults
    \/ /\ buf # {} /\ Fault("flush")
       /\ FlushSymbols \/ UNCHANGED syms
       /\ UNCHANGED <<edges, buf>>

\* A goroutine's append has made a batch full; a failure is only logged.
FlushBatch ==
    /\ Walking
    /\ buf # {}
    /\ Flush
    /\ UNCHANGED <<tree, hash, pend, stamp, pc, kind, walk, reap, edits,
                   history>>

JobsDone == \A f \in File : job[f] = "none"

\* wg.Wait(), and the last flush: what it fails to write is gone.
FinalFlush ==
    /\ pc = "walk"
    /\ todo = {} /\ JobsDone
    /\ Flush
    /\ pc' = "resolve"
    /\ history' = [history EXCEPT !.lost = @ \cup buf']
    /\ UNCHANGED <<tree, hash, pend, stamp, kind, walk, reap, edits>>

-----------------------------------------------------------------------------
(* Resolve.                                                                *)

\* Mutant: a pass that extracted nothing counts as incremental as well.
ScopedAlways ==
    /\ kind # "force"
    /\ Cardinality(extracted \cup referrers) <= ScopeThreshold

\* useResolveScope.
Scoped ==
    /\ kind # "force" /\ extracted # {}
    /\ Cardinality(extracted \cup referrers) <= ScopeThreshold

Scope == IF Scoped THEN extracted \cup referrers ELSE File

\* The edges of source resolve_pass from the files of scope; the others are
\* the extractor's.
ResolvePassEdges(scope) == {e \in edges : e.from \in scope /\ e.from # e.to}

Pending(scope) ==
    {f \in scope : pend[f] # None /\ Deferred(pend[f]) # {}}

\* resolveCalls and ReplaceEdgesByKindSource: wipe and insert in one
\* transaction.  Without anything pending a project-wide resolve returns at
\* once, a scoped one wipes.
Resolve ==
    /\ pc = "resolve"
    /\ pc' = "gc"
    /\ IF \/ (kind = "index" /\ extracted = {})
          \/ (~Scoped /\ Pending(File) = {})
          THEN UNCHANGED edges
          ELSE edges' = (edges \ ResolvePassEdges(Scope))
                            \cup Resolved(syms, pend, Scope)
    /\ reap' = {f \in File : hash[f] # None \/ syms[f] # None}
                    \ {f \in File : read[f] # None}
    /\ UNCHANGED <<tree, hash, pend, syms, stamp, kind, walk, buf, edits,
                   faults, history>>

-----------------------------------------------------------------------------
(* The tail GC and the end.                                                *)

\* DeleteSymbolsForFile, DeleteFileHash, DeletePendingEdgesForFile, each a
\* transaction; a crash may come between two of them (see Crash).
Reap(f) ==
    /\ pc = "gc"
    /\ f \in reap
    /\ reap' = reap \ {f}
    /\ syms' = [syms EXCEPT ![f] = None]
    /\ edges' = EdgesWithout(f)
    /\ hash' = [hash EXCEPT ![f] = None]
    /\ pend' = [pend EXCEPT ![f] = None]
    /\ history' = [history EXCEPT !.lost = @ \ {f}, !.old = @ \ {f},
                                  !.reaped = TRUE]
    /\ UNCHANGED <<tree, stamp, pc, kind, walk, buf, edits, faults>>

Reaped ==
    /\ pc = "gc"
    /\ reap = {}
    /\ pc' = "finish"
    /\ UNCHANGED <<tree, db, stamp, kind, walk, buf, reap, edits, faults,
                   history>>

\* What a pass has in memory is dropped when it returns.
Drop ==
    /\ pc' = "idle" /\ kind' = "index"
    /\ todo' = {} /\ read' = [f \in File |-> None]
    /\ extracted' = {} /\ referrers' = {}
    /\ job' = [f \in File |-> "none"]
    /\ buf' = {} /\ reap' = {}

\* Mutant: indexed_at becomes the end of the pass.
FinishNow ==
    /\ pc = "finish"
    /\ Drop
    /\ stamp' = "running" /\ newer' = {}
    /\ history' = [history EXCEPT !.before = {}, !.reaped = FALSE]
    /\ UNCHANGED <<disk, fresh, db, edits, faults>>

\* UpsertProject stamps the running binary; indexed_at stays the start.
Finish ==
    /\ pc = "finish"
    /\ Drop
    /\ stamp' = "running"
    /\ history' = [history EXCEPT !.before = {}, !.reaped = FALSE]
    /\ UNCHANGED <<tree, db, edits, faults>>

-----------------------------------------------------------------------------
(* Interruptions.                                                          *)

\* ctx.Err() at the head of the walk: files not yet walked are left.
Cancel ==
    /\ pc = "walk"
    /\ Fault("cancel")
    /\ todo # {}
    /\ pc' = "cancelled"
    /\ todo' = {}
    /\ history' = [history EXCEPT !.missed = @ \cup todo]
    /\ UNCHANGED <<tree, db, stamp, kind, read, extracted, referrers, job,
                   buf, reap, edits>>

\* ... and the pass returns once the goroutines have ended, without a flush.
Abandon ==
    /\ pc = "cancelled"
    /\ JobsDone
    /\ Drop
    /\ history' = [history EXCEPT !.lost = @ \cup buf, !.before = {},
                                  !.reaped = FALSE]
    /\ UNCHANGED <<tree, db, stamp, edits, faults>>

Running(f) == job[f] # "none"
Cleared(f) == job[f] = "cleared"

\* What a process leaves behind that dies at this point.
Die(unhinged) ==
    /\ Drop
    /\ history' = [history EXCEPT
                      !.before = {}, !.reaped = FALSE,
                      !.missed = @ \cup todo \cup {f \in File : Running(f)},
                      !.lost = @ \cup buf \cup {f \in File : Cleared(f)}
                                 \cup unhinged]

\* The process dies.  During the GC the current file may have lost its
\* symbols, or its symbols and its hash, and not its pending calls.
Crash ==
    /\ pc # "idle"
    /\ Fault("crash")
    /\ \/ Die({}) /\ UNCHANGED db
       \/ \E f \in reap :
             /\ syms' = [syms EXCEPT ![f] = None]
             /\ edges' = EdgesWithout(f)
             /\ \/ hash' = [hash EXCEPT ![f] = None] /\ Die({})
                \/ UNCHANGED hash /\ Die({f})
             /\ UNCHANGED pend
    /\ UNCHANGED <<tree, stamp, edits>>

\* The server is replaced by a newer binary.  A project without a stamp is
\* never forced and is left out.
Upgrade ==
    /\ pc = "idle"
    /\ stamp = "running"
    /\ stamp' = "old"
    /\ history' = [history EXCEPT !.old = {f \in File : syms[f] # None}]
    /\ UNCHANGED <<tree, db, pc, kind, walk, buf, reap, edits, faults>>

-----------------------------------------------------------------------------
FileStep == \E f \in File : Walk(f) \/ ClearFile(f) \/ CommitFile(f) \/ Reap(f)

\* A pass that is under way.
Pass == FileStep \/ FlushBatch \/ FinalFlush \/ Resolve \/ Reaped \/ Finish
            \/ Abandon

Around == (\E f \in File : Edit(f)) \/ NextSecond \/ Cancel \/ Crash \/ Upgrade

Next == (\E k \in Kinds : Start(k)) \/ Pass \/ Around

Spec == Init /\ [][Next]_vars

-----------------------------------------------------------------------------
(* What its readers see of a pass.                                         *)

Readers == INSTANCE GraphStore
               WITH tree <- disk, taken <- read, held <- syms, links <- edges

-----------------------------------------------------------------------------
(* Properties.                                                             *)

Row == Content \cup {None}

TypeOK ==
    /\ disk \in [File -> Content \cup {Absent}]
    /\ newer \subseteq File /\ fresh \subseteq newer
    /\ hash \in [File -> Row] /\ pend \in [File -> Row]
    /\ syms \in [File -> Row]
    /\ edges \subseteq Edge
    /\ stamp \in {"none", "old", "running"}
    /\ pc \in {"idle", "walk", "cancelled", "resolve", "gc", "finish"}
    /\ kind \in Kind
    /\ todo \subseteq File /\ read \in [File -> Row]
    /\ extracted \subseteq File /\ referrers \subseteq File
    /\ job \in [File -> {"none", "read", "cleared"}]
    /\ \A f \in File : job[f] # "none" => read[f] # None
    /\ buf \subseteq File /\ \A f \in buf : read[f] # None
    /\ reap \subseteq File
    /\ edits \in 0 .. MaxEdits /\ faults \in 0 .. MaxFaults
    /\ history \in [before : SUBSET Edge, lost : SUBSET File,
                    missed : SUBSET File, old : SUBSET File, reaped : BOOLEAN]

(***************************************************************************)
(* Whenever a reader looks, in the middle of a pass or after a crash, both *)
(* ends of every edge are symbols that are stored, and the edge's target   *)
(* defines the name: trace and neighborhood never follow an edge into      *)
(* nothing.                                                                *)
(***************************************************************************)
NoDanglingEdge ==
    \A e \in edges : syms[e.from] # None /\ Defines(syms, e.to, e.name)

(***************************************************************************)
(* A stored hash may be trusted by the next pass's skip: between passes,   *)
(* a file whose hash is stored has the symbols and the pending calls of    *)
(* exactly that content, unless a fault hit it after its hash was written. *)
(***************************************************************************)
HashTrusted ==
    pc = "idle" =>
        \A f \in File \ history.lost :
            hash[f] # None =>
                /\ syms[f] = Visible(hash[f])
                /\ Blank(hash[f]) \/ pend[f] = hash[f]

(***************************************************************************)
(* indexed_at may be trusted by the watcher's mtime test: a file that is   *)
(* not newer than it has been indexed as it is on disk, however edits and  *)
(* passes overlap, unless a pass was interrupted before it got to the file.*)
(***************************************************************************)
MtimeTrusted ==
    pc = "idle" =>
        \A f \in File \ (newer \cup history.missed) :
            disk[f] # Absent => hash[f] \in {disk[f], None}

\* A pass that nothing went wrong in and that removed no file.
Clean == pc = "finish" /\ ~history.reaped /\ history.lost = {}

(***************************************************************************)
(* An incremental pass loses no call.  A call that had an edge, that the   *)
(* caller still makes and whose name some file still defines, has an edge  *)
(* at the end, whichever goroutines deleted edges in whichever order.      *)
(* (#457, #1678: the scope is the union of re-extracted files and their    *)
(* referrers.)                                                             *)
(***************************************************************************)
NoCallLost ==
    Clean =>
        \A e \in history.before :
            /\ syms[e.from] # None
            /\ e.name \in Calls[syms[e.from]]
            /\ Target(syms, e.name) # {}
            => \E d \in edges : d.from = e.from /\ d.name = e.name

\* The edges that belong to a table of contents.
IdealEdges(table) ==
    Resolved(table, table, File)
        \cup UNION {LocalEdges(f, table[f]) : f \in {g \in File : table[g] # None}}

Shown(contents) == [f \in File |-> IF contents[f] = None
                                     THEN None ELSE Visible(contents[f])]

(***************************************************************************)
(* A forced pass, and a self-heal that finds nothing to extract, leave     *)
(* exactly the edges of the tree they have read, whatever earlier scoped   *)
(* passes have dropped or bound to a name's earlier owner.                 *)
(***************************************************************************)
FullPassIsExact ==
    Clean /\ (kind = "force" \/ (kind = "heal" /\ extracted = {})) =>
        edges = IdealEdges(Shown(read))

(***************************************************************************)
(* The stamp of the running binary is honest: once it is on the row, no    *)
(* symbol that the older binary extracted is left, although the upgrade's  *)
(* re-extraction may have been interrupted any number of times (#986).     *)
(***************************************************************************)
StampIsHonest ==
    pc = "idle" /\ stamp = "running" => \A f \in history.old : syms[f] = None

(***************************************************************************)
(* Every step of a pass, of a fault or of the tree is one of GraphStore or *)
(* changes nothing that a reader sees: whichever goroutines interleave and *)
(* whatever fails, a file's symbols never mix two contents and are never   *)
(* replaced under links that lead to them, and a resolve binds a name to   *)
(* one symbol and touches the links of its scope only.                     *)
(***************************************************************************)
ImplementsGraphStore == Readers!Spec

(***************************************************************************)
(* What #986 is for: a completed pass has indexed every file it has a hash *)
(* for, also when the pass before it was interrupted ("so a crashed/killed *)
(* run leaves drift detection intact for the retry").                      *)
(***************************************************************************)
StampMeansIndexed ==
    pc = "idle" /\ stamp = "running" =>
        \A f \in File : hash[f] # None => syms[f] = Visible(hash[f])
=============================================================================
