--------------------------- MODULE Indexer_proofs ---------------------------
(***************************************************************************)
(* Proofs about Indexer and Watcher, for any files, contents and names,    *)
(* any order of the symbol ids and any number of edits, faults and polls.  *)
(*                                                                         *)
(* NoDanglingEdge is not inductive by itself.  A flush writes symbols over *)
(* whatever is stored for the file, so it must be known that a buffered    *)
(* file has no symbols yet, or those of the same content from a flush that *)
(* failed half way; that in turn rests on the order in which the walk, the *)
(* file's goroutine and the buffer get hold of the file (BufferOK).        *)
(*                                                                         *)
(* A watcher makes passes of its own and clears hashes before them, under  *)
(* no lock that another process' pass holds.  So no invariant here may     *)
(* rest on a hash that stays: see HashesGo.                                *)
(***************************************************************************)
EXTENDS Watcher, TLAPS

\* Between a file's deletion and its flush nothing else writes its symbols.
BufferOK ==
    /\ \A f \in File : Walking =>
          /\ f \in todo => job[f] = "none" /\ f \notin buf
          /\ job[f] = "read" => f \notin buf
          /\ job[f] = "cleared" => f \notin buf /\ syms[f] = None
          /\ f \in buf => syms[f] \in {None, read[f]}
    /\ pc = "idle" => buf = {} /\ \A f \in File : job[f] = "none"

Inv == TypeOK /\ BufferOK /\ NoDanglingEdge

\* Another process takes the hashes of some files from the store.
HashesGo ==
    /\ \E F \in SUBSET File :
          hash' = [f \in File |-> IF f \in F THEN None ELSE hash[f]]
    /\ UNCHANGED <<tree, pend, syms, edges, stamp, pc, kind, walk, buf, reap,
                   edits, faults, history>>

(***************************************************************************)
(* All that is proved here of the passes is proved of any system whose     *)
(* steps are these, at whatever moment the hashes go: that of module       *)
(* Indexer, and the watcher with the passes of others beside it.           *)
(***************************************************************************)
AnyStep == (\E k \in Kind : Start(k)) \/ Pass \/ Around \/ HashesGo

Passes == Init /\ [][AnyStep]_vars

\* The callers' passes are such a system.
LEMMA IndexerPasses == Spec => Passes
<1>1. [Next]_vars => [AnyStep]_vars
  BY ConstantsOK DEF Next, AnyStep
<1> QED
  BY <1>1, PTL DEF Spec, Passes

\* So is the watcher, whatever it is in the middle of.
LEMMA WatcherPasses == WSpec => Passes
<1>1. WInit => Init
  BY DEF WInit
<1>2. [WNext]_wvars => [AnyStep]_vars
  <2> SUFFICES ASSUME [WNext]_wvars PROVE [AnyStep]_vars
    OBVIOUS
  <2>1. ASSUME NEW who, NEW k \in Kind, StartFor(who, k) PROVE AnyStep
    BY <2>1 DEF StartFor, AnyStep
  <2>2. CASE FirstIndex
    BY <2>1, <2>2 DEF FirstIndex, Kind
  <2>3. CASE Call
    BY <2>1, <2>3, ConstantsOK DEF Call
  <2>4. CASE PassStep
    BY <2>4 DEF PassStep, AnyStep
  <2>5. CASE Tick \/ IndexReturns \/ HealReturns
    BY <2>5 DEF Tick, IndexReturns, HealReturns
  <2>6. CASE Invalidate
    <3> DEFINE refs == UNION {FilesWithEdgesToFile(f) : f \in changed}
    <3>1. hash' = [f \in File |-> IF f \in refs \cap File THEN None ELSE hash[f]]
      BY <2>6 DEF Invalidate
    <3>2. HashesGo
      BY <2>6, <3>1 DEF Invalidate, HashesGo
    <3> QED
      BY <3>2 DEF AnyStep
  <2>7. CASE StartIndex
    BY <2>1, <2>7 DEF StartIndex, Kind
  <2>8. CASE StartHeal
    BY <2>1, <2>8 DEF StartHeal, Kind
  <2>9. CASE Edits \/ Upgraded
    BY <2>9 DEF Edits, Upgraded, AnyStep, Around
  <2>10. CASE UNCHANGED wvars
    BY <2>10 DEF wvars
  <2> QED
    BY <2>2, <2>3, <2>4, <2>5, <2>6, <2>7, <2>8, <2>9, <2>10 DEF WNext, Watch
<1> QED
  BY <1>1, <1>2, PTL DEF WSpec, Passes

-----------------------------------------------------------------------------
(* Types.                                                                  *)

\* The resolve pass makes edges.
LEMMA ResolvedEdges ==
  ASSUME NEW stored, NEW pending, NEW scope \in SUBSET File
  PROVE  Resolved(stored, pending, scope) \subseteq Edge
BY DEF Resolved, Edge

\* So does the extractor.
LEMMA LocalEdgesEdges ==
  ASSUME NEW f \in File, NEW c \in Content
  PROVE  LocalEdges(f, c) \subseteq Edge
BY ConstantsOK DEF LocalEdges, Edge

\* The types of what a flush writes.
LEMMA FlushTypes ==
  ASSUME TypeOK, Flush
  PROVE  /\ syms' \in [File -> Row]
         /\ edges' \subseteq Edge
         /\ buf' \subseteq buf
         /\ faults' \in 0 .. MaxFaults
<1>1. FlushSymbols => syms' \in [File -> Row]
  BY DEF FlushSymbols, TypeOK
<1>2. ASSUME FlushEdges PROVE edges' \subseteq Edge
  <2>1. \A f \in buf : f \in File /\ read[f] \in Content
    BY DEF TypeOK, Row
  <2>2. \A f \in buf : LocalEdges(f, read[f]) \subseteq Edge
    BY <2>1, LocalEdgesEdges
  <2> QED
    BY <1>2, <2>2 DEF FlushEdges, TypeOK
<1>3. CASE FlushSymbols /\ FlushEdges /\ buf' = {} /\ UNCHANGED faults
  BY <1>1, <1>2, <1>3 DEF TypeOK
<1>4. CASE Fault("flush") /\ (FlushSymbols \/ UNCHANGED syms)
             /\ UNCHANGED <<edges, buf>>
  BY <1>1, <1>4, ConstantsOK DEF TypeOK, Fault
<1> QED
  BY <1>3, <1>4 DEF Flush

\* What every ending of a pass leaves in memory is well typed.
LEMMA DropTypes ==
  ASSUME TypeOK, Drop
  PROVE  /\ pc' = "idle" /\ kind' \in Kind
         /\ todo' \subseteq File /\ read' \in [File -> Row]
         /\ extracted' \subseteq File /\ referrers' \subseteq File
         /\ job' = [f \in File |-> "none"]
         /\ buf' = {} /\ reap' \subseteq File
BY DEF TypeOK, Drop, Kind, Row

\* So is what a process leaves behind that dies.
LEMMA DieTypes ==
  ASSUME TypeOK, NEW unhinged \in SUBSET File, Die(unhinged)
  PROVE  /\ Drop
         /\ history' \in [before : SUBSET Edge, lost : SUBSET File,
                          missed : SUBSET File, old : SUBSET File,
                          reaped : BOOLEAN]
BY DEF TypeOK, Die

\* Every step keeps the types.
LEMMA TypeStep == TypeOK /\ BufferOK /\ [AnyStep]_vars => TypeOK'
<1> SUFFICES ASSUME TypeOK, BufferOK, [AnyStep]_vars PROVE TypeOK'
  OBVIOUS
<1> USE DEF TypeOK, db, walk, tree
<1>1. ASSUME NEW k \in Kind, Start(k) PROVE TypeOK'
  BY <1>1, ConstantsOK DEF Start, PriorStamp, Row, BufferOK
<1>2. ASSUME NEW f \in File, Walk(f) PROVE TypeOK'
  <2>1. disk[f] # Absent => disk[f] \in Content
    OBVIOUS
  <2>2. read' \in [File -> Row] /\ read'[f] \in Row
    BY <1>2, <2>1 DEF Walk, Row
  <2>3. \A g \in File : g # f => read'[g] = read[g]
    BY <1>2 DEF Walk
  <2>4. /\ \A g \in File : job'[g] # "none" => read'[g] # None
        /\ \A g \in buf' : read'[g] # None
    <3>1. read'[f] # None \/ (job[f] = "none" /\ f \notin buf)
      BY <1>2, <2>1, ConstantsOK DEF Walk, BufferOK, Walking
    <3>2. job' \in [File -> {"none", "read", "cleared"}]
          /\ (read'[f] # None \/ job'[f] = "none")
      BY <1>2, <2>1, <3>1, ConstantsOK DEF Walk
    <3>3. buf' = buf /\ \A g \in File : g # f => job'[g] = job[g]
      BY <1>2 DEF Walk
    <3> QED
      BY <2>3, <3>1, <3>2, <3>3
  <2>5. /\ job' \in [File -> {"none", "read", "cleared"}]
        /\ extracted' \subseteq File /\ referrers' \subseteq File
        /\ todo' \subseteq File
    BY <1>2 DEF Walk, Referrers, FilesWithEdgesToFile
  <2>6. history' \in [before : SUBSET Edge, lost : SUBSET File,
                      missed : SUBSET File, old : SUBSET File,
                      reaped : BOOLEAN]
    BY <1>2 DEF Walk
  <2>7. UNCHANGED <<tree, db, stamp, pc, kind, buf, reap, edits, faults>>
    BY <1>2 DEF Walk
  <2> QED
    BY <2>2, <2>4, <2>5, <2>6, <2>7
<1>3. ASSUME NEW f \in File, ClearFile(f) PROVE TypeOK'
  BY <1>3 DEF ClearFile, EdgesWithout, Row
<1>4. ASSUME NEW f \in File, CommitFile(f) PROVE TypeOK'
  <2>1. /\ read[f] \in Row /\ read[f] # None
    BY <1>4 DEF CommitFile
  <2>2. hash' \in [File -> Row] /\ pend' \in [File -> Row]
    BY <1>4, <2>1 DEF CommitFile
  <2>3. history' \in [before : SUBSET Edge, lost : SUBSET File,
                      missed : SUBSET File, old : SUBSET File,
                      reaped : BOOLEAN]
    <3>1. \/ history' = [history EXCEPT !.lost = @ \ {f}, !.missed = @ \ {f}]
          \/ history' = [history EXCEPT !.lost = @ \cup {f},
                                        !.missed = @ \ {f}]
      BY <1>4 DEF CommitFile
    <3>2. CASE history' = [history EXCEPT !.lost = @ \ {f}, !.missed = @ \ {f}]
      BY <3>2
    <3>3. CASE history' = [history EXCEPT !.lost = @ \cup {f},
                                          !.missed = @ \ {f}]
      BY <3>3
    <3> QED
      BY <3>1, <3>2, <3>3
  <2>4. faults' \in 0 .. MaxFaults
    BY <1>4, ConstantsOK DEF CommitFile, Fault
  <2>5. /\ job' \in [File -> {"none", "read", "cleared"}]
        /\ \A g \in File : job'[g] # "none" => job[g] # "none"
        /\ buf' \subseteq buf \cup {f}
    BY <1>4 DEF CommitFile
  <2>6. UNCHANGED <<tree, syms, edges, stamp, pc, kind, todo, read, extracted,
                    referrers, reap, edits>>
    BY <1>4 DEF CommitFile
  <2> QED
    BY <2>1, <2>2, <2>3, <2>4, <2>5, <2>6
<1>5. ASSUME FlushBatch PROVE TypeOK'
  BY <1>5, FlushTypes DEF FlushBatch
<1>6. ASSUME FinalFlush PROVE TypeOK'
  BY <1>6, FlushTypes DEF FinalFlush
<1>7. ASSUME Resolve PROVE TypeOK'
  <2>1. Scope \subseteq File
    BY DEF Scope
  <2>2. Resolved(syms, pend, Scope) \subseteq Edge
    BY <2>1, ResolvedEdges
  <2> QED
    BY <1>7, <2>2 DEF Resolve
<1>8. ASSUME NEW f \in File, Reap(f) PROVE TypeOK'
  BY <1>8 DEF Reap, EdgesWithout, Row
<1>9. ASSUME Reaped PROVE TypeOK'
  BY <1>9 DEF Reaped
<1>10. ASSUME Finish PROVE TypeOK'
  BY <1>10, DropTypes DEF Finish
<1>11. ASSUME Abandon PROVE TypeOK'
  BY <1>11, DropTypes DEF Abandon
<1>12. ASSUME NEW f \in File, Edit(f) PROVE TypeOK'
  <2>1. Versions[f] \subseteq Content \cup {Absent}
    BY ConstantsOK
  <2> QED
    BY <1>12, <2>1, ConstantsOK DEF Edit
<1>13. ASSUME NextSecond PROVE TypeOK'
  BY <1>13 DEF NextSecond
<1>14. ASSUME Cancel PROVE TypeOK'
  BY <1>14, ConstantsOK DEF Cancel, Fault
<1>15. ASSUME Crash PROVE TypeOK'
  <2>1. faults' \in 0 .. MaxFaults
    BY <1>15, ConstantsOK DEF Crash, Fault
  <2>2. PICK unhinged \in SUBSET File : Die(unhinged)
    <3>1. CASE Die({})
      BY <3>1
    <3>2. CASE \E f \in reap : Die({f})
      BY <3>2
    <3> QED
      BY <1>15, <3>1, <3>2 DEF Crash
  <2>3. hash' \in [File -> Row] /\ pend' \in [File -> Row]
        /\ syms' \in [File -> Row] /\ edges' \subseteq Edge
    BY <1>15 DEF Crash, EdgesWithout, Row
  <2>4. UNCHANGED <<tree, stamp, edits>>
    BY <1>15 DEF Crash
  <2> QED
    BY <2>1, <2>2, <2>3, <2>4, DieTypes, DropTypes
<1>16. ASSUME Upgrade PROVE TypeOK'
  BY <1>16 DEF Upgrade
<1>17. CASE UNCHANGED vars
  BY <1>17 DEF vars
<1>18. ASSUME HashesGo PROVE TypeOK'
  BY <1>18 DEF HashesGo, Row
<1> QED
  BY <1>1, <1>2, <1>3, <1>4, <1>5, <1>6, <1>7, <1>8, <1>9, <1>10, <1>11,
     <1>12, <1>13, <1>14, <1>15, <1>16, <1>17, <1>18
     DEF AnyStep, Pass, FileStep, Around
-----------------------------------------------------------------------------
(* Who may write a file's symbols.                                         *)

\* A flush leaves the buffered files' symbols unwritten or those just read.
LEMMA FlushKeepsBuffer ==
  ASSUME TypeOK, BufferOK, Walking, Flush
  PROVE  /\ buf' \subseteq buf
         /\ \A f \in File : f \notin buf => syms'[f] = syms[f]
         /\ \A f \in buf : syms'[f] \in {syms[f], read[f]}
BY DEF TypeOK, BufferOK, Flush, FlushSymbols

\* Every step keeps to it.
LEMMA BufferStep == TypeOK /\ BufferOK /\ [AnyStep]_vars => BufferOK'
<1> SUFFICES ASSUME TypeOK, BufferOK, [AnyStep]_vars PROVE BufferOK'
  OBVIOUS
<1> USE DEF BufferOK, Walking, db, walk, tree
<1>1. ASSUME NEW k \in Kind, Start(k) PROVE BufferOK'
  BY <1>1 DEF Start
<1>2. ASSUME NEW f \in File, Walk(f) PROVE BufferOK'
  <2>1. pc = "walk" /\ f \in todo /\ todo' = todo \ {f}
        /\ UNCHANGED <<pc, buf, syms>>
    BY <1>2 DEF Walk
  <2>2. job'[f] \in {"none", "read"}
    BY <1>2, <2>1 DEF Walk, TypeOK
  <2>3. \A g \in File : g # f => job'[g] = job[g] /\ read'[g] = read[g]
    BY <1>2 DEF Walk, TypeOK
  <2> QED
    BY <2>1, <2>2, <2>3
<1>3. ASSUME NEW f \in File, ClearFile(f) PROVE BufferOK'
  BY <1>3 DEF ClearFile, TypeOK
<1>4. ASSUME NEW f \in File, CommitFile(f) PROVE BufferOK'
  <2>1. /\ Walking /\ job[f] = "cleared"
        /\ job' = [job EXCEPT ![f] = "none"]
        /\ buf' \in {buf, buf \cup {f}}
        /\ UNCHANGED <<pc, syms, read, todo>>
    BY <1>4 DEF CommitFile
  <2>2. f \notin todo /\ f \notin buf /\ syms[f] = None
    BY <2>1
  <2> QED
    BY <2>1, <2>2 DEF TypeOK
<1>5. ASSUME FlushBatch PROVE BufferOK'
  BY <1>5, FlushKeepsBuffer DEF FlushBatch, TypeOK
<1>6. ASSUME FinalFlush PROVE BufferOK'
  BY <1>6 DEF FinalFlush
<1>7. ASSUME Resolve PROVE BufferOK'
  BY <1>7 DEF Resolve
<1>8. ASSUME NEW f \in File, Reap(f) PROVE BufferOK'
  BY <1>8 DEF Reap
<1>9. ASSUME Reaped PROVE BufferOK'
  BY <1>9 DEF Reaped
<1>10. ASSUME Drop PROVE BufferOK'
  BY <1>10 DEF Drop
<1>11. ASSUME Finish \/ Abandon PROVE BufferOK'
  BY <1>10, <1>11 DEF Finish, Abandon
<1>12. ASSUME NEW f \in File, Edit(f) PROVE BufferOK'
  BY <1>12 DEF Edit
<1>13. ASSUME NextSecond \/ Upgrade PROVE BufferOK'
  BY <1>13 DEF NextSecond, Upgrade
<1>14. ASSUME Cancel PROVE BufferOK'
  BY <1>14 DEF Cancel
<1>15. ASSUME Crash PROVE BufferOK'
  <2>1. Drop
    BY <1>15 DEF Crash, Die
  <2> QED
    BY <1>10, <2>1
<1>16. CASE UNCHANGED vars
  BY <1>16 DEF vars
<1>17. ASSUME HashesGo PROVE BufferOK'
  BY <1>17 DEF HashesGo
<1> QED
  BY <1>1, <1>2, <1>3, <1>4, <1>5, <1>6, <1>7, <1>8, <1>9, <1>11, <1>12,
     <1>13, <1>14, <1>15, <1>16, <1>17 DEF AnyStep, Pass, FileStep, Around

-----------------------------------------------------------------------------
(* No edge dangles.                                                        *)

\* One file may lose its symbols if the edges at both its ends go with them.
LEMMA ClearKeepsEdges ==
  ASSUME TypeOK, NoDanglingEdge, NEW f \in File,
         syms' = [syms EXCEPT ![f] = None], edges' = EdgesWithout(f)
  PROVE  NoDanglingEdge'
<1>1. \A g \in File : g # f => syms'[g] = syms[g]
  BY DEF TypeOK
<1>2. \A e \in edges' : e \in edges /\ e.from # f /\ e.to # f
  BY DEF EdgesWithout
<1>3. \A e \in edges : e.from \in File /\ e.to \in File
  BY DEF TypeOK, Edge
<1> QED
  BY <1>1, <1>2, <1>3 DEF NoDanglingEdge, Defines

\* The edges are kept where neither they nor the symbols change.
LEMMA SameKeepsEdges ==
  ASSUME NoDanglingEdge, UNCHANGED <<syms, edges>>
  PROVE  NoDanglingEdge'
BY DEF NoDanglingEdge, Defines

\* A flush writes symbols over nothing, or over the same ones.
LEMMA FlushKeepsEdges ==
  ASSUME TypeOK, BufferOK, NoDanglingEdge, Walking, Flush
  PROVE  NoDanglingEdge'
<1>1. \A e \in edges : e.from \in File /\ e.to \in File
  BY DEF TypeOK, Edge
<1>2. \A f \in File : syms[f] # None => syms'[f] = syms[f]
  BY FlushKeepsBuffer DEF BufferOK, TypeOK
<1>3. \A e \in edges : syms'[e.from] # None /\ Defines(syms', e.to, e.name)
  BY <1>1, <1>2 DEF NoDanglingEdge, Defines
<1>4. CASE UNCHANGED edges
  BY <1>3, <1>4 DEF NoDanglingEdge
<1>5. CASE FlushSymbols /\ FlushEdges
  <2>1. \A f \in buf : f \in File /\ syms'[f] = read[f] /\ read[f] # None
    BY <1>5 DEF FlushSymbols, TypeOK
  <2>2. ASSUME NEW f \in buf, NEW e \in LocalEdges(f, read[f])
        PROVE  syms'[e.from] # None /\ Defines(syms', e.to, e.name)
    <3>1. e.from = f /\ e.to = f /\ e.name \in Defs[read[f]]
      BY DEF LocalEdges
    <3> QED
      BY <2>1, <3>1 DEF Defines
  <2>3. \A e \in edges' : e \in edges
            \/ \E f \in buf : e \in LocalEdges(f, read[f])
    BY <1>5 DEF FlushEdges
  <2> QED
    BY <1>3, <2>2, <2>3 DEF NoDanglingEdge
<1> QED
  BY <1>4, <1>5 DEF Flush

\* An edge the resolve pass makes leads from stored symbols to a definition.
LEMMA ResolvedStored ==
  ASSUME NEW stored, NEW pending, NEW scope,
         NEW e \in Resolved(stored, pending, scope)
  PROVE  stored[e.from] # None /\ Defines(stored, e.to, e.name)
BY DEF Resolved, Target

\* Every step keeps both ends of every edge.
LEMMA NoDanglingStep == Inv /\ [AnyStep]_vars => NoDanglingEdge'
<1> SUFFICES ASSUME TypeOK, BufferOK, NoDanglingEdge, [AnyStep]_vars
             PROVE  NoDanglingEdge'
  BY DEF Inv
<1> USE DEF db, walk, tree
<1>1. ASSUME NEW k \in Kind, Start(k) PROVE NoDanglingEdge'
  BY <1>1, SameKeepsEdges DEF Start
<1>2. ASSUME NEW f \in File, Walk(f) \/ CommitFile(f) \/ Edit(f)
      PROVE  NoDanglingEdge'
  BY <1>2, SameKeepsEdges DEF Walk, CommitFile, Edit
<1>3. ASSUME NEW f \in File, ClearFile(f) \/ Reap(f) PROVE NoDanglingEdge'
  BY <1>3, ClearKeepsEdges DEF ClearFile, Reap
<1>4. ASSUME FlushBatch \/ FinalFlush PROVE NoDanglingEdge'
  BY <1>4, FlushKeepsEdges DEF FlushBatch, FinalFlush, Walking
<1>5. ASSUME Resolve PROVE NoDanglingEdge'
  <2>1. UNCHANGED syms
    BY <1>5 DEF Resolve
  <2>2. edges' \subseteq edges \cup Resolved(syms, pend, Scope)
    BY <1>5 DEF Resolve
  <2>3. \A e \in Resolved(syms, pend, Scope) :
            syms[e.from] # None /\ Defines(syms, e.to, e.name)
    BY ResolvedStored
  <2> QED
    BY <2>1, <2>2, <2>3 DEF NoDanglingEdge, Defines
<1>6. ASSUME Reaped \/ Finish \/ Abandon \/ Cancel \/ NextSecond \/ Upgrade
      PROVE  NoDanglingEdge'
  BY <1>6, SameKeepsEdges
     DEF Reaped, Finish, Abandon, Cancel, NextSecond, Upgrade
<1>7. ASSUME Crash PROVE NoDanglingEdge'
  <2>1. CASE UNCHANGED db
    BY <2>1, SameKeepsEdges
  <2>2. CASE \E f \in reap : /\ syms' = [syms EXCEPT ![f] = None]
                             /\ edges' = EdgesWithout(f)
    BY <2>2, ClearKeepsEdges DEF TypeOK
  <2> QED
    BY <1>7, <2>1, <2>2 DEF Crash
<1>8. CASE UNCHANGED vars
  BY <1>8, SameKeepsEdges DEF vars
<1>9. ASSUME HashesGo PROVE NoDanglingEdge'
  BY <1>9, SameKeepsEdges DEF HashesGo
<1> QED
  BY <1>1, <1>2, <1>3, <1>4, <1>5, <1>6, <1>7, <1>8, <1>9
     DEF AnyStep, Pass, FileStep, Around

-----------------------------------------------------------------------------
\* Initially nothing is stored.
LEMMA InitInv == Init => Inv
<1> SUFFICES ASSUME Init PROVE Inv
  OBVIOUS
<1>1. \A f \in File : Versions[f] \subseteq Content \cup {Absent}
  BY ConstantsOK
<1>2. disk \in [File -> Content \cup {Absent}]
  BY <1>1 DEF Init
<1>3. TypeOK
  BY <1>2, ConstantsOK DEF Init, TypeOK, Row, Kind
<1> QED
  BY <1>3 DEF Init, Inv, BufferOK, Walking, NoDanglingEdge

\* Inv is an inductive invariant of the pass.
THEOREM InvCorrect == Passes => []Inv
<1>1. Inv /\ [AnyStep]_vars => Inv'
  BY TypeStep, BufferStep, NoDanglingStep DEF Inv
<1> QED
  BY InitInv, <1>1, PTL DEF Passes

\* The variables keep their types, for any number of files, edits and faults.
THEOREM TypeCorrect == Spec => []TypeOK
<1>1. Inv => TypeOK
  BY DEF Inv
<1> QED
  BY InvCorrect, IndexerPasses, <1>1, PTL

\* Whenever trace or neighborhood read the edges table, in the middle of a
\* pass, after a failed transaction, a cancellation or a crash, both ends of
\* every edge are stored and the target defines the name.
THEOREM NoDangling == Spec => []NoDanglingEdge
<1>1. Inv => NoDanglingEdge
  BY DEF Inv
<1> QED
  BY InvCorrect, IndexerPasses, <1>1, PTL

-----------------------------------------------------------------------------
(* What the next pass may trust of what a pass has stored: the hash of a   *)
(* file (HashTrusted), the time of the pass (MtimeTrusted) and the version *)
(* of its binary (StampIsHonest).  All three speak of the moment between   *)
(* two passes.  The invariants that carry them through a pass say for      *)
(* every file how far the walk, the file's goroutine, the flush and the    *)
(* tail GC have got with it.  The last section has the refinement.         *)

\* Who is at work in which stage of a pass: after the walk nothing is left of
\* it, and only files that have been read hold content.
StageOK ==
    /\ pc # "walk" => todo = {}
    /\ pc # "gc" => reap = {}
    /\ ~ Walking => \A f \in File : job[f] = "none"
    /\ \A f \in todo \cup reap : read[f] = None

\* A goroutine is at work on what is on disk, or the file is newer.
MtimeOK ==
    \A f \in File \ newer : disk[f] # Absent =>
        /\ job[f] # "none" => read[f] = disk[f]
        /\ job[f] = "none" /\ f \notin todo \cup history.missed =>
              hash[f] \in {disk[f], None}

\* The older binary's symbols that are left.
Leftover == {f \in history.old : syms[f] # None}

\* The stamp is the older binary's until a pass has got rid of all of them,
\* and none is made again.
StampOK ==
    /\ \A f \in history.old : f \notin buf /\ job[f] # "cleared"
    /\ stamp # "old" => Leftover = {}
    /\ stamp = "old" => \A f \in Leftover :
          /\ pc = "walk" => f \in todo \/ job[f] = "read" \/ read[f] = None
          /\ pc = "resolve" => read[f] = None
          /\ pc = "gc" => f \in reap
          /\ pc # "finish"

\* The rows of a file say that its hash is that of what is stored of it.
Trusted(f) ==
    hash[f] # None => /\ syms[f] = Visible(hash[f])
                      /\ Blank(hash[f]) \/ pend[f] = hash[f]

\* No goroutine and no buffer holds what the rows of the file still lack.
Settled(f) ==
    f \notin history.lost /\ job[f] # "cleared" /\ (Walking => f \notin buf)

\* Settled files may be trusted; a buffered one will be, once it is flushed.
HashOK ==
    /\ \A f \in File : Settled(f) => Trusted(f)
    /\ Walking => \A f \in buf :
          /\ hash[f] \in {read[f], None} /\ ~ Blank(read[f])
          /\ f \notin history.lost => pend[f] = read[f]

-----------------------------------------------------------------------------
(* The stages of a pass.                                                   *)

\* Every ending of a pass leaves nothing of it.
LEMMA DropStage ==
  ASSUME Drop
  PROVE  StageOK'
BY DEF Drop, StageOK, Walking

\* Every step keeps to the stages.
LEMMA StageStep == Inv /\ StageOK /\ [AnyStep]_vars => StageOK'
<1> SUFFICES ASSUME TypeOK, BufferOK, StageOK, [AnyStep]_vars PROVE StageOK'
  BY DEF Inv
<1> USE DEF StageOK, Walking, db, walk, tree
<1>1. ASSUME NEW k \in Kind, Start(k) PROVE StageOK'
  BY <1>1 DEF Start, BufferOK, TypeOK
<1>2. ASSUME NEW f \in File, Walk(f) PROVE StageOK'
  <2>1. \A g \in File : g # f => read'[g] = read[g]
    BY <1>2 DEF Walk, TypeOK
  <2> QED
    BY <1>2, <2>1 DEF Walk, TypeOK
<1>3. ASSUME NEW f \in File, ClearFile(f) \/ CommitFile(f) PROVE StageOK'
  BY <1>3 DEF ClearFile, CommitFile, Walking
<1>4. ASSUME FlushBatch PROVE StageOK'
  BY <1>4 DEF FlushBatch
<1>5. ASSUME FinalFlush PROVE StageOK'
  BY <1>5 DEF FinalFlush, JobsDone
<1>6. ASSUME Resolve PROVE StageOK'
  BY <1>6 DEF Resolve
<1>7. ASSUME NEW f \in File, Reap(f) PROVE StageOK'
  BY <1>7 DEF Reap
<1>8. ASSUME Reaped \/ NextSecond \/ Upgrade PROVE StageOK'
  BY <1>8 DEF Reaped, NextSecond, Upgrade
<1>9. ASSUME Finish \/ Abandon \/ Crash PROVE StageOK'
  BY <1>9, DropStage DEF Finish, Abandon, Crash, Die
<1>10. ASSUME NEW f \in File, Edit(f) PROVE StageOK'
  BY <1>10 DEF Edit
<1>11. ASSUME Cancel PROVE StageOK'
  BY <1>11 DEF Cancel
<1>12. CASE UNCHANGED vars
  BY <1>12 DEF vars
<1>13. ASSUME HashesGo PROVE StageOK'
  BY <1>13 DEF HashesGo
<1> QED
  BY <1>1, <1>2, <1>3, <1>4, <1>5, <1>6, <1>7, <1>8, <1>9, <1>10, <1>11,
     <1>12, <1>13 DEF AnyStep, Pass, FileStep, Around

-----------------------------------------------------------------------------
(* The time of the pass.                                                   *)

\* Every step keeps indexed_at trustworthy.
LEMMA MtimeStep == Inv /\ StageOK /\ MtimeOK /\ [AnyStep]_vars => MtimeOK'
<1> SUFFICES ASSUME TypeOK, BufferOK, StageOK, MtimeOK, [AnyStep]_vars
             PROVE  MtimeOK'
  BY DEF Inv
<1> USE DEF db, walk, tree
<1>1. ASSUME NEW k \in Kind, Start(k) PROVE MtimeOK'
  BY <1>1 DEF Start, BufferOK, MtimeOK, TypeOK
<1>2. ASSUME NEW f \in File, Walk(f) PROVE MtimeOK'
  <2>1. f \in todo /\ todo' = todo \ {f} /\ pc = "walk"
        /\ UNCHANGED <<disk, newer, hash>>
    BY <1>2 DEF Walk
  <2>2. history.missed \ {f} \subseteq history'.missed
        /\ (job'[f] # "none" \/ disk[f] = Absent \/ hash[f] = disk[f])
        /\ (disk[f] # Absent => read'[f] = disk[f])
    BY <1>2 DEF Walk, TypeOK
  <2>3. \A g \in File : g # f => job'[g] = job[g] /\ read'[g] = read[g]
    BY <1>2 DEF Walk, TypeOK
  <2> QED
    BY <2>1, <2>2, <2>3 DEF MtimeOK, BufferOK, Walking
<1>3. ASSUME NEW f \in File, ClearFile(f) PROVE MtimeOK'
  BY <1>3 DEF ClearFile, MtimeOK, TypeOK
<1>4. ASSUME NEW f \in File, CommitFile(f) PROVE MtimeOK'
  <2>1. /\ job[f] = "cleared" /\ job' = [job EXCEPT ![f] = "none"]
        /\ hash' = [hash EXCEPT ![f] = read[f]]
        /\ history'.missed = history.missed \ {f}
        /\ UNCHANGED <<disk, newer, todo, read>>
    BY <1>4 DEF CommitFile, TypeOK
  <2> QED
    BY <2>1 DEF MtimeOK, TypeOK
<1>5. ASSUME FlushBatch \/ Resolve \/ Reaped \/ NextSecond \/ Upgrade
      PROVE  MtimeOK'
  BY <1>5 DEF FlushBatch, Resolve, Reaped, NextSecond, Upgrade, MtimeOK, TypeOK
<1>6. ASSUME FinalFlush PROVE MtimeOK'
  BY <1>6 DEF FinalFlush, MtimeOK, TypeOK
<1>7. ASSUME NEW f \in File, Reap(f) PROVE MtimeOK'
  BY <1>7 DEF Reap, MtimeOK, TypeOK
<1>8. ASSUME Finish \/ Abandon PROVE MtimeOK'
  <2>1. /\ \A f \in File : job[f] = "none" /\ job'[f] = "none"
        /\ pc # "walk" \/ todo \subseteq history'.missed
    BY <1>8 DEF Finish, Abandon, Drop, JobsDone, StageOK, Walking, TypeOK
  <2>2. history.missed \subseteq history'.missed /\ newer \subseteq newer'
        /\ UNCHANGED <<disk, hash>>
    BY <1>8 DEF Finish, Abandon, TypeOK
  <2> QED
    BY <2>1, <2>2 DEF MtimeOK, StageOK
<1>9. ASSUME NEW f \in File, Edit(f) PROVE MtimeOK'
  BY <1>9 DEF Edit, MtimeOK, TypeOK
<1>10. ASSUME Cancel PROVE MtimeOK'
  BY <1>10 DEF Cancel, MtimeOK, TypeOK
<1>11. ASSUME Crash PROVE MtimeOK'
  <2>1. PICK unhinged : Die(unhinged)
    BY <1>11 DEF Crash
  <2>2. \A f \in File : job'[f] = "none" /\ hash'[f] \in {hash[f], None}
    <3>1. \A f \in File : job'[f] = "none"
      BY <2>1 DEF Die, Drop
    <3>2. hash' = hash \/ \E f \in reap : hash' = [hash EXCEPT ![f] = None]
      BY <1>11 DEF Crash
    <3> QED
      BY <3>1, <3>2 DEF TypeOK
  <2>3. \A f \in File : f \in todo \cup history.missed \/ job[f] # "none"
                            => f \in history'.missed
    BY <2>1 DEF Die, TypeOK, Running
  <2>4. UNCHANGED <<disk, newer>>
    BY <1>11 DEF Crash
  <2> QED
    BY <2>2, <2>3, <2>4 DEF MtimeOK
<1>12. CASE UNCHANGED vars
  BY <1>12 DEF vars, MtimeOK
<1>13. ASSUME HashesGo PROVE MtimeOK'
  BY <1>13 DEF HashesGo, MtimeOK, TypeOK
<1> QED
  BY <1>1, <1>2, <1>3, <1>4, <1>5, <1>6, <1>7, <1>8, <1>9, <1>10, <1>11,
     <1>12, <1>13 DEF AnyStep, Pass, FileStep, Around
-----------------------------------------------------------------------------
(* The version of its binary.                                              *)

\* Where no old symbols appear and the stage stays, the stamp stays honest.
LEMMA StampKept ==
  ASSUME TypeOK, StampOK,
         UNCHANGED <<stamp, pc, todo, read, job, reap>>,
         buf' \subseteq buf, history'.old = history.old,
         \A f \in history.old : syms'[f] = syms[f]
  PROVE  StampOK'
BY DEF StampOK, Leftover, TypeOK

\* An ending that leaves the stamp alone makes no old symbols.
LEMMA StampDropped ==
  ASSUME TypeOK, StampOK, Drop, UNCHANGED stamp, history'.old = history.old,
         \A f \in File : syms'[f] \in {syms[f], None}
  PROVE  StampOK'
<1>1. buf' = {} /\ pc' = "idle" /\ \A f \in File : job'[f] = "none"
  BY DEF Drop
<1>2. Leftover' \subseteq Leftover
  BY DEF Leftover, TypeOK
<1> QED
  BY <1>1, <1>2 DEF StampOK, TypeOK

\* Every step keeps the stamp honest.
LEMMA StampStep == Inv /\ StageOK /\ StampOK /\ [AnyStep]_vars => StampOK'
<1> SUFFICES ASSUME TypeOK, BufferOK, StageOK, StampOK, [AnyStep]_vars
             PROVE  StampOK'
  BY DEF Inv
<1> USE DEF db, walk, tree
<1>1. ASSUME NEW k \in Kind, Start(k) PROVE StampOK'
  BY <1>1 DEF Start, PriorStamp, StampOK, Leftover, TypeOK
<1>2. ASSUME NEW f \in File, Walk(f) PROVE StampOK'
  <2>1. \A g \in File : g # f => job'[g] = job[g] /\ read'[g] = read[g]
    BY <1>2 DEF Walk, TypeOK
  <2>2. /\ stamp = "old" => job'[f] = "read" \/ read'[f] = None
        /\ job'[f] # "cleared"
    BY <1>2 DEF Walk, Forced, TypeOK, BufferOK, Walking
  <2>3. /\ todo' = todo \ {f} /\ pc = "walk" /\ history'.old = history.old
        /\ UNCHANGED <<syms, stamp, pc, buf, reap>>
    BY <1>2 DEF Walk, TypeOK
  <2> QED
    BY <2>1, <2>2, <2>3 DEF StampOK, Leftover, TypeOK
<1>3. ASSUME NEW f \in File, ClearFile(f) PROVE StampOK'
  <2>1. \A g \in File : g # f => job'[g] = job[g] /\ syms'[g] = syms[g]
    BY <1>3 DEF ClearFile, TypeOK
  <2>2. history'.old = history.old \ {f}
        /\ UNCHANGED <<stamp, pc, todo, read, buf, reap>>
    BY <1>3 DEF ClearFile, TypeOK
  <2> QED
    BY <2>1, <2>2 DEF StampOK, Leftover, TypeOK
<1>4. ASSUME NEW f \in File, CommitFile(f) PROVE StampOK'
  <2>1. /\ job[f] = "cleared" /\ job' = [job EXCEPT ![f] = "none"]
        /\ buf' \subseteq buf \cup {f} /\ history'.old = history.old
        /\ UNCHANGED <<syms, stamp, pc, todo, read, reap>>
    BY <1>4 DEF CommitFile, TypeOK
  <2> QED
    BY <2>1 DEF StampOK, Leftover, TypeOK
<1>5. ASSUME Flush, UNCHANGED <<stamp, pc, todo, read, job, reap>>,
             history'.old = history.old
      PROVE  StampOK'
  <2>1. buf' \subseteq buf /\ \A f \in File \ buf : syms'[f] = syms[f]
    BY <1>5 DEF Flush, FlushSymbols
  <2> QED
    BY <1>5, <2>1, StampKept DEF StampOK, TypeOK
<1>6. ASSUME FlushBatch PROVE StampOK'
  BY <1>5, <1>6 DEF FlushBatch
<1>7. ASSUME FinalFlush PROVE StampOK'
  <2>1. buf' \subseteq buf /\ \A f \in File \ buf : syms'[f] = syms[f]
    BY <1>7 DEF FinalFlush, Flush, FlushSymbols
  <2>2. history'.old = history.old /\ todo = {} /\ pc = "walk"
        /\ pc' = "resolve" /\ \A f \in File : job[f] = "none"
    BY <1>7 DEF FinalFlush, JobsDone, TypeOK
  <2>3. UNCHANGED <<stamp, read, job>>
    BY <1>7 DEF FinalFlush
  <2>4. Leftover' \subseteq Leftover
    BY <2>1, <2>2 DEF Leftover, StampOK, TypeOK
  <2> QED
    BY <2>1, <2>2, <2>3, <2>4 DEF StampOK, TypeOK, Leftover
<1>8. ASSUME Resolve PROVE StampOK'
  BY <1>8 DEF Resolve, StampOK, Leftover, TypeOK
<1>9. ASSUME NEW f \in File, Reap(f) PROVE StampOK'
  <2>1. syms'[f] = None /\ \A g \in File : g # f => syms'[g] = syms[g]
    BY <1>9 DEF Reap, TypeOK
  <2>2. /\ history'.old = history.old \ {f} /\ reap' = reap \ {f}
        /\ UNCHANGED <<stamp, pc, todo, read, job, buf>>
    BY <1>9 DEF Reap, TypeOK
  <2> QED
    BY <2>1, <2>2 DEF StampOK, Leftover, TypeOK
<1>10. ASSUME Reaped PROVE StampOK'
  BY <1>10 DEF Reaped, StampOK, Leftover
<1>11. ASSUME Finish PROVE StampOK'
  BY <1>11 DEF Finish, Drop, StampOK, Leftover, TypeOK
<1>12. ASSUME Abandon PROVE StampOK'
  BY <1>12, StampDropped DEF Abandon, TypeOK
<1>13. ASSUME NEW f \in File, Edit(f) PROVE StampOK'
  BY <1>13, StampKept DEF Edit
<1>14. ASSUME Cancel PROVE StampOK'
  BY <1>14 DEF Cancel, StampOK, Leftover, TypeOK
<1>15. ASSUME Crash PROVE StampOK'
  <2>1. PICK unhinged : Die(unhinged)
    BY <1>15 DEF Crash
  <2>2. syms' = syms \/ \E f \in reap : syms' = [syms EXCEPT ![f] = None]
    BY <1>15 DEF Crash
  <2>3. UNCHANGED stamp
    BY <1>15 DEF Crash
  <2> QED
    BY <2>1, <2>2, <2>3, StampDropped DEF Die, TypeOK
<1>16. ASSUME Upgrade PROVE StampOK'
  BY <1>16 DEF Upgrade, StampOK, Leftover, TypeOK, BufferOK
<1>17. CASE NextSecond \/ UNCHANGED vars
  BY <1>17, StampKept DEF NextSecond, vars
<1>18. ASSUME HashesGo PROVE StampOK'
  BY <1>18 DEF HashesGo, StampOK, Leftover
<1> QED
  BY <1>1, <1>2, <1>3, <1>4, <1>6, <1>7, <1>8, <1>9, <1>10, <1>11, <1>12,
     <1>13, <1>14, <1>15, <1>16, <1>17, <1>18 DEF AnyStep, Pass, FileStep, Around

-----------------------------------------------------------------------------
(* The hash of a file.                                                     *)

\* A file without symbols or calls, one that is committed, and a fault.
LEMMA CommitOutcomes ==
  ASSUME TypeOK, NEW f \in File, CommitFile(f)
  PROVE  \/ /\ Blank(read[f]) /\ history'.lost = history.lost \ {f}
            /\ UNCHANGED <<pend, buf>>
         \/ /\ ~ Blank(read[f]) /\ history'.lost = history.lost \ {f}
            /\ pend' = [pend EXCEPT ![f] = read[f]] /\ buf' = buf \cup {f}
         \/ /\ ~ Blank(read[f]) /\ history'.lost = history.lost \cup {f}
            /\ UNCHANGED pend /\ buf' = buf \cup {f}
<1>1. /\ [history EXCEPT !.lost = @ \ {f}, !.missed = @ \ {f}].lost
            = history.lost \ {f}
      /\ [history EXCEPT !.lost = @ \cup {f}, !.missed = @ \ {f}].lost
            = history.lost \cup {f}
  BY DEF TypeOK
<1> QED
  BY <1>1 DEF CommitFile

\* Every ending of a pass leaves the files that it does not call lost settled.
LEMMA HashDropped ==
  ASSUME TypeOK, StageOK, HashOK, Drop, UNCHANGED <<hash, pend, syms>>,
         \A f \in File \ history'.lost :
            f \notin history.lost /\ job[f] # "cleared" /\ (Walking => f \notin buf)
  PROVE  HashOK'
<1>1. buf' = {}
  BY DEF Drop
<1>2. \A f \in File : Settled(f)' => Settled(f)
  BY DEF Settled
<1> QED
  BY <1>1, <1>2 DEF HashOK, Trusted

\* Every step keeps hashes trustworthy.
LEMMA HashStep == Inv /\ StageOK /\ HashOK /\ [AnyStep]_vars => HashOK'
<1> SUFFICES ASSUME TypeOK, BufferOK, StageOK, HashOK, [AnyStep]_vars
             PROVE  HashOK'
  BY DEF Inv
<1> USE DEF db, walk, tree
<1>1. ASSUME NEW k \in Kind, Start(k) PROVE HashOK'
  BY <1>1 DEF Start, HashOK, Settled, Trusted, Walking, BufferOK, TypeOK
<1>2. ASSUME NEW f \in File, Walk(f) PROVE HashOK'
  <2>1. \A g \in File : g # f => job'[g] = job[g] /\ read'[g] = read[g]
    BY <1>2 DEF Walk, TypeOK
  <2>2. /\ pc = "walk" /\ f \in todo /\ history'.lost = history.lost
        /\ UNCHANGED <<hash, pend, syms, pc, buf>>
    BY <1>2 DEF Walk, TypeOK
  <2>3. f \notin buf /\ job[f] = "none"
    BY <2>2 DEF BufferOK, Walking
  <2> QED
    BY <2>1, <2>2, <2>3 DEF HashOK, Settled, Trusted, Walking, TypeOK
<1>3. ASSUME NEW f \in File, ClearFile(f) PROVE HashOK'
  <2>1. \A g \in File : g # f => job'[g] = job[g] /\ syms'[g] = syms[g]
    BY <1>3 DEF ClearFile, TypeOK
  <2>2. /\ Walking /\ job'[f] = "cleared" /\ history'.lost = history.lost
        /\ UNCHANGED <<hash, pend, pc, buf, read>>
    BY <1>3 DEF ClearFile, TypeOK
  <2> QED
    BY <2>1, <2>2 DEF HashOK, Settled, Trusted, Walking, TypeOK
<1>4. ASSUME NEW f \in File, CommitFile(f) PROVE HashOK'
  <2>1. /\ Walking /\ job[f] = "cleared" /\ hash' = [hash EXCEPT ![f] = read[f]]
        /\ UNCHANGED <<syms, pc, read>>
        /\ job' = [job EXCEPT ![f] = "none"]
    BY <1>4 DEF CommitFile
  <2>2. syms[f] = None /\ read[f] # None /\ f \notin buf
    BY <2>1 DEF BufferOK, TypeOK
  <2>3. \/ /\ Blank(read[f]) /\ history'.lost = history.lost \ {f}
           /\ UNCHANGED <<pend, buf>>
        \/ /\ ~ Blank(read[f]) /\ history'.lost = history.lost \ {f}
           /\ pend' = [pend EXCEPT ![f] = read[f]] /\ buf' = buf \cup {f}
        \/ /\ ~ Blank(read[f]) /\ history'.lost = history.lost \cup {f}
           /\ UNCHANGED pend /\ buf' = buf \cup {f}
    BY <1>4, CommitOutcomes
  <2>4. (Settled(f) => Trusted(f))'
    BY <2>1, <2>2, <2>3 DEF Settled, Trusted, Visible, TypeOK, Walking
  <2>5. f \in buf' =>
            /\ hash'[f] = read[f] /\ ~ Blank(read[f])
            /\ f \notin history'.lost => pend'[f] = read[f]
    BY <2>1, <2>2, <2>3 DEF TypeOK
  <2>6. \A g \in File : g # f =>
            /\ hash'[g] = hash[g] /\ pend'[g] = pend[g] /\ job'[g] = job[g]
            /\ g \in history'.lost <=> g \in history.lost
            /\ g \in buf' <=> g \in buf
    BY <2>1, <2>3 DEF TypeOK
  <2>7. \A g \in File : g # f => (Settled(g) => Trusted(g))'
    BY <2>1, <2>6 DEF HashOK, Settled, Trusted, Walking
  <2>8. buf' \subseteq File
    BY <2>3 DEF TypeOK
  <2>9. \A g \in buf' :
            /\ hash'[g] \in {read'[g], None} /\ ~ Blank(read'[g])
            /\ g \notin history'.lost => pend'[g] = read'[g]
    BY <2>1, <2>5, <2>6, <2>8 DEF HashOK
  <2> QED
    BY <2>4, <2>7, <2>9 DEF HashOK
<1>5. ASSUME FlushBatch PROVE HashOK'
  <2>1. /\ Walking
        /\ UNCHANGED <<hash, pend, pc, read, job, history>>
    BY <1>5 DEF FlushBatch
  <2>2. CASE FlushSymbols /\ buf' = {}
    BY <2>1, <2>2 DEF FlushSymbols, HashOK, Settled, Trusted, Visible, Walking, TypeOK
  <2>3. CASE (FlushSymbols \/ UNCHANGED syms) /\ buf' = buf
    BY <2>1, <2>3 DEF FlushSymbols, HashOK, Settled, Trusted, Walking, TypeOK
  <2> QED
    BY <1>5, <2>2, <2>3 DEF FlushBatch, Flush
<1>6. ASSUME FinalFlush PROVE HashOK'
  <2>1. /\ pc = "walk" /\ pc' = "resolve"
        /\ history'.lost = history.lost \cup buf'
        /\ UNCHANGED <<hash, pend, read, job>>
    BY <1>6 DEF FinalFlush, TypeOK
  <2>2. CASE FlushSymbols /\ buf' = {}
    BY <2>1, <2>2 DEF FlushSymbols, HashOK, Settled, Trusted, Visible, Walking, TypeOK
  <2>3. CASE (FlushSymbols \/ UNCHANGED syms) /\ buf' = buf
    BY <2>1, <2>3 DEF FlushSymbols, HashOK, Settled, Trusted, Walking, TypeOK
  <2> QED
    BY <1>6, <2>2, <2>3 DEF FinalFlush, Flush
<1>7. ASSUME Resolve \/ Reaped \/ NextSecond \/ Upgrade PROVE HashOK'
  BY <1>7 DEF Resolve, Reaped, NextSecond, Upgrade, HashOK, Settled, Trusted,
              Walking, TypeOK
<1>8. ASSUME NEW f \in File, Reap(f) PROVE HashOK'
  <2>1. \A g \in File : g # f =>
            /\ hash'[g] = hash[g] /\ pend'[g] = pend[g] /\ syms'[g] = syms[g]
            /\ g \in history'.lost <=> g \in history.lost
    BY <1>8 DEF Reap, TypeOK
  <2>2. /\ hash'[f] = None /\ pc = "gc" /\ UNCHANGED <<pc, job, buf>>
    BY <1>8 DEF Reap, TypeOK
  <2> QED
    BY <2>1, <2>2 DEF HashOK, Settled, Trusted, Walking
<1>9. ASSUME Finish PROVE HashOK'
  BY <1>9, HashDropped DEF Finish, StageOK, Walking, TypeOK
<1>10. ASSUME Abandon PROVE HashOK'
  BY <1>10, HashDropped DEF Abandon, JobsDone, TypeOK
<1>11. ASSUME NEW f \in File, Edit(f) PROVE HashOK'
  BY <1>11 DEF Edit, HashOK, Settled, Trusted, Walking
<1>12. ASSUME Cancel PROVE HashOK'
  BY <1>12 DEF Cancel, HashOK, Settled, Trusted, Walking, TypeOK
<1>13. ASSUME Crash PROVE HashOK'
  <2>1. ASSUME NEW unhinged, Die(unhinged)
        PROVE  history'.lost = history.lost \cup buf \cup {f \in File : Cleared(f)}
                                 \cup unhinged
    BY <2>1 DEF Die, TypeOK
  <2>2. CASE Die({}) /\ UNCHANGED db
    BY <2>1, <2>2, HashDropped DEF Die, Cleared
  <2>3. ASSUME NEW f \in reap, syms' = [syms EXCEPT ![f] = None],
               UNCHANGED pend,
               \/ hash' = [hash EXCEPT ![f] = None] /\ Die({})
               \/ UNCHANGED hash /\ Die({f})
        PROVE  HashOK'
    <3>1. buf' = {}
      BY <2>3 DEF Die, Drop
    <3>2. \A g \in File : g # f => /\ hash'[g] = hash[g] /\ pend'[g] = pend[g]
                                   /\ syms'[g] = syms[g]
      BY <2>3 DEF TypeOK
    <3>3. \A g \in File : g \notin history'.lost => Settled(g)
      BY <2>1, <2>3 DEF Settled, Cleared
    <3>4. f \in history'.lost \/ hash'[f] = None
      BY <2>1, <2>3 DEF TypeOK
    <3> QED
      BY <3>1, <3>2, <3>3, <3>4 DEF HashOK, Settled, Trusted
  <2> QED
    BY <1>13, <2>2, <2>3 DEF Crash
<1>14. CASE UNCHANGED vars
  BY <1>14 DEF vars, HashOK, Settled, Trusted, Walking
<1>15. ASSUME HashesGo PROVE HashOK'
  BY <1>15 DEF HashesGo, HashOK, Settled, Trusted, Walking, TypeOK
<1> QED
  BY <1>1, <1>2, <1>3, <1>4, <1>5, <1>6, <1>7, <1>8, <1>9, <1>10, <1>11,
     <1>12, <1>13, <1>14, <1>15 DEF AnyStep, Pass, FileStep, Around

-----------------------------------------------------------------------------
TrustInv == Inv /\ StageOK /\ MtimeOK /\ StampOK /\ HashOK

\* TrustInv is an inductive invariant of the pass.
THEOREM TrustCorrect == Passes => []TrustInv
<1>1. Init => TrustInv
  <2> SUFFICES ASSUME Init PROVE TrustInv
    OBVIOUS
  <2>1. Inv
    BY InitInv
  <2>2. StageOK
    BY DEF Init, StageOK, Walking
  <2>3. MtimeOK
    BY DEF Init, MtimeOK
  <2>4. StampOK
    BY DEF Init, StampOK, Leftover
  <2>5. HashOK
    BY DEF Init, HashOK, Settled, Trusted
  <2> QED
    BY <2>1, <2>2, <2>3, <2>4, <2>5 DEF TrustInv
<1>2. Inv /\ [AnyStep]_vars => Inv'
  BY TypeStep, BufferStep, NoDanglingStep DEF Inv
<1>3. TrustInv /\ [AnyStep]_vars => TrustInv'
  BY <1>2, StageStep, MtimeStep, StampStep, HashStep DEF TrustInv
<1> QED
  BY <1>1, <1>3, PTL DEF Passes

\* A hash that is stored between two passes is that of the symbols and the
\* pending calls that are stored, whatever goroutines, edits and faults came
\* before, unless a fault hit the file after its hash was written: the next
\* pass may skip the file.
THEOREM HashIsTrusted == Spec => []HashTrusted
<1>1. TrustInv => HashTrusted
  BY DEF TrustInv, Inv, StageOK, HashOK, HashTrusted, Settled, Trusted, Walking
<1> QED
  BY TrustCorrect, IndexerPasses, <1>1, PTL

\* Between two passes a file that is not newer than the last one has been
\* indexed as it is on disk, however edits and passes overlapped, unless an
\* interrupted pass had not got to it: the watcher may skip the file.
THEOREM MtimeIsTrusted == Spec => []MtimeTrusted
<1>1. TrustInv => MtimeTrusted
  BY DEF TrustInv, Inv, StageOK, MtimeOK, MtimeTrusted, Walking
<1> QED
  BY TrustCorrect, IndexerPasses, <1>1, PTL

\* Once the running binary's version is on the project's row, nothing is left
\* of what the older binary had extracted, however often the pass that
\* re-extracts was interrupted (#986).
THEOREM StampHonest == Spec => []StampIsHonest
<1>1. TrustInv => StampIsHonest
  BY DEF TrustInv, StampOK, StampIsHonest, Leftover
<1> QED
  BY TrustCorrect, IndexerPasses, <1>1, PTL

-----------------------------------------------------------------------------
(* The refinement.  A pass, with its goroutines, buffers, transactions and *)
(* faults, implements what its readers are promised (GraphStore).  The map *)
(* is the identity on what both have: the tree, what has been read of it,  *)
(* the symbols and the links.  What has to be known is that a file is read *)
(* once, that nothing is stored of a file when its buffered symbols are    *)
(* flushed (BufferOK), and that a resolve finds the owner of a name.       *)

\* Both name the owner of a name alike.
LEMMA SameOwner ==
  ASSUME NEW n
  PROVE  Target(syms, n) = Readers!Owner(n)
BY DEF Target, Defines, Readers!Owner, Readers!Holds

\* What a reader sees of the end of a pass.
LEMMA DropForgets ==
  ASSUME Drop
  PROVE  Readers!Forget
BY DEF Drop, Readers!Forget, Readers!Nothing

\* What a reader sees of a flush: some files' symbols appear.
LEMMA FlushPublishes ==
  ASSUME TypeOK, BufferOK, Walking, Flush, UNCHANGED <<disk, read>>
  PROVE  Readers!Publish(buf) \/ UNCHANGED Readers!store
<1>1. \A f \in buf : read[f] # None /\ syms[f] \in {None, read[f]}
  BY DEF TypeOK, BufferOK
<1>2. CASE FlushSymbols /\ (FlushEdges \/ UNCHANGED edges)
  BY <1>1, <1>2 DEF FlushSymbols, FlushEdges, LocalEdges, Readers!Publish,
                    Readers!Local
<1>3. CASE UNCHANGED <<syms, edges>>
  BY <1>3 DEF Readers!store
<1> QED
  BY <1>2, <1>3 DEF Flush

\* What a reader sees of a resolve: the links of its scope are made anew.
LEMMA ResolveRelinks ==
  ASSUME TypeOK, Resolve
  PROVE  Readers!Relink(Scope) \/ UNCHANGED Readers!store
<1>1. UNCHANGED <<disk, read, syms>>
  BY DEF Resolve, tree, walk
<1>2. CASE UNCHANGED edges
  BY <1>1, <1>2 DEF Readers!store
<1>3. CASE edges' = (edges \ ResolvePassEdges(Scope)) \cup Resolved(syms, pend, Scope)
  <2> DEFINE kept == {e \in edges : e.from \notin Scope \/ e.from = e.to}
  <2>1. kept \subseteq edges'
    BY <1>3 DEF ResolvePassEdges
  <2>2. \A e \in edges' \ kept : e \in Resolved(syms, pend, Scope)
    BY <1>3 DEF ResolvePassEdges
  <2>3. \A e \in Resolved(syms, pend, Scope) :
            e.from \in Scope /\ syms[e.from] # None /\ e.to \in Readers!Owner(e.name)
    BY SameOwner DEF Resolved
  <2> QED
    BY <1>1, <2>1, <2>2, <2>3 DEF Readers!Relink
<1> QED
  BY <1>2, <1>3 DEF Resolve

\* Every step is one that readers are promised, or they see nothing of it.
LEMMA ReadersStep ==
  Inv /\ StageOK /\ [AnyStep]_vars => [Readers!Next]_(Readers!store)
<1> SUFFICES ASSUME TypeOK, BufferOK, StageOK, [AnyStep]_vars
             PROVE  Readers!Next \/ UNCHANGED Readers!store
  BY DEF Inv
<1> USE DEF db, walk, tree
<1>1. ASSUME NEW k \in Kind, Start(k) PROVE Readers!Next
  <2>1. Readers!Forget /\ UNCHANGED <<disk, syms, edges>>
    BY <1>1 DEF Start, Readers!Forget, Readers!Nothing
  <2> QED
    BY <2>1 DEF Readers!Next
<1>2. ASSUME NEW f \in File, Walk(f) PROVE Readers!Next
  <2>1. Readers!Take(f)
    BY <1>2 DEF Walk, Readers!Take, StageOK
  <2> QED
    BY <2>1 DEF Readers!Next
<1>3. ASSUME NEW f \in File, ClearFile(f) \/ Reap(f) PROVE Readers!Next
  <2>1. Readers!Clear(f)
    BY <1>3 DEF ClearFile, Reap, Readers!Clear, EdgesWithout
  <2> QED
    BY <2>1 DEF Readers!Next
<1>4. ASSUME NEW f \in File, CommitFile(f) PROVE UNCHANGED Readers!store
  BY <1>4 DEF CommitFile, Readers!store
<1>5. ASSUME FlushBatch \/ FinalFlush
      PROVE  Readers!Next \/ UNCHANGED Readers!store
  <2>1. Walking /\ Flush /\ UNCHANGED <<disk, read>> /\ buf \in SUBSET File
    BY <1>5 DEF FlushBatch, FinalFlush, Walking, TypeOK
  <2> QED
    BY <2>1, FlushPublishes DEF Readers!Next
<1>6. ASSUME Resolve PROVE Readers!Next \/ UNCHANGED Readers!store
  <2>1. Scope \in SUBSET File
    BY DEF Scope, TypeOK
  <2> QED
    BY <1>6, <2>1, ResolveRelinks DEF Readers!Next
<1>7. ASSUME Reaped \/ Cancel \/ NextSecond \/ Upgrade
      PROVE  UNCHANGED Readers!store
  BY <1>7 DEF Reaped, Cancel, NextSecond, Upgrade, Readers!store
<1>8. ASSUME Finish \/ Abandon PROVE Readers!Next
  <2>1. Drop /\ UNCHANGED <<disk, syms, edges>>
    BY <1>8 DEF Finish, Abandon
  <2> QED
    BY <2>1, DropForgets DEF Readers!Next
<1>9. ASSUME NEW f \in File, Edit(f) PROVE Readers!Next
  <2>1. Readers!Change(f)
    BY <1>9 DEF Edit, Readers!Change
  <2> QED
    BY <2>1 DEF Readers!Next
<1>10. ASSUME Crash PROVE Readers!Next
  <2>1. Readers!Forget /\ UNCHANGED disk
    BY <1>10, DropForgets DEF Crash, Die
  <2>2. CASE UNCHANGED db
    BY <2>1, <2>2 DEF Readers!Next
  <2>3. ASSUME NEW f \in reap, syms' = [syms EXCEPT ![f] = None],
               edges' = EdgesWithout(f)
        PROVE  Readers!Next
    <3>1. f \in File
      BY DEF TypeOK
    <3>2. Readers!Clear(f)
      BY <2>1, <2>3 DEF Readers!Clear, EdgesWithout
    <3> QED
      BY <3>1, <3>2 DEF Readers!Next
  <2> QED
    BY <1>10, <2>2, <2>3 DEF Crash
<1>11. CASE UNCHANGED vars
  BY <1>11 DEF vars, Readers!store
<1>12. ASSUME HashesGo PROVE UNCHANGED Readers!store
  BY <1>12 DEF HashesGo, Readers!store
<1> QED
  BY <1>1, <1>2, <1>3, <1>4, <1>5, <1>6, <1>7, <1>8, <1>9, <1>10, <1>11, <1>12
     DEF AnyStep, Pass, FileStep, Around

\* Passes serve their readers, wherever the hashes go.
LEMMA PassesServe == Passes => ImplementsGraphStore
<1>1. Init => Readers!Init
  <2> SUFFICES ASSUME Init PROVE Readers!Init
    OBVIOUS
  <2> QED
    BY DEF Init, Readers!Init, Readers!Nothing
<1>2. TrustInv => Inv /\ StageOK
  BY DEF TrustInv
<1> QED
  BY <1>1, <1>2, TrustCorrect, ReadersStep, PTL
     DEF Passes, ImplementsGraphStore, Readers!Spec

\* A pass implements the index that its readers are promised: a file's symbols
\* never mix two contents, are never replaced under links that lead to them,
\* and a name is bound to one symbol, for every interleaving and every fault.
THEOREM ReadersServed == Spec => ImplementsGraphStore
BY IndexerPasses, PassesServe, PTL

-----------------------------------------------------------------------------
(***************************************************************************)
(* What a pass leaves of the call graph: an incremental pass loses no call *)
(* (NoCallLost), and a full one leaves exactly the edges of the tree it    *)
(* has read (FullPassIsExact).  Neither is inductive by far.  The edges    *)
(* from a file to itself are the extractor's and follow its symbols        *)
(* (OwnOK); the others are the resolve pass' and follow its pending calls  *)
(* (CrossingOK); an edge that the pass found and that no longer stands is  *)
(* one from a file of the resolve scope (ScopeOK).  Together they say what *)
(* a resolve makes of the table, and the tail GC leaves it as it is unless *)
(* it removes a file.                                                      *)
(***************************************************************************)
\* The rows of a file that the pass is done with.
RowsOK ==
    /\ \A f \in File : Settled(f) =>
          /\ syms[f] # None => pend[f] = syms[f]
          /\ read[f] # None /\ job[f] = "none" => syms[f] = Visible(read[f])
    /\ pc \in {"gc", "finish"} =>
          \A f \in File \ reap : read[f] = None => syms[f] = None

\* An edge between two files is a pending call of the first, and a file whose
\* goroutine has cleared it has no edges.
CrossingOK ==
    /\ \A e \in edges : e.from # e.to =>
          pend[e.from] # None /\ e.name \in Deferred(pend[e.from])
    /\ \A f \in File : job[f] = "cleared" => \A e \in edges : e.from # f /\ e.to # f

Own(f) == {e \in edges : e.from = f /\ e.to = f}

\* The edges from a file to itself are those of its symbols.
OwnOK ==
    \A f \in File :
        /\ Walking /\ f \in buf => Own(f) = {}
        /\ Settled(f) => Own(f) = IF syms[f] = None THEN {} ELSE LocalEdges(f, syms[f])

\* Until the resolve, an edge that has gone leads from a file of its scope, and
\* one that may go is no goroutine's yet.
ScopeOK ==
    /\ \A f \in File : job[f] # "none" => f \in extracted
    /\ extracted = {} => referrers = {}
    /\ pc \in {"walk", "resolve"} => \A e \in history.before :
          e.from \notin extracted \cup referrers => e \in edges /\ job[e.to] = "none"

\* After the resolve of a pass that nothing went wrong in.
Undisturbed == pc \in {"gc", "finish"} /\ ~ history.reaped /\ history.lost = {}

CallKept(e) ==
    /\ syms[e.from] # None
    /\ e.name \in Calls[syms[e.from]]
    /\ Target(syms, e.name) # {}
    => \E d \in edges : d.from = e.from /\ d.name = e.name

Full == kind = "force" \/ (kind = "heal" /\ extracted = {})

ResultOK ==
    Undisturbed =>
        /\ \A e \in history.before : CallKept(e)
        /\ Full => edges = IdealEdges(syms)

-----------------------------------------------------------------------------
(* Rows.                                                                   *)

\* Every ending of a pass leaves rows that are done with.
LEMMA DropRows ==
  ASSUME RowsOK, Drop, UNCHANGED pend,
         \A f \in File : \/ syms'[f] = None
                         \/ syms'[f] = syms[f] /\ (Settled(f)' => Settled(f))
  PROVE  RowsOK'
BY DEF RowsOK, Drop

\* Every step keeps them.
LEMMA RowsStep == TrustInv /\ RowsOK /\ [AnyStep]_vars => RowsOK'
<1> SUFFICES ASSUME TypeOK, BufferOK, StageOK, HashOK, RowsOK, [AnyStep]_vars
             PROVE  RowsOK'
  BY DEF TrustInv, Inv
<1> USE DEF db, walk, tree
<1>1. ASSUME NEW k \in Kind, Start(k) PROVE RowsOK'
  BY <1>1 DEF Start, RowsOK, Settled, Walking, BufferOK, TypeOK
<1>2. ASSUME NEW f \in File, Walk(f) PROVE RowsOK'
  <2>1. \A g \in File : g # f => job'[g] = job[g] /\ read'[g] = read[g]
    BY <1>2 DEF Walk, TypeOK
  <2>2. job'[f] \in {"none", "read"} /\ job[f] # "cleared"
        /\ (job'[f] # "none" \/ read'[f] = None \/ hash[f] = read'[f])
    BY <1>2 DEF Walk, BufferOK, Walking, TypeOK
  <2>3. pc = "walk" /\ history'.lost = history.lost
        /\ UNCHANGED <<hash, pend, syms, pc, buf>>
    BY <1>2 DEF Walk, TypeOK
  <2>4. \A g \in File : Settled(g)' => Settled(g)
    BY <2>1, <2>2, <2>3 DEF Settled, Walking
  <2> QED
    BY <2>1, <2>2, <2>3, <2>4 DEF RowsOK, HashOK, Trusted
<1>3. ASSUME NEW f \in File, ClearFile(f) PROVE RowsOK'
  <2>1. \A g \in File : g # f => job'[g] = job[g] /\ syms'[g] = syms[g]
    BY <1>3 DEF ClearFile, TypeOK
  <2>2. /\ Walking /\ job'[f] = "cleared" /\ history'.lost = history.lost
        /\ UNCHANGED <<pend, pc, buf, read>>
    BY <1>3 DEF ClearFile, TypeOK
  <2> QED
    BY <2>1, <2>2 DEF RowsOK, Settled, Walking
<1>4. ASSUME NEW f \in File, CommitFile(f) PROVE RowsOK'
  <2>1. /\ Walking /\ job[f] = "cleared" /\ syms[f] = None
        /\ UNCHANGED <<syms, pc, read>>
    BY <1>4 DEF CommitFile, BufferOK
  <2>2. \A g \in File : g # f =>
            /\ pend'[g] = pend[g] /\ job'[g] = job[g]
            /\ g \in history'.lost <=> g \in history.lost
            /\ g \in buf' <=> g \in buf
    <3>1. \A g \in File : g # f => pend'[g] = pend[g] /\ job'[g] = job[g]
      BY <1>4 DEF CommitFile, TypeOK
    <3> QED
      BY <1>4, <3>1, CommitOutcomes
  <2>3. Blank(read[f]) \/ f \in buf'
    BY <1>4 DEF CommitFile
  <2> QED
    BY <2>1, <2>2, <2>3 DEF RowsOK, Settled, Walking, Visible
<1>5. ASSUME FlushBatch \/ FinalFlush PROVE RowsOK'
  <2>1. /\ Walking /\ Flush
        /\ UNCHANGED <<pend, read, job>>
        /\ pc' \notin {"gc", "finish"}
    BY <1>5 DEF FlushBatch, FinalFlush, Walking
  <2>2. \/ Walking' /\ history' = history
        \/ ~ Walking' /\ history'.lost = history.lost \cup buf'
    <3>1. CASE FlushBatch
      BY <3>1 DEF FlushBatch, Walking
    <3>2. CASE FinalFlush
      BY <3>2 DEF FinalFlush, Walking, TypeOK
    <3> QED
      BY <1>5, <3>1, <3>2
  <2>3. ASSUME NEW f \in File \ buf PROVE syms'[f] = syms[f] /\ (Settled(f)' => Settled(f))
    BY <2>1, <2>2 DEF Flush, FlushSymbols, Settled
  <2>4. ASSUME NEW f \in buf, Settled(f)'
        PROVE  pend[f] = read[f] /\ syms'[f] = read[f] /\ Visible(read[f]) = read[f]
    <3>1. FlushSymbols /\ f \notin history.lost
      BY <2>1, <2>2, <2>4 DEF Flush, Settled
    <3> QED
      BY <2>1, <3>1 DEF FlushSymbols, HashOK, Visible, TypeOK
  <2> QED
    BY <2>1, <2>3, <2>4 DEF RowsOK
<1>6. ASSUME Resolve PROVE RowsOK'
  BY <1>6 DEF Resolve, RowsOK, Settled, Walking
<1>7. ASSUME NEW f \in File, Reap(f) PROVE RowsOK'
  <2>1. \A g \in File : g # f =>
            /\ pend'[g] = pend[g] /\ syms'[g] = syms[g]
            /\ g \in history'.lost <=> g \in history.lost
    BY <1>7 DEF Reap, TypeOK
  <2>2. /\ syms'[f] = None /\ pc = "gc" /\ read[f] = None
        /\ reap' = reap \ {f} /\ UNCHANGED <<pc, job, buf, read>>
    BY <1>7 DEF Reap, StageOK, TypeOK
  <2> QED
    BY <2>1, <2>2 DEF RowsOK, Settled, Walking
<1>8. ASSUME Reaped \/ NextSecond \/ Upgrade \/ Cancel PROVE RowsOK'
  <2>1. /\ UNCHANGED <<pend, syms, read, job, buf, reap>>
        /\ history'.lost = history.lost
        /\ Walking' <=> Walking
        /\ pc' \in {"gc", "finish"} => pc \in {"gc", "finish"}
    BY <1>8 DEF Reaped, NextSecond, Upgrade, Cancel, Walking, TypeOK
  <2> QED
    BY <2>1 DEF RowsOK, Settled
<1>9. ASSUME Finish \/ Abandon PROVE RowsOK'
  <2>1. Drop /\ UNCHANGED <<pend, syms>>
    BY <1>9 DEF Finish, Abandon
  <2>2. \A f \in File : Settled(f)' => Settled(f)
    <3>1. CASE Finish
      BY <3>1 DEF Finish, Settled, StageOK, Walking, TypeOK
    <3>2. CASE Abandon
      BY <3>2 DEF Abandon, Settled, JobsDone, TypeOK
    <3> QED
      BY <1>9, <3>1, <3>2
  <2> QED
    BY <2>1, <2>2, DropRows
<1>10. ASSUME NEW f \in File, Edit(f) PROVE RowsOK'
  BY <1>10 DEF Edit, RowsOK, Settled, Walking
<1>11. ASSUME Crash PROVE RowsOK'
  <2>1. PICK unhinged : Die(unhinged)
    BY <1>11 DEF Crash
  <2>2. Drop /\ \A f \in File : Settled(f)' => Settled(f)
    BY <2>1 DEF Die, Settled, Cleared, TypeOK
  <2>3. /\ UNCHANGED pend
        /\ syms' = syms \/ \E f \in reap : syms' = [syms EXCEPT ![f] = None]
    BY <1>11 DEF Crash
  <2> QED
    BY <2>2, <2>3, DropRows DEF TypeOK
<1>12. CASE UNCHANGED vars
  BY <1>12 DEF vars, RowsOK, Settled, Walking
<1>13. ASSUME HashesGo PROVE RowsOK'
  BY <1>13 DEF HashesGo, RowsOK, Settled, Walking
<1> QED
  BY <1>1, <1>2, <1>3, <1>4, <1>5, <1>6, <1>7, <1>8, <1>9, <1>10, <1>11,
     <1>12, <1>13 DEF AnyStep, Pass, FileStep, Around

-----------------------------------------------------------------------------
(* Edges between files.                                                    *)

\* What a flush adds leads from a file that is not cleared to itself.
LEMMA FlushedEdges ==
  ASSUME TypeOK, BufferOK, Walking, Flush
  PROVE  \A e \in edges' \ edges : e.from = e.to /\ e.from \in buf
<1>1. edges' \subseteq edges \cup UNION {LocalEdges(f, read[f]) : f \in buf}
  BY DEF Flush, FlushEdges
<1> QED
  BY <1>1 DEF LocalEdges

\* Every step keeps to the pending calls.
LEMMA CrossingStep == TrustInv /\ CrossingOK /\ [AnyStep]_vars => CrossingOK'
<1> SUFFICES ASSUME TypeOK, BufferOK, StageOK, CrossingOK, [AnyStep]_vars
             PROVE  CrossingOK'
  BY DEF TrustInv, Inv
<1> USE DEF db, walk, tree
<1>0. \A e \in edges : e.from \in File /\ e.to \in File
  BY DEF TypeOK, Edge
<1>1. ASSUME NEW k \in Kind, Start(k) PROVE CrossingOK'
  BY <1>1 DEF Start, CrossingOK
<1>2. ASSUME NEW f \in File, Walk(f) PROVE CrossingOK'
  <2>1. \A g \in File : job'[g] = "cleared" => job[g] = "cleared"
    BY <1>2 DEF Walk, TypeOK
  <2> QED
    BY <1>2, <2>1 DEF Walk, CrossingOK
<1>3. ASSUME NEW f \in File, ClearFile(f) PROVE CrossingOK'
  BY <1>3 DEF ClearFile, EdgesWithout, CrossingOK, TypeOK
<1>4. ASSUME NEW f \in File, CommitFile(f) PROVE CrossingOK'
  <2>1. /\ job[f] = "cleared" /\ job' = [job EXCEPT ![f] = "none"]
        /\ UNCHANGED edges /\ \A g \in File : g # f => pend'[g] = pend[g]
    BY <1>4 DEF CommitFile, TypeOK
  <2> QED
    BY <1>0, <2>1 DEF CrossingOK, TypeOK
<1>5. ASSUME FlushBatch \/ FinalFlush PROVE CrossingOK'
  <2>1. Walking /\ Flush /\ UNCHANGED <<pend, job>>
    BY <1>5 DEF FlushBatch, FinalFlush, Walking
  <2>2. \A f \in File : job[f] = "cleared" => f \notin buf
    BY <2>1 DEF BufferOK
  <2> QED
    BY <2>1, <2>2, FlushedEdges DEF CrossingOK
<1>6. ASSUME Resolve PROVE CrossingOK'
  <2>1. edges' \subseteq edges \cup Resolved(syms, pend, Scope)
        /\ UNCHANGED <<pend, job>> /\ \A f \in File : job[f] = "none"
    BY <1>6 DEF Resolve, StageOK, Walking
  <2>2. \A e \in Resolved(syms, pend, Scope) :
            pend[e.from] # None /\ e.name \in Deferred(pend[e.from])
    BY DEF Resolved
  <2> QED
    BY <2>1, <2>2 DEF CrossingOK
<1>7. ASSUME NEW f \in File, Reap(f) PROVE CrossingOK'
  BY <1>0, <1>7 DEF Reap, EdgesWithout, CrossingOK, TypeOK
<1>8. ASSUME Reaped \/ NextSecond \/ Upgrade \/ Cancel PROVE CrossingOK'
  BY <1>8 DEF Reaped, NextSecond, Upgrade, Cancel, CrossingOK
<1>9. ASSUME Drop, UNCHANGED pend, edges' \subseteq edges PROVE CrossingOK'
  BY <1>9 DEF Drop, CrossingOK
<1>10. ASSUME Finish \/ Abandon PROVE CrossingOK'
  BY <1>9, <1>10 DEF Finish, Abandon
<1>11. ASSUME NEW f \in File, Edit(f) PROVE CrossingOK'
  BY <1>11 DEF Edit, CrossingOK
<1>12. ASSUME Crash PROVE CrossingOK'
  BY <1>9, <1>12 DEF Crash, Die, EdgesWithout
<1>13. CASE UNCHANGED vars
  BY <1>13 DEF vars, CrossingOK
<1>14. ASSUME HashesGo PROVE CrossingOK'
  BY <1>14 DEF HashesGo, CrossingOK
<1> QED
  BY <1>1, <1>2, <1>3, <1>4, <1>5, <1>6, <1>7, <1>8, <1>10, <1>11, <1>12,
     <1>13, <1>14 DEF AnyStep, Pass, FileStep, Around
-----------------------------------------------------------------------------
(* Edges from a file to itself.                                            *)

\* Once a file is settled, its pending calls are those of its symbols.
LEMMA PendingMatches ==
  ASSUME RowsOK, NEW f \in File, Settled(f), syms[f] # None
  PROVE  pend[f] = syms[f]
BY DEF RowsOK

\* Where rows and edges of a settled file stay, its own edges are right.
LEMMA OwnKept ==
  ASSUME NEW f \in File, OwnOK,
         Own(f)' = Own(f), syms'[f] = syms[f],
         Settled(f)' => Settled(f),
         (Walking /\ f \in buf)' => Walking /\ f \in buf
  PROVE  /\ (Walking /\ f \in buf)' => Own(f)' = {}
         /\ Settled(f)' => Own(f)' = IF syms'[f] = None THEN {}
                                    ELSE LocalEdges(f, syms'[f])
BY DEF OwnOK

\* What is cleared has none.
LEMMA OwnCleared ==
  ASSUME NEW f \in File, edges' = EdgesWithout(f)
  PROVE  /\ Own(f)' = {}
         /\ \A g \in File : g # f => Own(g)' = Own(g)
BY DEF EdgesWithout, Own

\* What a flush makes of them.
LEMMA FlushedOwn ==
  ASSUME TypeOK, OwnOK, Walking, FlushEdges
  PROVE  \A f \in File : Own(f)' = IF f \in buf THEN LocalEdges(f, read[f]) ELSE Own(f)
<1>1. \A f \in File, g \in buf : \A e \in LocalEdges(g, read[g]) :
          e.from = g /\ e.to = g
  BY DEF LocalEdges
<1>2. ASSUME NEW f \in buf PROVE Own(f)' = LocalEdges(f, read[f])
  <2>1. f \in File /\ Own(f) = {}
    BY DEF OwnOK, TypeOK
  <2> QED
    BY <1>1, <2>1 DEF FlushEdges, Own
<1>3. ASSUME NEW f \in File \ buf PROVE Own(f)' = Own(f)
  BY <1>1 DEF FlushEdges, Own
<1> QED
  BY <1>2, <1>3

\* Every step keeps them those of the symbols.
LEMMA OwnStep == TrustInv /\ RowsOK /\ CrossingOK /\ OwnOK /\ [AnyStep]_vars => OwnOK'
<1> SUFFICES ASSUME TypeOK, BufferOK, StageOK, RowsOK, CrossingOK, OwnOK,
                    [AnyStep]_vars
             PROVE  OwnOK'
  BY DEF TrustInv, Inv
<1> USE DEF db, walk, tree
<1>1. ASSUME NEW k \in Kind, Start(k) PROVE OwnOK'
  BY <1>1 DEF Start, OwnOK, Own, Settled, Walking, BufferOK, TypeOK
<1>2. ASSUME NEW f \in File, Walk(f) PROVE OwnOK'
  <2>1. \A g \in File : job'[g] # "cleared" => job[g] # "cleared"
    BY <1>2 DEF Walk, BufferOK, Walking, TypeOK
  <2>2. history'.lost = history.lost /\ UNCHANGED <<syms, edges, pc, buf>>
    BY <1>2 DEF Walk, TypeOK
  <2> QED
    BY <2>1, <2>2 DEF OwnOK, Own, Settled, Walking
<1>3. ASSUME NEW f \in File, ClearFile(f) PROVE OwnOK'
  <2>1. \A g \in File : g # f => job'[g] = job[g] /\ syms'[g] = syms[g]
    BY <1>3 DEF ClearFile, TypeOK
  <2>2. /\ syms'[f] = None /\ history'.lost = history.lost
        /\ UNCHANGED <<pc, buf>>
    BY <1>3 DEF ClearFile, TypeOK
  <2>3. Own(f)' = {} /\ \A g \in File : g # f => Own(g)' = Own(g)
    BY <1>3, OwnCleared DEF ClearFile
  <2> QED
    BY <2>1, <2>2, <2>3 DEF OwnOK, Settled, Walking
<1>4. ASSUME NEW f \in File, CommitFile(f) PROVE OwnOK'
  <2>1. /\ job[f] = "cleared" /\ Walking
        /\ \A g \in File : g # f => job'[g] = job[g]
        /\ UNCHANGED <<syms, edges, pc>>
    BY <1>4 DEF CommitFile, TypeOK
  <2>2. \A g \in File : g # f => /\ g \in buf' <=> g \in buf
                                 /\ g \in history'.lost <=> g \in history.lost
    BY <1>4, CommitOutcomes
  <2>3. Own(f)' = {} /\ syms'[f] = None
    BY <2>1 DEF CrossingOK, Own, BufferOK
  <2>4. \A g \in File : Own(g)' = Own(g)
    BY <2>1 DEF Own
  <2> QED
    BY <2>1, <2>2, <2>3, <2>4 DEF OwnOK, Settled, Walking
<1>5. ASSUME FlushBatch \/ FinalFlush PROVE OwnOK'
  <2>1. /\ Walking /\ Flush /\ job' = job
        /\ \/ Walking' /\ history' = history
           \/ ~ Walking' /\ history'.lost = history.lost \cup buf'
    <3>1. CASE FlushBatch
      BY <3>1 DEF FlushBatch, Walking
    <3>2. CASE FinalFlush
      BY <3>2 DEF FinalFlush, Walking, TypeOK
    <3> QED
      BY <1>5, <3>1, <3>2
  <2>2. CASE FlushSymbols /\ FlushEdges /\ buf' = {}
    <3>1. \A f \in File : syms'[f] = IF f \in buf THEN read[f] ELSE syms[f]
      BY <2>2 DEF FlushSymbols
    <3>2. \A f \in File \ buf : Settled(f)' => Settled(f)
      BY <2>1, <2>2 DEF Settled
    <3> QED
      BY <2>1, <2>2, <3>1, <3>2, FlushedOwn DEF OwnOK, TypeOK
  <2>3. CASE (FlushSymbols \/ UNCHANGED syms) /\ UNCHANGED <<edges, buf>>
    <3>1. \A f \in File : Own(f)' = Own(f)
      BY <2>3 DEF Own
    <3>2. \A f \in File \ buf : syms'[f] = syms[f]
      BY <2>3 DEF FlushSymbols
    <3>3. \A f \in File : Settled(f)' => f \notin buf /\ Settled(f)
      BY <2>1, <2>3 DEF Settled
    <3> QED
      BY <2>1, <2>3, <3>1, <3>2, <3>3 DEF OwnOK
  <2> QED
    BY <2>1, <2>2, <2>3 DEF Flush
<1>6. ASSUME Resolve PROVE OwnOK'
  <2>1. /\ ~ Walking /\ ~ Walking' /\ UNCHANGED <<syms, pend, job, buf, history>>
    BY <1>6 DEF Resolve, Walking
  <2>2. ASSUME NEW f \in File, Settled(f) PROVE Own(f)' = Own(f)
    <3>1. \A e \in Resolved(syms, pend, Scope) : ~ (e.from = f /\ e.to = f)
      <4> SUFFICES ASSUME NEW e \in Resolved(syms, pend, Scope), e.from = f, e.to = f
                   PROVE  FALSE
        OBVIOUS
      <4>1. e.name \in Deferred(pend[f]) /\ Defines(syms, f, e.name)
        BY DEF Resolved, Target
      <4>2. pend[f] = syms[f]
        BY <2>2, <4>1, PendingMatches DEF Defines
      <4> QED
        BY <4>1, <4>2 DEF Deferred, Defines
    <3>2. \A e \in ResolvePassEdges(Scope) : e.from # e.to
      BY DEF ResolvePassEdges
    <3>3. \/ UNCHANGED edges
          \/ edges' = (edges \ ResolvePassEdges(Scope)) \cup Resolved(syms, pend, Scope)
      BY <1>6 DEF Resolve
    <3> QED
      BY <3>1, <3>2, <3>3 DEF Own
  <2>3. \A f \in File : Settled(f)' => Settled(f)
    BY <2>1 DEF Settled
  <2> QED
    BY <2>1, <2>2, <2>3 DEF OwnOK
<1>7. ASSUME NEW f \in File, Reap(f) PROVE OwnOK'
  <2>1. \A g \in File : g # f => /\ syms'[g] = syms[g]
                                 /\ g \in history'.lost <=> g \in history.lost
    BY <1>7 DEF Reap, TypeOK
  <2>2. /\ syms'[f] = None /\ ~ Walking /\ ~ Walking' /\ UNCHANGED <<job, buf>>
    BY <1>7 DEF Reap, Walking, TypeOK
  <2>3. Own(f)' = {} /\ \A g \in File : g # f => Own(g)' = Own(g)
    BY <1>7, OwnCleared DEF Reap
  <2> QED
    BY <2>1, <2>2, <2>3 DEF OwnOK, Settled
<1>8. ASSUME Reaped \/ NextSecond \/ Upgrade \/ Cancel PROVE OwnOK'
  <2>1. /\ UNCHANGED <<syms, edges, job, buf>> /\ history'.lost = history.lost
        /\ Walking' <=> Walking
    BY <1>8 DEF Reaped, NextSecond, Upgrade, Cancel, Walking, TypeOK
  <2> QED
    BY <2>1 DEF OwnOK, Own, Settled
<1>9. ASSUME Drop, UNCHANGED <<syms, edges>>,
             \A f \in File : Settled(f)' => Settled(f)
      PROVE  OwnOK'
  BY <1>9 DEF Drop, OwnOK, Own
<1>10. ASSUME Finish \/ Abandon PROVE OwnOK'
  <2>1. CASE Finish
    BY <1>9, <2>1 DEF Finish, Settled, StageOK, Walking, TypeOK
  <2>2. CASE Abandon
    BY <1>9, <2>2 DEF Abandon, Settled, JobsDone, TypeOK
  <2> QED
    BY <1>10, <2>1, <2>2
<1>11. ASSUME NEW f \in File, Edit(f) PROVE OwnOK'
  BY <1>11 DEF Edit, OwnOK, Own, Settled, Walking
<1>12. ASSUME Crash PROVE OwnOK'
  <2>1. Drop /\ \A f \in File : Settled(f)' => Settled(f)
    <3>1. PICK unhinged : Die(unhinged)
      BY <1>12 DEF Crash
    <3> QED
      BY <3>1 DEF Die, Settled, Cleared, TypeOK
  <2>2. CASE UNCHANGED db
    BY <1>9, <2>1, <2>2
  <2>3. ASSUME NEW f \in reap, syms' = [syms EXCEPT ![f] = None],
               edges' = EdgesWithout(f)
        PROVE  OwnOK'
    <3>1. f \in File /\ syms'[f] = None
          /\ \A g \in File : g # f => syms'[g] = syms[g]
      BY <2>3 DEF TypeOK
    <3>2. Own(f)' = {} /\ \A g \in File : g # f => Own(g)' = Own(g)
      BY <2>3, <3>1, OwnCleared
    <3> QED
      BY <2>1, <3>1, <3>2 DEF OwnOK, Drop
  <2> QED
    BY <1>12, <2>2, <2>3 DEF Crash
<1>13. CASE UNCHANGED vars
  BY <1>13 DEF vars, OwnOK, Own, Settled, Walking
<1>14. ASSUME HashesGo PROVE OwnOK'
  BY <1>14 DEF HashesGo, OwnOK, Own, Settled, Walking
<1> QED
  BY <1>1, <1>2, <1>3, <1>4, <1>5, <1>6, <1>7, <1>8, <1>10, <1>11, <1>12,
     <1>13, <1>14 DEF AnyStep, Pass, FileStep, Around
-----------------------------------------------------------------------------
(* The resolve scope.                                                      *)

\* Every step keeps the edges that are not of its files.
LEMMA ScopeStep ==
  TrustInv /\ CrossingOK /\ ScopeOK /\ [AnyStep]_vars => ScopeOK'
<1> SUFFICES ASSUME TypeOK, BufferOK, StageOK, CrossingOK, ScopeOK, [AnyStep]_vars
             PROVE  ScopeOK'
  BY DEF TrustInv, Inv
<1> USE DEF db, walk, tree
<1>1. ASSUME NEW k \in Kind, Start(k) PROVE ScopeOK'
  <2>1. history'.before = edges /\ edges' = edges
        /\ extracted' = {} /\ referrers' = {} /\ job' = job
        /\ \A f \in File : job[f] = "none"
    BY <1>1 DEF Start, BufferOK, TypeOK
  <2> QED
    BY <2>1 DEF ScopeOK, TypeOK, Edge
<1>2. ASSUME NEW f \in File, Walk(f) PROVE ScopeOK'
  <2>1. pc = "walk" /\ history'.before = history.before /\ UNCHANGED <<edges, pc>>
    BY <1>2 DEF Walk, TypeOK
  <2>2. CASE extracted' = extracted /\ referrers' = referrers /\ job' = job
    BY <2>1, <2>2 DEF ScopeOK
  <2>3. CASE /\ extracted' = extracted \cup {f} /\ job' = [job EXCEPT ![f] = "read"]
             /\ referrers' = referrers \cup FilesWithEdgesToFile(f)
    <3>1. \A g \in File : job'[g] # "none" => g \in extracted'
      BY <2>3 DEF ScopeOK, TypeOK
    <3>2. ASSUME NEW e \in history.before, e.from \notin extracted' \cup referrers'
          PROVE  e \in edges /\ job'[e.to] = "none"
      <4>1. e \in edges /\ job[e.to] = "none" /\ e.from # f
        BY <2>1, <2>3, <3>2 DEF ScopeOK
      <4>2. e.from \in File /\ e.to \in File
        BY DEF TypeOK, Edge
      <4>3. e.to # f
        BY <2>3, <3>2, <4>1, <4>2 DEF FilesWithEdgesToFile
      <4> QED
        BY <2>3, <4>1, <4>2, <4>3 DEF TypeOK
    <3> QED
      BY <2>1, <2>3, <3>1, <3>2 DEF ScopeOK
  <2> QED
    BY <1>2, <2>2, <2>3 DEF Walk, Referrers
<1>3. ASSUME NEW f \in File, ClearFile(f) PROVE ScopeOK'
  <2>1. /\ job[f] = "read" /\ \A g \in File : job'[g] # "none" => job[g] # "none"
        /\ history'.before = history.before /\ edges' = EdgesWithout(f)
        /\ \A g \in File : job[g] = "none" => job'[g] = "none"
        /\ UNCHANGED <<pc, extracted, referrers>>
    BY <1>3 DEF ClearFile, TypeOK
  <2> QED
    BY <2>1 DEF ScopeOK, EdgesWithout, TypeOK, Edge
<1>4. ASSUME NEW f \in File, CommitFile(f) PROVE ScopeOK'
  <2>1. /\ \A g \in File : job'[g] # "none" => job[g] # "none"
        /\ history'.before = history.before
        /\ UNCHANGED <<pc, extracted, referrers, edges>>
    BY <1>4 DEF CommitFile, TypeOK
  <2> QED
    BY <2>1 DEF ScopeOK, TypeOK, Edge
<1>5. ASSUME FlushBatch \/ FinalFlush PROVE ScopeOK'
  <2>1. /\ edges \subseteq edges' /\ history'.before = history.before
        /\ pc' \in {"walk", "resolve"} => pc \in {"walk", "resolve"}
        /\ UNCHANGED <<extracted, referrers, job>>
    BY <1>5 DEF FlushBatch, FinalFlush, Flush, FlushEdges, TypeOK
  <2> QED
    BY <2>1 DEF ScopeOK
<1>6. ASSUME \/ Resolve \/ Reaped \/ NextSecond \/ Upgrade \/ Cancel
             \/ \E f \in File : Reap(f) \/ Edit(f)
      PROVE  ScopeOK'
  BY <1>6 DEF Resolve, Reaped, NextSecond, Upgrade, Cancel, Reap, Edit, ScopeOK, TypeOK
<1>7. ASSUME Finish \/ Abandon \/ Crash PROVE ScopeOK'
  BY <1>7 DEF Finish, Abandon, Crash, Die, Drop, ScopeOK
<1>8. CASE UNCHANGED vars
  BY <1>8 DEF vars, ScopeOK
<1>9. ASSUME HashesGo PROVE ScopeOK'
  BY <1>9 DEF HashesGo, ScopeOK
<1> QED
  BY <1>1, <1>2, <1>3, <1>4, <1>5, <1>6, <1>7, <1>8, <1>9
     DEF AnyStep, Pass, FileStep, Around

-----------------------------------------------------------------------------
(* What the resolve leaves.                                                *)

\* An edge the resolve pass makes is that of the symbols, once every row is
\* trusted.
LEMMA ResolvedOfSymbols ==
  ASSUME TypeOK, \A f \in File : syms[f] # None => pend[f] = syms[f],
         NEW scope \in SUBSET File
  PROVE  Resolved(syms, pend, scope) = Resolved(syms, syms, scope)
BY DEF Resolved

\* A project-wide resolve leaves the extractor's edges and those it makes.
LEMMA ResolvedWhole ==
  ASSUME TypeOK, CrossingOK, Resolve, ~ Scoped, ~ (kind = "index" /\ extracted = {})
  PROVE  edges' = {e \in edges : e.from = e.to} \cup Resolved(syms, pend, File)
<1>1. Scope = File
  BY DEF Scope
<1>2. CASE edges' = (edges \ ResolvePassEdges(Scope)) \cup Resolved(syms, pend, Scope)
  BY <1>1, <1>2 DEF ResolvePassEdges, TypeOK, Edge
<1>3. CASE Pending(File) = {} /\ UNCHANGED edges
  <2>1. Resolved(syms, pend, File) = {}
    BY <1>3 DEF Resolved, Pending
  <2>2. \A e \in edges : e.from = e.to
    BY <1>3 DEF CrossingOK, Pending, TypeOK, Edge
  <2> QED
    BY <1>3, <2>1, <2>2
<1> QED
  BY <1>2, <1>3 DEF Resolve

\* So a full pass leaves the edges of the symbols.
LEMMA ResolvedFull ==
  ASSUME TypeOK, RowsOK, CrossingOK, OwnOK, Resolve, Full,
         \A f \in File : Settled(f)
  PROVE  edges' = IdealEdges(syms)
<1>1. ~ Scoped /\ ~ (kind = "index" /\ extracted = {})
  BY DEF Full, Scoped
<1>2. Resolved(syms, pend, File) = Resolved(syms, syms, File)
  BY PendingMatches, ResolvedOfSymbols
<1>3. {e \in edges : e.from = e.to}
        = UNION {LocalEdges(f, syms[f]) : f \in {g \in File : syms[g] # None}}
  <2>1. \A f \in File : Own(f) = IF syms[f] = None THEN {} ELSE LocalEdges(f, syms[f])
    BY DEF OwnOK
  <2>2. \A e \in edges : e.from = e.to => e.from \in File /\ e \in Own(e.from)
    BY DEF Own, TypeOK, Edge
  <2>3. \A f \in File : \A e \in Own(f) : e \in edges /\ e.from = e.to
    BY DEF Own
  <2> QED
    BY <2>1, <2>2, <2>3
<1> QED
  BY <1>1, <1>2, <1>3, ResolvedWhole DEF IdealEdges

\* And every pass leaves an edge of every call that had one.
LEMMA ResolvedCall ==
  ASSUME TypeOK, RowsOK, CrossingOK, OwnOK, ScopeOK, Resolve,
         \A f \in File : Settled(f), NEW e \in history.before
  PROVE  CallKept(e)'
<1>1. UNCHANGED <<syms, history, pend>>
  BY DEF Resolve
<1> SUFFICES ASSUME syms[e.from] # None, e.name \in Calls[syms[e.from]],
                    Target(syms, e.name) # {}
             PROVE  \E d \in edges' : d.from = e.from /\ d.name = e.name
  BY <1>1 DEF CallKept, Target, Defines
<1>2. e.from \in File /\ e.name \in Name /\ pend[e.from] = syms[e.from]
  BY PendingMatches DEF TypeOK, Edge
<1>3. PICK g \in File : g \in Target(syms, e.name)
  BY DEF Target
<1> DEFINE made == [from |-> e.from, to |-> g, name |-> e.name]
<1>4. CASE e.name \in Defs[syms[e.from]]
  <2> DEFINE own == [from |-> e.from, to |-> e.from, name |-> e.name]
  <2>1. own \in LocalEdges(e.from, syms[e.from])
    BY <1>4 DEF LocalEdges
  <2>2. own \in edges /\ own.from = own.to
    BY <1>2, <2>1 DEF OwnOK, Own
  <2>3. own \in edges'
    BY <2>2 DEF Resolve, ResolvePassEdges
  <2> QED
    BY <2>3
<1>5. CASE e.name \notin Defs[syms[e.from]]
  <2>1. e.name \in Deferred(pend[e.from])
    BY <1>2, <1>5 DEF Deferred
  <2>2. CASE e.from \in Scope /\ ~ (kind = "index" /\ extracted = {})
    <3>1. made \in Resolved(syms, pend, Scope)
      BY <1>2, <1>3, <2>1, <2>2 DEF Resolved, Scope
    <3>2. Scope # File \/ Pending(File) # {}
      BY <1>2, <2>1 DEF Pending
    <3>3. ~ (~ Scoped /\ Pending(File) = {})
      BY <3>2 DEF Scope
    <3>4. edges' = (edges \ ResolvePassEdges(Scope)) \cup Resolved(syms, pend, Scope)
      BY <2>2, <3>3 DEF Resolve
    <3> QED
      BY <3>1, <3>4
  <2>3. CASE kind = "index" /\ extracted = {}
    BY <2>3 DEF Resolve, ScopeOK
  <2>4. CASE e.from \notin Scope
    <3>1. e \in edges
      BY <1>2, <2>4 DEF Scope, ScopeOK, Resolve
    <3> QED
      BY <2>4, <3>1 DEF Resolve, ResolvePassEdges
  <2> QED
    BY <2>2, <2>3, <2>4
<1> QED
  BY <1>4, <1>5

\* Every step keeps what the resolve has left, until a file is removed.
LEMMA ResultStep ==
  TrustInv /\ RowsOK /\ CrossingOK /\ OwnOK /\ ScopeOK /\ ResultOK /\ [AnyStep]_vars
    => ResultOK'
<1> SUFFICES ASSUME TypeOK, BufferOK, StageOK, RowsOK, CrossingOK, OwnOK,
                    ScopeOK, ResultOK, [AnyStep]_vars
             PROVE  ResultOK'
  BY DEF TrustInv, Inv
<1> USE DEF db, walk, tree
<1>1. ASSUME Resolve PROVE ResultOK'
  <2>1. ~ Walking /\ UNCHANGED <<syms, kind, extracted, history>>
    BY <1>1 DEF Resolve, Walking
  <2>2. ASSUME history.lost = {}
        PROVE  /\ \A e \in history.before : CallKept(e)'
               /\ Full => edges' = IdealEdges(syms)
    <3>1. \A f \in File : Settled(f)
      BY <2>1, <2>2 DEF Settled, StageOK
    <3> QED
      BY <1>1, <3>1, ResolvedCall, ResolvedFull
  <2>3. IdealEdges(syms)' = IdealEdges(syms)
    BY <2>1 DEF IdealEdges, Resolved, Target, Defines
  <2> QED
    BY <2>1, <2>2, <2>3 DEF ResultOK, Undisturbed, Full
<1>2. ASSUME UNCHANGED <<syms, edges, kind, extracted>>,
             history'.before = history.before, Undisturbed' => Undisturbed
      PROVE  ResultOK'
  <2>1. IdealEdges(syms)' = IdealEdges(syms)
    BY <1>2 DEF IdealEdges, Resolved, Target, Defines
  <2>2. \A e : CallKept(e)' <=> CallKept(e)
    BY <1>2 DEF CallKept, Target, Defines
  <2> QED
    BY <1>2, <2>1, <2>2 DEF ResultOK, Full
<1>3. ASSUME Reaped \/ NextSecond \/ UNCHANGED vars PROVE ResultOK'
  BY <1>2, <1>3 DEF Reaped, NextSecond, vars, Undisturbed
<1>4. ASSUME NEW f \in File, Edit(f) PROVE ResultOK'
  BY <1>2, <1>4 DEF Edit, Undisturbed
<1>5. ASSUME NEW f \in File, Reap(f) PROVE ResultOK'
  BY <1>5 DEF Reap, ResultOK, Undisturbed, TypeOK
<1>6. ASSUME ~ (pc' \in {"gc", "finish"}) PROVE ResultOK'
  BY <1>6 DEF ResultOK, Undisturbed
<1>7. ASSUME NEW f \in File, Walk(f) \/ ClearFile(f) \/ CommitFile(f) PROVE ResultOK'
  BY <1>6, <1>7 DEF Walk, ClearFile, CommitFile, Walking
<1>8. ASSUME \/ FlushBatch \/ FinalFlush \/ Finish \/ Abandon \/ Cancel \/ Crash \/ Upgrade
             \/ \E k \in Kind : Start(k)
      PROVE  ResultOK'
  BY <1>6, <1>8 DEF FlushBatch, FinalFlush, Finish, Abandon, Cancel, Crash, Die, Drop,
                    Upgrade, Start, Walking
<1>9. ASSUME HashesGo PROVE ResultOK'
  BY <1>2, <1>9 DEF HashesGo, Undisturbed
<1> QED
  BY <1>1, <1>3, <1>4, <1>5, <1>7, <1>8, <1>9 DEF AnyStep, Pass, FileStep, Around

-----------------------------------------------------------------------------
CallsInv == TrustInv /\ RowsOK /\ CrossingOK /\ OwnOK /\ ScopeOK /\ ResultOK

\* CallsInv is an inductive invariant of the pass.
THEOREM CallsCorrect == Passes => []CallsInv
<1>1. Init => RowsOK /\ CrossingOK /\ OwnOK /\ ScopeOK /\ ResultOK
  <2> SUFFICES ASSUME Init PROVE RowsOK /\ CrossingOK /\ OwnOK /\ ScopeOK /\ ResultOK
    OBVIOUS
  <2>1. RowsOK /\ CrossingOK /\ ScopeOK /\ ResultOK
    BY DEF Init, RowsOK, CrossingOK, ScopeOK, ResultOK, Undisturbed
  <2>2. OwnOK
    BY DEF Init, OwnOK, Own
  <2> QED
    BY <2>1, <2>2
<1>2. RowsOK /\ CrossingOK /\ OwnOK /\ ScopeOK /\ ResultOK /\ TrustInv /\ [AnyStep]_vars
        => (RowsOK /\ CrossingOK /\ OwnOK /\ ScopeOK /\ ResultOK)'
  BY RowsStep, CrossingStep, OwnStep, ScopeStep, ResultStep
<1> QED
  BY <1>1, <1>2, TrustCorrect, PTL DEF Passes, CallsInv

\* A call that had an edge when the pass began, that its file still makes and
\* whose name some file still defines has an edge when the pass ends, for any
\* number of files and in whichever order goroutines deleted edges: the union
\* of the re-extracted files and their referrers is a scope that is wide enough
\* (#457, #1678).
THEOREM NoCallIsLost == Spec => []NoCallLost
<1>1. CallsInv => NoCallLost
  BY DEF CallsInv, ResultOK, Undisturbed, CallKept, NoCallLost, Clean
<1> QED
  BY CallsCorrect, IndexerPasses, <1>1, PTL

\* What a full pass leaves, from the invariant.
LEMMA FullIsExact == CallsInv => FullPassIsExact
<1>1. ASSUME CallsInv, Clean, Full PROVE edges = IdealEdges(Shown(read))
  <2>1. TypeOK /\ StageOK /\ RowsOK /\ ResultOK
    BY <1>1 DEF CallsInv, TrustInv, Inv
  <2>2. \A f \in File : Settled(f) /\ f \notin reap /\ job[f] = "none"
    BY <1>1, <2>1 DEF Clean, StageOK, Settled, Walking
  <2>3. \A f \in File : syms[f] = IF read[f] = None THEN None ELSE Visible(read[f])
    BY <1>1, <2>1, <2>2 DEF Clean, RowsOK
  <2>4. syms = Shown(read)
    BY <2>1, <2>3 DEF Shown, TypeOK
  <2> QED
    BY <1>1, <2>1, <2>4 DEF Clean, ResultOK, Undisturbed
<1> QED
  BY <1>1 DEF FullPassIsExact, Full

\* A forced pass, and a self-heal that extracts nothing, leave exactly the edges
\* of the tree they have read, whatever passes and faults came before.
THEOREM FullPassExact == Spec => []FullPassIsExact
BY CallsCorrect, IndexerPasses, FullIsExact, PTL

-----------------------------------------------------------------------------
(* Beside the watcher.                                                     *)

\* The watcher's own variables keep their types too, and the lock is held by
\* someone exactly as long as a pass is under way.
THEOREM WTypeCorrect == WSpec => []WTypeOK
<1> DEFINE WOwn ==
      /\ known \in BOOLEAN
      /\ owner \in {"none", "watcher", "tool", "cli"}
      /\ wpc \in {"idle", "invalidate", "index", "indexing", "heal", "healing"}
      /\ changed \subseteq File
      /\ selfHealNeeded \in BOOLEAN
      /\ sinceHeal \in 0 .. HealThreshold - 1
      /\ calls \in 0 .. MaxCalls
      /\ owner = "none" <=> pc = "idle"
<1>1. WInit => WOwn
  <2> SUFFICES ASSUME WInit PROVE WOwn
    OBVIOUS
  <2>1. sinceHeal = 0 /\ 0 \in 0 .. HealThreshold - 1
        /\ calls = 0 /\ 0 \in 0 .. MaxCalls
    BY WatcherConstantsOK DEF WInit
  <2>2. pc = "idle"
    BY DEF WInit, Init
  <2> QED
    BY <2>1, <2>2 DEF WInit
<1>2. ASSUME TypeOK, WOwn, [WNext]_wvars PROVE WOwn'
  <2>1. ASSUME NEW who \in {"watcher", "tool", "cli"}, NEW k \in Kind, StartFor(who, k)
        PROVE  known' = TRUE /\ owner' = who /\ pc' = "walk"
    BY <2>1 DEF StartFor, Start
  <2>2. CASE FirstIndex
    <3>1. known' = TRUE /\ owner' = "tool" /\ pc' = "walk"
      BY <2>1, <2>2 DEF FirstIndex, Kind
    <3> QED
      BY <1>2, <2>2, <3>1 DEF FirstIndex, watcher
  <2>3. CASE Call
    <3>1. calls' \in 0 .. MaxCalls /\ UNCHANGED watcher
      BY <1>2, <2>3, WatcherConstantsOK DEF Call
    <3>2. known' = TRUE /\ owner' \in {"tool", "cli"} /\ pc' = "walk"
      BY <2>1, <2>3, ConstantsOK, WatcherConstantsOK DEF Call
    <3> QED
      BY <1>2, <3>1, <3>2 DEF watcher
  <2>4. CASE PassStep
    <3>1. Pass => pc # "idle"
      BY DEF Pass, FileStep, Walk, ClearFile, CommitFile, Reap, FlushBatch, FinalFlush,
             Resolve, Reaped, Finish, Abandon, Walking
    <3>2. owner' \in {"none", "watcher", "tool", "cli"} /\ (owner' = "none" <=> pc' = "idle")
      BY <1>2, <2>4, <3>1 DEF PassStep
    <3>3. UNCHANGED <<known, watcher, calls>>
      BY <2>4 DEF PassStep
    <3> QED
      BY <1>2, <3>2, <3>3 DEF watcher
  <2>5. ASSUME Count
        PROVE  /\ wpc' \in {"idle", "heal"} /\ selfHealNeeded' \in BOOLEAN
               /\ sinceHeal' \in 0 .. HealThreshold - 1 /\ changed' = changed
    <3>1. sinceHeal' \in 0 .. HealThreshold - 1
      <4>1. sinceHeal \in Nat /\ HealThreshold \in Nat /\ HealThreshold > 0
        BY <1>2, WatcherConstantsOK
      <4>2. CASE sinceHeal + 1 >= HealThreshold
        BY <2>5, <4>1, <4>2 DEF Count
      <4>3. CASE ~ (sinceHeal + 1 >= HealThreshold)
        BY <2>5, <4>1, <4>3 DEF Count
      <4> QED
        BY <4>2, <4>3
    <3> QED
      BY <2>5, <3>1 DEF Count
  <2>6. CASE Tick
    <3>1. /\ UNCHANGED <<vars, known, owner, calls>>
          /\ wpc' \in {"invalidate", "heal"}
          /\ changed' \in {changed, ChangedFiles}
          /\ selfHealNeeded' \in {selfHealNeeded, FALSE}
          /\ sinceHeal' \in {sinceHeal, 0}
      BY <2>6 DEF Tick
    <3>2. ChangedFiles \subseteq File
      BY <1>2 DEF ChangedFiles, TypeOK
    <3>3. 0 \in 0 .. HealThreshold - 1
      BY WatcherConstantsOK
    <3> QED
      BY <1>2, <3>1, <3>2, <3>3 DEF vars
  <2>7. CASE Invalidate
    BY <1>2, <2>7 DEF Invalidate
  <2>8. CASE StartIndex
    <3>1. CASE /\ StartFor("watcher", "index") /\ wpc' = "indexing"
               /\ UNCHANGED <<changed, selfHealNeeded, sinceHeal, calls>>
      <4>1. known' = TRUE /\ owner' = "watcher" /\ pc' = "walk"
        BY <2>1, <3>1 DEF Kind
      <4> QED
        BY <1>2, <3>1, <4>1
    <3>2. CASE Count /\ UNCHANGED <<vars, known, owner, calls>>
      BY <1>2, <2>5, <3>2 DEF vars
    <3> QED
      BY <2>8, <3>1, <3>2 DEF StartIndex
  <2>9. CASE IndexReturns
    BY <1>2, <2>5, <2>9 DEF IndexReturns, vars
  <2>10. CASE StartHeal
    <3>1. CASE StartFor("watcher", "heal") /\ wpc' = "healing"
      <4>1. known' = TRUE /\ owner' = "watcher" /\ pc' = "walk"
        BY <2>1, <3>1 DEF Kind
      <4> QED
        BY <1>2, <2>10, <3>1, <4>1 DEF StartHeal
    <3>2. CASE wpc' = "idle" /\ UNCHANGED <<vars, known, owner>>
      BY <1>2, <2>10, <3>2 DEF StartHeal, vars
    <3> QED
      BY <2>10, <3>1, <3>2 DEF StartHeal
  <2>11. CASE HealReturns
    BY <1>2, <2>11 DEF HealReturns, vars
  <2>12. CASE Edits
    BY <1>2, <2>12 DEF Edits, Edit, NextSecond, watcher
  <2>13. CASE Upgraded
    <3>1. /\ wpc' = "idle" /\ changed' = {} /\ selfHealNeeded' = FALSE /\ sinceHeal' = 0
          /\ UNCHANGED <<pc, known, owner, calls>>
      BY <2>13 DEF Upgraded, Upgrade, Forget
    <3>2. 0 \in 0 .. HealThreshold - 1
      BY WatcherConstantsOK
    <3> QED
      BY <1>2, <3>1, <3>2
  <2>14. CASE UNCHANGED wvars
    BY <1>2, <2>14 DEF wvars, vars, watcher
  <2> QED
    BY <1>2, <2>2, <2>3, <2>4, <2>6, <2>7, <2>8, <2>9, <2>10, <2>11, <2>12, <2>13, <2>14
       DEF WNext, Watch
<1>3. WSpec => []TypeOK
  <2>1. Inv => TypeOK
    BY DEF Inv
  <2> QED
    BY WatcherPasses, InvCorrect, <2>1, PTL
<1>4. TypeOK /\ WOwn => WTypeOK
  BY DEF WTypeOK
<1> QED
  BY <1>1, <1>2, <1>3, <1>4, PTL DEF WSpec

\* The watcher may clear hashes, heal and start passes at any moment of a pass
\* of another process, which the lock does not keep it from: what a reader sees
\* in the middle of one, what the next one may trust, and what each one leaves
\* of the calls are as without it.
THEOREM WatchedPassesAreSafe ==
  WSpec => /\ []NoDanglingEdge
           /\ []HashTrusted /\ []MtimeTrusted /\ []StampIsHonest
           /\ []NoCallLost /\ []FullPassIsExact
<1>1. CallsInv => /\ NoDanglingEdge /\ HashTrusted /\ MtimeTrusted /\ StampIsHonest
                  /\ NoCallLost
  <2>1. CallsInv => NoDanglingEdge /\ StampIsHonest
    BY DEF CallsInv, TrustInv, Inv, StampOK, StampIsHonest, Leftover
  <2>2. CallsInv => HashTrusted
    BY DEF CallsInv, TrustInv, Inv, StageOK, HashOK, HashTrusted, Settled, Trusted, Walking
  <2>3. CallsInv => MtimeTrusted
    BY DEF CallsInv, TrustInv, Inv, StageOK, MtimeOK, MtimeTrusted, Walking
  <2>4. CallsInv => NoCallLost
    BY DEF CallsInv, ResultOK, Undisturbed, CallKept, NoCallLost, Clean
  <2> QED
    BY <2>1, <2>2, <2>3, <2>4
<1> QED
  BY WatcherPasses, CallsCorrect, <1>1, FullIsExact, PTL

\* And readers are promised the same index.
THEOREM WatchedReadersServed == WSpec => ImplementsGraphStore
BY WatcherPasses, PassesServe, PTL
=============================================================================
