------------------------------- MODULE Changes -------------------------------
(***************************************************************************)
(* What the changes tool answers (handleChanges in internal/server/        *)
(* server.go): which symbols of a file an edit touched, from the hunks of  *)
(* git diff --unified=0 and the lines the index has for each symbol, and   *)
(* which symbols and tests reach them.                                     *)
(*                                                                         *)
(* An edit is a sequence of lines in the order of the diff: each is kept,  *)
(* deleted or inserted, and belongs to symbols, one within the other, or   *)
(* to none.  The symbols' lines are those of the edited file, on which the *)
(* index was brought up to date.  That is not so for scope=staged or base  *)
(* when the working tree differs from what was diffed: hunks then count    *)
(* the lines of another text.                                              *)
(***************************************************************************)
EXTENDS Traversal, SequencesExt

Nobody == "nobody"

-----------------------------------------------------------------------------
(* The edited file and its diff.                                           *)

IsNew(line) == line.op # "deleted"

\* The number of lines of the edited file up to place i of the edit.
NewLine(edit, i) == Cardinality({j \in 1 .. i : IsNew(edit[j])})

\* Where a symbol's lines are.
Mine(edit, sym) == {i \in DOMAIN edit : sym \in edit[i].owners}

\* The lines of the edited file from a symbol's first to its last one.
Lines(edit, sym) ==
    LET at == {NewLine(edit, i) : i \in {j \in Mine(edit, sym) : IsNew(edit[j])}}
    IN  [first |-> Min(at), last |-> Max(at)]

\* Places that follow each other and are not kept, as long as can be.
Runs(edit) ==
    LET changed(i, j) == \A k \in i .. j : edit[k].op # "kept"
        stops(k) == k \notin DOMAIN edit \/ edit[k].op = "kept"
    IN  {r \in (DOMAIN edit) \X (DOMAIN edit) :
            r[1] <= r[2] /\ changed(r[1], r[2])
            /\ stops(r[1] - 1) /\ stops(r[2] + 1)}

\* The +start,count of a run's hunk: when nothing was inserted, git gives
\* the line before it.
HunkHeader(edit, r) ==
    LET before == NewLine(edit, r[1] - 1)
        count == NewLine(edit, r[2]) - before
    IN  [start |-> IF count = 0 THEN before ELSE before + 1, count |-> count]

-----------------------------------------------------------------------------
(* The symbols that an edit touched.                                       *)

\* Mutant: a pure deletion is an empty range.
HunkRangesEmpty(headers) ==
    {[first |-> h.start, last |-> h.start + h.count - 1] :
        h \in {g \in headers : g.start > 0}}

\* parseGitDiffHunks: a deletion touches the line before it, and one at the
\* top of the file is skipped.
HunkRanges(headers) ==
    {[first |-> h.start,
      last |-> IF h.count = 0 THEN h.start ELSE h.start + h.count - 1] :
        h \in {g \in headers : g.start > 0}}

\* symbolOverlapsHunks
Overlaps(lines, ranges) ==
    \E r \in ranges : lines.first <= r.last /\ lines.last >= r.first

\* Of the symbols that the edited file has; all of them, when git gave no
\* hunk (or failed).
ChangedSymbols(edit, syms, diffed) ==
    LET ranges == IF diffed THEN HunkRanges({HunkHeader(edit, r) : r \in Runs(edit)})
                  ELSE {}
    IN  {s \in syms : ranges = {} \/ Overlaps(Lines(edit, s), ranges)}

-----------------------------------------------------------------------------
(* Who reaches them.  changed is in the order of files and lines.          *)

InboundHops(graph, closure, enabled, sym, depth) ==
    TraceByID(graph, closure, enabled, CallKinds, sym, "inbound", depth)

Ids(hops) == {h.id : h \in hops}

\* impacted: each symbol once, with the depth from the first changed symbol
\* that it reaches, which need not be the nearest.
Impacted(graph, closure, enabled, changed, depth) ==
    LET hops(i) == InboundHops(graph, closure, enabled, changed[i], depth)
        first(id) == Min({i \in DOMAIN changed : id \in Ids(hops(i))})
    IN  {h \in UNION {hops(i) : i \in DOMAIN changed} :
            h \in hops(first(h.id))}

\* testHits: how many changed symbols each test reaches.
TestsToRun(graph, closure, enabled, changed, depth) ==
    LET hit(id) == {i \in DOMAIN changed :
            id \in Ids(InboundHops(graph, closure, enabled, changed[i], depth))}
    IN  {[id |-> t, overlap |-> Cardinality(hit(t))] :
            t \in {u \in graph.rows : graph.label[u] = "test" /\ hit(u) # {}}}

-----------------------------------------------------------------------------
(* Reference: what an edit did to a symbol.                                *)

\* Its text changed: a line of it, or one between two of its lines.
TextChanged(edit, sym) ==
    LET mine == Mine(edit, sym)
        kept == {i \in mine : IsNew(edit[i])}
    IN  \/ \E i \in mine : edit[i].op # "kept"
        \/ \E i \in DOMAIN edit :
            edit[i].op = "inserted" /\ Min(kept) < i /\ i < Max(kept)

\* Its first lines went, and no new line of it came in their place: the hunk
\* then ends before the symbol.
HeadGone(edit, sym) ==
    LET first == Min(Mine(edit, sym)) IN
    /\ edit[first].op = "deleted"
    /\ \E r \in Runs(edit) : r[1] <= first /\ first <= r[2]
        /\ \A k \in r[1] .. r[2] : edit[k].op = "inserted" => sym \notin edit[k].owners

\* Its last lines went, and lines outside of it came in the same place: the
\* hunk then begins after the symbol.
EndReplaced(edit, sym) ==
    LET last == Max(Mine(edit, sym)) IN
    /\ edit[last].op = "deleted"
    /\ \E r \in Runs(edit) : r[1] <= last /\ last <= r[2]
        /\ \E k \in r[1] .. r[2] :
            edit[k].op = "inserted" /\ sym \notin edit[k].owners

\* What is known of a symbol of the edited file: it has a line there, and in
\* the file before the edit its lines followed each other.
HasLines(edit, sym) == \E i \in Mine(edit, sym) : IsNew(edit[i])
InOnePiece(edit, sym) ==
    \A i, k \in Mine(edit, sym) : \A j \in i .. k :
        j \in Mine(edit, sym) \/ edit[j].op = "inserted"
=============================================================================
