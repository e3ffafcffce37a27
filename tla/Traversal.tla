----------------------------- MODULE Traversal ------------------------------
(***************************************************************************)
(* Walks over the edges of a project.  Four pieces of code compute them:   *)
(* BuildClosure, which stores for each symbol what it reaches and how far  *)
(* away (internal/db/closure.go); TraceViaClosure, which reads that table; *)
(* traceViaCTE, which lets SQL walk (internal/db/db.go); and runBFS of the *)
(* query engine (internal/cypher/engine.go), which walks from either end   *)
(* of the pattern.  TraceByID (internal/index/indexer.go) picks one of the *)
(* first two and handleTrace (internal/server/server.go) cuts its answer.  *)
(*                                                                         *)
(* A graph is a record: its edges, and the symbols that have a row.  An    *)
(* edge may lead to a symbol without one.  The limits of 500 rows, 100     *)
(* starts and maxRows are left out, and so is via, the kind of an edge of  *)
(* the walk, on which the closure and the CTE differ (see the README).     *)
(***************************************************************************)
EXTENDS Integers, Sequences, FiniteSets, FiniteSetsExt

\* The kinds BuildClosure follows, and TraceByID by default.
CallKinds == {"CALLS", "HTTP_CALLS", "ASYNC_CALLS"}

\* What an id is joined with: the other ends of its edges of these kinds.
Neighbours(edges, kinds, dir, ids) ==
    {e.to : e \in {f \in edges : dir = "outbound" /\ f.kind \in kinds
                                 /\ f.from \in ids}}
    \cup
    {e.from : e \in {f \in edges : dir = "inbound" /\ f.kind \in kinds
                                   /\ f.to \in ids}}

-----------------------------------------------------------------------------
(* The closure table.                                                      *)

\* Mutant: nodes that were seen are visited again.
FrontiersUnseen(edges, source, depth) ==
    LET f[d \in 0 .. depth] ==
            IF d = 0 THEN [new |-> {source}, seen |-> {source}]
            ELSE LET next == Neighbours(edges, CallKinds, "outbound", f[d - 1].new)
                 IN  [new |-> next, seen |-> f[d - 1].seen \cup next]
    IN  f

\* The search from one source: what it sees first at each depth.
Frontiers(edges, source, depth) ==
    LET f[d \in 0 .. depth] ==
            IF d = 0 THEN [new |-> {source}, seen |-> {source}]
            ELSE LET next == Neighbours(edges, CallKinds, "outbound", f[d - 1].new)
                                \ f[d - 1].seen
                 IN  [new |-> next, seen |-> f[d - 1].seen \cup next]
    IN  f

BuildClosure(edges, maxDepth) ==
    LET sources == {e.from : e \in {f \in edges : f.kind \in CallKinds}} IN
    UNION {LET f == Frontiers(edges, s, maxDepth) IN
           UNION {{[from |-> s, to |-> t, depth |-> d] : t \in f[d].new}
                  : d \in 1 .. maxDepth} : s \in sources}

\* TraceViaClosure.  Asked for both directions, it lists a symbol that is
\* found in both twice.
TraceViaClosure(closure, start, direction, maxDepth) ==
    {[id |-> r.to, depth |-> r.depth] : r \in {c \in closure :
        direction # "inbound" /\ c.from = start /\ c.depth <= maxDepth}}
    \cup
    {[id |-> r.from, depth |-> r.depth] : r \in {c \in closure :
        direction # "outbound" /\ c.to = start /\ c.depth <= maxDepth}}

-----------------------------------------------------------------------------
(* The recursive queries.                                                  *)

\* reach: the ends of the walks of each length, with repetitions of nodes.
Reach(edges, kinds, dir, start, maxDepth) ==
    LET f[d \in 0 .. maxDepth] ==
            IF d = 0 THEN {start}
            ELSE Neighbours(edges, kinds, dir, f[d - 1])
    IN  f

\* Each end once, with the length of its shortest walk of at least min.
Shortest(reach, start, min, max) ==
    LET lengths(id) == {d \in min .. max : id \in reach[d]}
        ends == (UNION {reach[d] : d \in min .. max}) \ {start}
    IN  {[id |-> id, depth |-> Min(lengths(id))] : id \in ends}

\* byID: a symbol found in both directions keeps its smaller depth.
Nearest(rows) ==
    {r \in rows : \A o \in rows : o.id = r.id => r.depth <= o.depth}

TraceViaCTE(edges, kinds, start, direction, maxDepth) ==
    LET dirs == IF direction = "both" THEN {"inbound", "outbound"}
                ELSE {direction}
    IN  Nearest(UNION {Shortest(Reach(edges, kinds, dir, start, maxDepth),
                                start, 1, maxDepth) : dir \in dirs})

-----------------------------------------------------------------------------
(* The trace tool.                                                         *)

ClampedDepth(depth) == IF depth <= 0 \/ depth > 5 THEN 3 ELSE depth

\* isDefaultTraceKinds, the flag, and the table holds rows.
TakesClosure(closure, kinds, enabled) ==
    enabled /\ kinds = CallKinds /\ closure # {}

\* TraceByID and materializeHops: a hop without a row is dropped.
TraceByID(graph, closure, enabled, kinds, start, direction, asked) ==
    LET depth == ClampedDepth(asked)
        rows == IF TakesClosure(closure, kinds, enabled)
                THEN TraceViaClosure(closure, start, direction, depth)
                ELSE TraceViaCTE(graph.edges, kinds, start, direction, depth)
    IN  {r \in rows : r.id \in graph.rows}

\* handleTrace, when no depth is given: the smallest depth that has enough
\* hops, or all of them.
Deepened(hops, depth, enough) ==
    LET upTo(d) == {h \in hops : h.depth <= d}
        full == {d \in 1 .. depth : Cardinality(upTo(d)) >= enough}
    IN  IF full = {} THEN hops ELSE upTo(Min(full))

\* handleTrace: hops that are filtered by path are dropped first; depth 0
\* stands for none given, which is 3.
Trace(graph, closure, enabled, kinds, start, direction, asked, dropped, enough) ==
    LET depth == IF asked = 0 THEN 3 ELSE asked
        hops == {h \in TraceByID(graph, closure, enabled, kinds, start,
                                 direction, depth) : h.id \notin dropped}
    IN  IF asked = 0 THEN Deepened(hops, depth, enough) ELSE hops

-----------------------------------------------------------------------------
(* MATCH (a)-[*min..max]->(b) of the query engine.  A pattern holds the    *)
(* label and the equality, if any, that is asked of each end.              *)

\* parseHops of *min..max, 0 for a bound that is not written, and the limit
\* of runBFS: bounds are swapped when they are backwards, so that *2.. is
\* 1..2, and a walk has at least one step.
Bounded(pattern) ==
    LET least == IF pattern.max < pattern.min THEN pattern.max ELSE pattern.min
        most == IF pattern.max < pattern.min THEN pattern.min ELSE pattern.max
        min == IF least < 1 THEN 1 ELSE least
        max == IF most < min THEN min ELSE most
    IN  [fromIs |-> pattern.fromIs, toIs |-> pattern.toIs,
         fromLabel |-> pattern.fromLabel, toLabel |-> pattern.toLabel,
         min |-> min, max |-> IF max > 10 THEN 10 ELSE max]

\* shouldInvertBFS, of a WHERE without OR, NOT and parentheses.
ShouldInvert(pattern, none) == pattern.toIs # none /\ pattern.fromIs = none

\* runBFS, bfsViaCTE: the walk starts at one end, in SQL restricted to its
\* label and equality; of the other end only the equality is looked at.
Bfs(graph, pattern, kinds, inverted, none) ==
    LET start == IF inverted THEN [label |-> pattern.toLabel, is |-> pattern.toIs]
                 ELSE [label |-> pattern.fromLabel, is |-> pattern.fromIs]
        dir == IF inverted THEN "inbound" ELSE "outbound"
        starts == {s \in graph.rows :
                    /\ start.label # none => graph.label[s] = start.label
                    /\ start.is # none => s = start.is}
        hops(s) == Shortest(Reach(graph.edges, kinds, dir, s, pattern.max),
                            s, pattern.min, pattern.max)
        row(s, h) == IF inverted THEN [a |-> h.id, b |-> s, hop |-> h.depth]
                     ELSE [a |-> s, b |-> h.id, hop |-> h.depth]
    IN  {r \in UNION {{row(s, h) : h \in {g \in hops(s) : g.id \in graph.rows}}
                      : s \in starts} :
            /\ pattern.fromIs # none => r.a = pattern.fromIs
            /\ pattern.toIs # none => r.b = pattern.toIs}

-----------------------------------------------------------------------------
(* Reference: the relation of the walks of each length.                    *)

Walks(edges, kinds, max) ==
    LET ids == {e.from : e \in edges} \cup {e.to : e \in edges}
        one == {<<e.from, e.to>> : e \in {f \in edges : f.kind \in kinds}}
        w[n \in 1 .. max] ==
            IF n = 1 THEN one
            ELSE {p \in ids \X ids :
                    \E m \in ids : <<p[1], m>> \in w[n - 1] /\ <<m, p[2]>> \in one}
    IN  w

\* Lengths of the walks between two symbols, in a direction.
Between(walks, direction, from, to, lengths) ==
    {n \in lengths :
        \/ direction # "inbound" /\ <<from, to>> \in walks[n]
        \/ direction # "outbound" /\ <<to, from>> \in walks[n]}
=============================================================================
