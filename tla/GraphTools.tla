----------------------------- MODULE GraphTools ------------------------------
(***************************************************************************)
(* The tools that walk the graph of an index nobody changes meanwhile:     *)
(* trace and the several steps of a query's pattern (Traversal), and       *)
(* changes (Changes).  A question brings the tables it is about.           *)
(***************************************************************************)
EXTENDS Changes

CONSTANTS
    TraceQuestion,      \* [graph, start, direction, asked, kinds, built]
    MatchQuestion,      \* [graph, pattern]
    EditQuestion,       \* [edit, syms, diffed]
    ImpactQuestion,     \* [graph, changed, depth, built]
    Enough              \* autoTraceDeepenThreshold

\* Of what kind the arguments are.  handleChanges clamps its depth; a symbol
\* has a line in the edited file, and had its lines in one piece.
ASSUME GraphToolsConstantsOK ==
    /\ Enough \in Nat \ {0}
    /\ \A q \in TraceQuestion :
        /\ q.built \in Nat /\ q.asked \in Int
        /\ q.direction \in {"inbound", "outbound", "both"}
    /\ \A q \in MatchQuestion : q.pattern.min \in Int /\ q.pattern.max \in Int
    /\ \A q \in EditQuestion :
        /\ DOMAIN q.edit = 1 .. Len(q.edit) /\ Len(q.edit) \in Nat
        /\ \A i \in DOMAIN q.edit : q.edit[i].op \in {"kept", "deleted", "inserted"}
        /\ \A s \in q.syms : HasLines(q.edit, s) /\ InOnePiece(q.edit, s)
    /\ \A q \in ImpactQuestion :
        /\ q.built \in Nat /\ q.depth \in 1 .. 5
        /\ DOMAIN q.changed \subseteq Nat
        /\ q.graph.rows \subseteq DOMAIN q.graph.label

Silent == [is |-> "nothing"]

VARIABLE asked      \* <<question, answer>> of the call

question == asked[1]
answer == asked[2]

ToolsInit == asked = <<Silent, Silent>>

-----------------------------------------------------------------------------
(* The tools.  built is the depth the closure was built to, 0 when it was  *)
(* not; the trace tool drops the hops in test files.                       *)

BuiltClosure(graph, built) == IF built = 0 THEN {} ELSE BuildClosure(graph.edges, built)

Tests(graph) == {s \in DOMAIN graph.label : graph.label[s] = "test"}

Replies(kind, q, reply) == asked' = <<[is |-> kind, of |-> q], reply>>

HandleTrace(q) ==
    Replies("trace", q,
        Trace(q.graph, BuiltClosure(q.graph, q.built), q.built > 0, q.kinds, q.start,
              q.direction, q.asked, Tests(q.graph), Enough))

\* handleQuery, by the shape of the pattern (run in engine.go): several
\* steps, or none or one.
HandleMatch(q) ==
    /\ Bounded(q.pattern).max > 1
    /\ Replies("match", q,
        LET inverted == ShouldInvert(q.pattern, Nobody) IN
        Bfs(q.graph, Bounded(q.pattern), CallKinds, inverted, Nobody))

HandleEdit(q) ==
    Replies("edit", q, ChangedSymbols(q.edit, q.syms, q.diffed))

HandleImpact(q) ==
    Replies("impact", q,
        LET c == BuiltClosure(q.graph, q.built) IN
        [impacted |-> Impacted(q.graph, c, q.built > 0, q.changed, q.depth),
         tests |-> TestsToRun(q.graph, c, q.built > 0, q.changed, q.depth)])

GraphAsks ==
    \/ \E q \in TraceQuestion : HandleTrace(q)
    \/ \E q \in MatchQuestion : HandleMatch(q)
    \/ \E q \in EditQuestion : HandleEdit(q)
    \/ \E q \in ImpactQuestion : HandleImpact(q)

\* A question to a tool of another module, whatever its answer.
Elsewhere == question'.is \notin {"trace", "match", "edit", "impact"}

\* One call, and its end, among those of any other tool.
GraphSpec ==
    ToolsInit /\ [][(question = Silent /\ GraphAsks) \/ Elsewhere]_asked

-----------------------------------------------------------------------------
\* The hops that a trace should list, and those that it lists.
TraceAgrees(q, hops) ==
    LET deep == ClampedDepth(q.asked)
        walks == Walks(q.graph.edges, q.kinds, deep)
        byTable == TakesClosure(BuiltClosure(q.graph, q.built), q.kinds, q.built > 0)
        lengths == 1 .. (IF byTable /\ q.built < deep THEN q.built ELSE deep)
        distances(id) == Between(walks, q.direction, q.start, id, lengths)
        expected == {id \in q.graph.rows \ (Tests(q.graph) \cup {q.start}) :
                        distances(id) # {}}
        nearest == {[id |-> id, depth |-> Min(distances(id))] : id \in expected}
        shown == IF byTable /\ q.direction = "both" THEN Nearest(hops) ELSE hops
    IN  /\ shown \subseteq nearest
        /\ \A h \in nearest \ shown :
            /\ q.asked = 0 /\ Cardinality(hops) >= Enough
            /\ \A s \in shown : s.depth < h.depth

\* The pairs that a pattern should match.
MatchAgrees(q, rows) ==
    LET p == Bounded(q.pattern)
        walks == Walks(q.graph.edges, CallKinds, p.max)
        between(a, b) == {n \in p.min .. p.max : <<a, b>> \in walks[n]}
        isOrNot(s, is) == is # Nobody => s = is
        inverted == ShouldInvert(p, Nobody)
        pairs == {r \in q.graph.rows \X q.graph.rows :
                    /\ r[1] # r[2] /\ between(r[1], r[2]) # {}
                    /\ isOrNot(r[1], p.fromIs) /\ isOrNot(r[2], p.toIs)
                    /\ isOrNot(q.graph.label[r[1]],
                               IF inverted THEN Nobody ELSE p.fromLabel)
                    /\ isOrNot(q.graph.label[r[2]],
                               IF inverted THEN p.toLabel ELSE Nobody)}
    IN  rows = {[a |-> r[1], b |-> r[2], hop |-> Min(between(r[1], r[2]))] : r \in pairs}

(***************************************************************************)
(* However a walk is computed, from the closure or by SQL, from either end *)
(* of a pattern, an answer holds the symbols that a chain of edges of the  *)
(* asked kinds and length joins, each with the length of the shortest one. *)
(* A trace without a depth leaves out only symbols farther away than those *)
(* it lists, once it has enough of them.  Excepted are a closure that was  *)
(* built less deep than the question, which answers up to its own depth, a *)
(* trace in both directions from it, which may list a symbol with both of  *)
(* its distances, and the label of the end of a pattern where the walk     *)
(* does not start, which is not looked at.                                 *)
(***************************************************************************)
WalksAgree ==
    /\ question.is = "trace" => TraceAgrees(question.of, answer)
    /\ question.is = "match" => MatchAgrees(question.of, answer)

\* The symbols that an edit changed are among those named.
EditIsCovered(q, named) ==
    \A s \in q.syms :
        TextChanged(q.edit, s) /\ ~ HeadGone(q.edit, s) /\ ~ EndReplaced(q.edit, s)
            => s \in named

\* The symbols that reach the changed ones, and the tests among them.
ImpactIsComplete(q, reply) ==
    LET deep == IF q.built > 0 /\ BuiltClosure(q.graph, q.built) # {} /\ q.built < q.depth
                THEN q.built ELSE q.depth
        walks == Walks(q.graph.edges, CallKinds, deep)
        lengths(id, i) == Between(walks, "outbound", id, q.changed[i], 1 .. deep)
        touched(id) == {i \in DOMAIN q.changed :
                            id # q.changed[i] /\ lengths(id, i) # {}}
        hit == {id \in q.graph.rows : touched(id) # {}}
    IN  /\ Ids(reply.impacted) = hit
        /\ \A h \in reply.impacted : \E i \in touched(h.id) :
            h.depth = Min(lengths(h.id, i))
        /\ \A h, g \in reply.impacted : h.id = g.id => h = g
        /\ reply.tests = {[id |-> t, overlap |-> Cardinality(touched(t))] :
                            t \in hit \cap Tests(q.graph)}

(***************************************************************************)
(* The changes tool names every symbol whose text an edit changed, all of  *)
(* the symbols that reach one of those named within the depth, each with   *)
(* the distance to one of them, and with every test the number of changed  *)
(* symbols it reaches.  Excepted are a symbol whose first lines went, and  *)
(* one whose last lines were replaced by lines outside of it.              *)
(***************************************************************************)
ChangesAreComplete ==
    /\ question.is = "edit" => EditIsCovered(question.of, answer)
    /\ question.is = "impact" => ImpactIsComplete(question.of, answer)
=============================================================================
