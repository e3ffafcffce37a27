---------------------------- MODULE MCToolAnswers ----------------------------
(* Questions to the tools: all graphs of four symbols over some edges,     *)
(* small tables and files, written queries and searches.                   *)
EXTENDS ToolAnswers, MCQueryText, MCSearch, TLC

\* Traversal: a chain, shortcuts, cycles, a loop and an edge that only the
\* kinds READS follow; s3 may have lost its row and s4 is a test.
E(a, b) == [from |-> a, to |-> b, kind |-> "CALLS"]
MCEdges == {E("s1", "s2"), E("s2", "s3"), E("s3", "s4"), E("s4", "s1"),
            E("s1", "s3"), E("s3", "s2"), E("s2", "s2")}
Reads == [from |-> "s1", to |-> "s4", kind |-> "READS"]
MCLabel == "s1" :> "function" @@ "s2" :> "function" @@ "s3" :> "method"
           @@ "s4" :> "test"
Graph(edges, missing) ==
    [edges |-> edges \cup {Reads}, rows |-> DOMAIN MCLabel \ missing,
     label |-> MCLabel]
MCGraphs == {Graph(es, m) : es \in SUBSET MCEdges, m \in {{}, {"s3"}}}

MCTraces == [graph : MCGraphs, start : {"s1", "s3"}, asked : {0, 2},
             direction : {"inbound", "outbound", "both"},
             kinds : {CallKinds}, built : {0, 2, 3}]
    \cup [graph : MCGraphs, start : {"s4"}, asked : {5},
          direction : {"inbound"}, kinds : {{"READS", "CALLS"}}, built : {3}]

MCPattern(ends) == [fromIs |-> ends[1], toIs |-> ends[2], fromLabel |-> ends[3],
                    toLabel |-> ends[4], min |-> ends[5], max |-> ends[6]]
MCMatches ==
    [graph : MCGraphs,
     pattern : {MCPattern(<<f, t, l, m, h[1], h[2]>>) :
                  f \in {Nobody, "s1"}, t \in {Nobody, "s3"},
                  l \in {Nobody, "function"}, m \in {Nobody, "method"},
                  h \in {<<1, 3>>, <<2, 0>>, <<2, 3>>}}]

\* PinchQL
TableRow(line, named, doc, test) ==
    [line |-> line, name |-> named, doc |-> doc, test |-> test]
MCTables ==
    {{TableRow(1, <<1>>, Null, FALSE), TableRow(2, <<1, 2>>, EmptyText, TRUE),
      TableRow(3, <<2>>, <<1>>, FALSE), TableRow(4, <<2, 1>>, <<2, 1>>, TRUE)}}
MCCalls ==
    {{[from |-> 1, to |-> 2, kind |-> "CALLS", source |-> s, confidence |-> c] :
        s \in {"file", "resolve"}, c \in {4, 7}}
     \cup {[from |-> 3, to |-> 3, kind |-> "CALLS", source |-> "file",
            confidence |-> 9],
           [from |-> 3, to |-> 8, kind |-> "CALLS", source |-> "file",
            confidence |-> 9]}}

Cond(prop, op, value) == [prop |-> prop, op |-> op, value |-> value,
                          neg |-> FALSE, crossed |-> FALSE]
Plain == {Cond("doc", "=", EmptyText), Cond("doc", "<>", EmptyText),
          Cond("doc", "<>", <<1>>), Cond("doc", "IS NOT NULL", EmptyText),
          Cond("doc", "CONTAINS", <<1>>), Cond("name", "STARTS WITH", <<1>>),
          Cond("name", "ENDS WITH", <<1>>), Cond("name", "IN", {<<1>>, <<2>>}),
          Cond("name", "=~", {<<1, 2>>, <<2>>}), Cond("test", "=", TRUE),
          Cond("line", ">", 2), Cond("line", "<=", 3),
          [Cond("line", "=", 0) EXCEPT !.crossed = TRUE]}
Leaf(c) == [is |-> "leaf", leaf |-> c]
Simple == {Leaf(c) : c \in Plain}
    \cup {Leaf([c EXCEPT !.neg = TRUE]) : c \in Plain}
Both(op, l, r) == [is |-> op, left |-> l, right |-> r]
Pairs == {Both(op, l, r) : op \in {"AND", "OR"}, l \in Simple, r \in Simple}
Some == {Leaf(Cond("doc", "=", EmptyText)), Leaf(Cond("name", "=~", {<<2>>})),
         Leaf(Cond("line", ">", 2))}
Some2 == {Both(op, l, r) : op \in {"AND", "OR"}, l \in Some, r \in Some}
MCWheres == Simple \cup Pairs
    \cup {[is |-> "not", inner |-> w] : w \in Some2}
    \cup {Both(op, l, r) : op \in {"AND", "OR"}, l \in Some2, r \in Some}
    \cup {Both(op, l, r) : op \in {"AND", "OR"}, l \in Some, r \in Some2}
MCQueries ==
    [rows : MCTables, edges : MCCalls,
     query : {[where |-> w, return |-> r[1], limit |-> r[2], desc |-> r[3]] :
                w \in MCWheres,
                r \in {<<"rows", 2, TRUE>>, <<"rows", 4, FALSE>>,
                       <<"rows", 1, FALSE>>, <<"count", -1, FALSE>>,
                       <<"group", -1, FALSE>>, <<"distinct", -1, FALSE>>}}]

\* Changes: symbols with a line between them or none, one within another;
\* each line is kept, deleted or replaced, and a line may be added after it.
\* A symbol keeps a line, or a new version of one.
MCFiles == {<<{}, {"f"}, {"f"}, {"f"}, {}, {"g"}>>,
            <<{"f"}, {"f", "h"}, {"f"}, {"g"}, {"g"}>>}
Fates == {<<"kept">>, <<"deleted">>, <<"deleted", "inserted">>}
SymbolsIn(file) == UNION {file[i] : i \in DOMAIN file}
MayFate(file) ==
    {f \in [DOMAIN file -> Fates] :
        \A s \in SymbolsIn(file) :
            \E i \in DOMAIN file : s \in file[i] /\ f[i] # <<"deleted">>}
EditOf(file, fate, extra) ==
    FlattenSeq([i \in DOMAIN file |->
        [j \in DOMAIN fate[i] |-> [op |-> fate[i][j], owners |-> file[i]]]
        \o (IF i = extra THEN <<[op |-> "inserted", owners |-> {}]>> ELSE <<>>)])
MCEdits == UNION {[edit : {EditOf(file, f, x) : f \in MayFate(file),
                                              x \in 0 .. Len(file)},
                   syms : {SymbolsIn(file)}, diffed : {TRUE}] : file \in MCFiles}

MCImpacts ==
    [graph : MCGraphs, depth : {1, 3}, built : {0, 2},
     changed : {<<"s3">>, <<"s3", "s2">>, <<"s2", "s1", "s3">>}]

\* Listing: up to six rows, of which Go keeps any; neighbors of which one may
\* exceed the budget alone.
Rows(goods) == [i \in DOMAIN goods |-> [id |-> i, good |-> goods[i]]]
MCRows == {Rows(g) : g \in UNION {[1 .. n -> BOOLEAN] : n \in 0 .. 6}}
MCHits(all, inForm, inCorpus) ==
    [f \in {"all", "any", "prefix"} |-> [c \in {"code", "config", "docs"} |->
        IF f = inForm /\ c = inCorpus THEN all ELSE <<>>]]
MCSearches ==
    UNION {[tool : {"search"}, hits : {MCHits(all, p[1], p[2]) : all \in MCRows},
            corpus : {p[3]}, retry : {p[1]}, floor : BOOLEAN, limit : {0, 1, 5}] :
                p \in {<<"all", "code", "">>, <<"any", "docs", "">>,
                       <<"prefix", "config", "config">>}}
MCLists == [tool : {"list"}, rows : MCRows, limit : {0, 1, 2}]
MCDead == [tool : {"dead_code"}, rows : MCRows, limit : {1, 2}]
MCNeighbors ==
    [tool : {"neighborhood"}, limit : {0, 1, 4},
     rows : {[i \in DOMAIN cs |-> [id |-> i, cost |-> cs[i]]] :
                cs \in UNION {[1 .. n -> {1, 3, 7}] : n \in 0 .. 4}}]
MCListings == MCSearches \cup MCLists \cup MCDead \cup MCNeighbors
=============================================================================
