----------------------------- MODULE MCQueryText -----------------------------
(* Queries for the parser and the warnings of the query engine: every      *)
(* clause written in every way, longer queries with one token out of       *)
(* place, and queries with any of the mistakes that are to be named.       *)
EXTENDS Integers, Sequences, FiniteSets, TLC
LOCAL INSTANCE QueryWarnings

LOCAL NodeOf(var, kind, props) == [var |-> var, kind |-> kind, props |-> props]
LOCAL EdgeOf(var, kinds, parts) ==
    [var |-> var, kinds |-> kinds, hops |-> ParseHops(parts)]
LOCAL Along(from, edge, to) == [from |-> from, edge |-> edge, to |-> to]
LOCAL CondOf(v, p, op, value, kind) ==
    [variable |-> v, property |-> p, op |-> op, value |-> value, values |-> <<>>,
     rhs |-> <<>>, valueKind |-> kind, neg |-> FALSE]
LOCAL Col(fn, distinct, v, p, alias) ==
    [fn |-> fn, distinct |-> distinct, variable |-> v, property |-> p, alias |-> alias]
LOCAL QueryOf(p, w, r, distinct, by, desc, limit) ==
    [patterns |-> <<p>>, where |-> w, returnVars |-> r, distinct |-> distinct,
     orderBy |-> by, desc |-> desc /\ by # <<>>, limit |-> limit]

LOCAL NName == Col("", FALSE, "n", "name", "")
LOCAL Alone == Along(NodeOf("n", "Function", <<>>), NoEdge, NoNode)

-----------------------------------------------------------------------------
(* Queries written in full.                                                *)

LOCAL Patterns ==
    {Along(NodeOf("n", k, p), NoEdge, NoNode) :
        k \in {"", "Function"}, p \in {<<>>, "name" :> "f", "name" :> "f" @@ "id" :> "g"}}
    \cup {Along(NodeOf("n", "Function", <<>>), e, t) :
        e \in {EdgeOf("", <<>>, <<>>), EdgeOf("e", <<"CALLS">>, <<>>),
               EdgeOf("e", <<"CALLS", "READS">>, <<1, 3>>), EdgeOf("", <<"READS">>, <<2>>),
               EdgeOf("", <<>>, <<0, 3>>)},
        t \in {NoNode, NodeOf("m", "Method", <<>>), NodeOf("m", "", "kind" :> "Method")}}

LOCAL Leaves1 ==
    {CondOf("n", "name", op, "f", "STRING") :
        op \in {"=", "<>", "=~", "CONTAINS", "STARTS WITH", "ENDS WITH"}}
    \cup {CondOf("n", "start_line", op, "7", "NUMBER") : op \in {">", "<", ">=", "<="}}
    \cup {CondOf("n", "docstring", op, "", "") : op \in {"IS NULL", "IS NOT NULL"}}
    \cup {CondOf("n", "is_test", "=", "1", k) : k \in {"", "KEYWORD"}}
    \cup {[CondOf("n", "name", "IN", "", "STRING") EXCEPT !.values = <<"f", "g">>],
          [CondOf("n", "name", "<>", "", "") EXCEPT !.rhs = <<"m", "name">>],
          CondOf("n", "docstring", "=", "", "KEYWORD")}

LOCAL A == Leaf(CondOf("n", "name", "=", "f", "STRING"))
LOCAL B == Leaf([CondOf("n", "is_test", "=", "1", "") EXCEPT !.neg = TRUE])
LOCAL Pairs2 == {Joined(op, l, r) : op \in {"AND", "OR"}, l \in {A, B}, r \in {A, B}}
LOCAL Wheres ==
    {[is |-> "none"]}
    \cup {Leaf([c EXCEPT !.neg = b]) : c \in Leaves1, b \in BOOLEAN}
    \cup Pairs2 \cup {[is |-> "not", inner |-> p] : p \in Pairs2}
    \cup {Joined(op, p, A) : op \in {"AND", "OR"}, p \in Pairs2}
    \cup {Joined(op, B, p) : op \in {"AND", "OR"}, p \in Pairs2}

LOCAL Columns ==
    {<<NName>>, <<Col("COUNT", FALSE, "*", "", "c")>>,
     <<Col("", FALSE, "n", "kind", "k"), Col("COUNT", TRUE, "n", "name", "")>>,
     <<Col("", FALSE, "n", "", ""), Col("MAX", FALSE, "n", "complexity", "")>>}
LOCAL Orders == {<<>>, <<"", "n", "name">>, <<"COUNT", "*", "">>,
                 <<"MAX", "n", "complexity">>, <<"", "k", "">>}

MCWritten ==
    {QueryOf(p, w, <<NName>>, FALSE, <<"", "n", "name">>, TRUE, "5") :
        p \in Patterns, w \in Wheres}
    \cup {QueryOf(Alone, A, r, d, by, desc, limit) :
        r \in Columns, d \in BOOLEAN, by \in Orders, desc \in BOOLEAN,
        limit \in {Unlimited, "0", "7"}}

-----------------------------------------------------------------------------
(* Queries to be misspelled.                                               *)

LOCAL Full(w, by) ==
    QueryOf(Along(NodeOf("n", "Function", <<>>), EdgeOf("e", <<"CALLS", "READS">>, <<1, 3>>),
                 NodeOf("m", "", "kind" :> "Method")),
            w, <<Col("", FALSE, "n", "kind", "k"), Col("COUNT", TRUE, "n", "name", "")>>,
            FALSE, by, TRUE, "7")
LOCAL Bases ==
    {Full(Joined("OR", A, Leaf([CondOf("m", "name", "IN", "", "STRING")
                                EXCEPT !.values = <<"f", "g">>])), <<"", "n", "line">>),
     Full([is |-> "not",
           inner |-> Joined("AND", A, Leaf(CondOf("n", "docstring", "IS NOT NULL", "", "")))],
          <<"COUNT", "*", "">>),
     Full(Leaf(CondOf("n", "is_test", "=", "1", "")), <<"", "n", "line">>)}
LOCAL Tokens ==
    {[kind |-> "PUNCT", value |-> v] :
        v \in {"(", ")", "[", "]", "{", "}", ",", ".", ":", "-", "="}}
    \cup {[kind |-> "KEYWORD", value |-> v] :
        v \in {"NOT", "AND", "WHERE", "RETURN", "LIMIT", "NULL", "DESC"}}
    \cup {[kind |-> "IDENT", value |-> "x"], [kind |-> "STRING", value |-> "y"],
          [kind |-> "NUMBER", value |-> "0.5"],
          [kind |-> "HOPS", value |-> "", parts |-> <<>>],
          [kind |-> "HOPS", value |-> "range", parts |-> <<2>>]}
LOCAL Same == [how |-> "none", at |-> 1, token |-> End]

MCWords ==
    [query : MCWritten, edit : {Same}]
    \cup UNION {[query : {q}, edit :
            [how : {"add", "replace"}, at : DOMAIN Written(q), token : Tokens]
            \cup [how : {"drop"}, at : DOMAIN Written(q), token : {End}]
            \cup [how : {"swap"}, at : 1 .. Len(Written(q)) - 1, token : {End}]] : q \in Bases}

-----------------------------------------------------------------------------
(* Queries with mistakes: each part of a query is <<it, what is wrong>>,   *)
(* or <<it, what is wrong, what is wrong if nothing is found>>.            *)

LOCAL From == NodeOf("n", "Function", <<>>)
LOCAL To == NodeOf("m", "Method", <<>>)
LOCAL Calls1 == EdgeOf("e", <<"CALLS">>, <<>>)
LOCAL PatternParts ==
    {<<Along(From, Calls1, To), {}>>,
     <<Along(From, Calls1, [To EXCEPT !.kind = "Methud"]), {<<"label", "Methud">>}>>,
     <<Along(From, Calls1, [To EXCEPT !.props = "nope" :> "f"]), {<<"property", "nope">>}>>,
     <<Along(From, EdgeOf("e", <<"CALLS", "CALLZ">>, <<>>), To), {<<"edge kind", "CALLZ">>}>>,
     <<Along(From, EdgeOf("e", <<"CALLS">>, <<3, 1>>), To), {<<"hops", 3>>}>>,
     <<Along(From, EdgeOf("e", <<"CALLS">>, <<0, 2>>), To), {<<"hops", 2>>}>>,
     <<Along(From, Calls1, From), {<<"loop", "n">>}>>}

LOCAL LeafParts ==
    {<<CondOf("n", "name", "=", "f", "STRING"), {}, {}>>,
     <<CondOf("n", "docstring", "IS NULL", "", ""), {}, {}>>,
     <<CondOf("e", "kind", "=", "CALLS", "STRING"), {}, {}>>,
     <<CondOf("n", "nome", "=", "f", "STRING"), {<<"property", "nome">>}, {}>>,
     <<CondOf("e", "source", "=", "f", "STRING"), {<<"property", "source">>}, {}>>,
     <<CondOf("z", "name", "CONTAINS", "f", "STRING"), {<<"variable", "z">>}, {}>>,
     <<CondOf("n", "name", "=", "7", "NUMBER"), {<<"type", "name">>}, {}>>,
     <<CondOf("n", "start_line", "<", "7", "STRING"), {<<"type", "start_line">>}, {}>>,
     <<CondOf("n", "is_test", "=", "2", "NUMBER"), {<<"type", "is_test">>}, {}>>,
     <<[CondOf("n", "name", "=", "", "") EXCEPT !.rhs = <<"y", "id">>],
       {<<"column", "id">>, <<"variable", "y">>}, {}>>,
     <<CondOf("n", "language", "=", "Goh", "STRING"), {}, {<<"value", "Goh">>}>>,
     <<CondOf("n", "label", "=", "READS", "STRING"), {}, {<<"value", "READS">>}>>,
     <<CondOf("e", "kind", "=", "Method", "STRING"), {}, {<<"value", "Method">>}>>,
     <<CondOf("n", "name", "=", "g", "STRING"), {}, {<<"mismatch", "g">>}>>}
LOCAL WhereParts ==
    {<<[is |-> "none"], {}, {}>>}
    \cup {<<[is |-> "not", inner |-> Joined("AND", Leaf(a[1]), Leaf([b[1] EXCEPT !.neg = TRUE]))],
            a[2] \cup b[2], a[3] \cup b[3]>> : a \in LeafParts, b \in LeafParts}
    \cup {<<Joined("OR", Leaf(a[1]), Leaf(a[1])), a[2], a[3]>> : a \in LeafParts}

LOCAL RestParts ==
    {<<<<NName>>, <<>>, {}>>, <<<<NName>>, <<"", "n", "line">>, {<<"order", "line">>}>>,
     <<<<NName>>, <<"COUNT", "n", "">>, {<<"grouping", "COUNT">>}>>,
     <<<<Col("", FALSE, "n", "nome", "")>>, <<"", "n", "id">>, {<<"property", "nome">>}>>,
     <<<<Col("", FALSE, "x", "name", "x")>>, <<"", "x", "">>, {<<"variable", "x">>}>>,
     <<<<Col("", FALSE, "name", "", "")>>, <<>>, {<<"prefix", "name">>}>>,
     <<<<Col("MAX", FALSE, "n", "name", "")>>, <<>>, {<<"aggregate", "name">>}>>,
     <<<<NName, Col("COUNT", FALSE, "*", "", "c"), Col("COUNT", FALSE, "n", "", "d")>>,
       <<"", "c", "">>, {<<"grouped", "c">>}>>,
     <<<<NName, Col("COUNT", FALSE, "*", "", "c")>>, <<"COUNT", "*", "">>, {}>>}

MCMistakes ==
    {[query |-> QueryOf(p[1], w[1], r[1], FALSE, r[2], TRUE, Unlimited),
      mistakes |-> p[2] \cup w[2] \cup r[3], ifNothing |-> w[3],
      found |-> found] :
        p \in PatternParts, w \in WhereParts, r \in RestParts, found \in {0, 2, 3}}

MCSymbolsOf == {[name |-> "f", kind |-> "Function", language |-> "Go"],
                [name |-> "g", kind |-> "Method", language |-> "Go"]}
=============================================================================
