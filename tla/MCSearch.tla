------------------------------- MODULE MCSearch -------------------------------
(* Calls of the search tool on tables of up to three rows, and of one that *)
(* is empty or that an older binary indexed.                               *)
EXTENDS Integers, Sequences, TLC

LOCAL R(words, kind, language, corpus, confidence, project) ==
    [words |-> words, kind |-> kind, language |-> language, corpus |-> corpus,
     confidence |-> confidence, project |-> project, file |-> words[1]]

\* In the order of rank.
LOCAL Rows ==
    <<R(<<"stat">>, "Function", "Go", "code", 95, "session"),
      R(<<"stat", "file">>, "Method", "Go", "code", 60, "session"),
      R(<<"stats", "os">>, "Class", "Python", "code", 80, "session"),
      R(<<"open", "os", "stat">>, "Variable", "Go", "code", 100, "session"),
      R(<<"stat">>, "Setting", "YAML", "config", 100, "session"),
      R(<<"intro", "stat", "and", "file">>, "Section", "Markdown", "docs", 100, "session"),
      R(<<"stat", "file">>, "Function", "Go", "code", 90, "other")>>

LOCAL Small == {<<>>, <<Rows[2]>>}
LOCAL Pairs3 == {<<Rows[i], Rows[j]>> : i \in 1 .. 3, j \in 4 .. 7}
LOCAL Large == {<<Rows[i], Rows[i + 1], Rows[7]>> : i \in {1, 2, 4}}

LOCAL T(words, shape) == [words |-> words, shape |-> shape, star |-> FALSE]
LOCAL Star(t) == [t EXCEPT !.star = TRUE]
LOCAL Stat == T(<<"stat">>, "plain")
LOCAL File == T(<<"file">>, "plain")
LOCAL Dotted == T(<<"os", "stat">>, "dotted")
LOCAL Odd == T(<<"stat", "file">>, "odd")
LOCAL Blank == T(<<>>, "odd")
LOCAL Op(o) == T(<<o>>, "operator")

LOCAL Bares ==
    {<<>>, <<Stat>>, <<Star(Stat)>>, <<T(<<"sta">>, "plain")>>, <<T(<<"stats">>, "camel")>>,
     <<T(<<"none">>, "plain")>>, <<Stat, File>>, <<Stat, T(<<"none">>, "plain")>>,
     <<Dotted>>, <<Odd>>, <<Blank>>, <<Star(T(<<>>, "plain"))>>, <<Stat, Blank>>, <<Odd, Op("OR"), Stat>>,
     <<Stat, Op("AND"), File>>, <<Star(Stat), Op("AND"), File>>, <<Dotted, Op("OR"), File>>,
     <<Star(Stat), Op("NOT"), File>>, <<Star(Stat), Op("AND"), Op("NOT"), File>>,
     <<Star(Stat), Op("AND")>>, <<Stat, Op("AND")>>, <<Op("OR"), Star(Stat)>>, <<Op("AND")>>}
LOCAL Searches ==
    {[form |-> "bare", tokens |-> ts] : ts \in Bares}
    \cup [form : {"quoted"}, tokens : {<<Stat>>, <<Stat, File>>, <<Stat, Op("AND"), File>>}]
    \cup [form : {"unbalanced", "regex"}, tokens : {<<Stat>>}]

LOCAL C(q, kind, language, corpus, floor) ==
    [query |-> q, kind |-> kind, language |-> language, corpus |-> corpus,
     project |-> "session", floor |-> floor, limit |-> {}, offset |-> {},
     snippet |-> {}, fields |-> {}, compact |-> FALSE]

LOCAL Filters ==
    {<<"", "", "">>, <<"", "", "all">>, <<"", "", "docs">>, <<"", "", "config">>,
     <<"", "", "tests">>, <<"Function", "", "">>, <<"function", "", "code">>,
     <<"widget", "", "docs">>, <<"Class", "", "docs">>, <<"", "golang", "">>,
     <<"", "YAML", "code">>, <<"", "Elm", "">>, <<"Class", "Go", "">>,
     <<"Section", "Go", "docs">>, <<"Variable", "Python", "code">>}

LOCAL Asked(q) ==
    {C(q, f[1], f[2], f[3], n) : f \in Filters, n \in {{}, {85}}}
    \cup {C(q, "", "", "", {0})}

LOCAL Few == {[form |-> "bare", tokens |-> ts] : ts \in {<<Stat>>, <<Star(Stat)>>, <<Stat, File>>}}
LOCAL Varied ==
    {[C(q, k, "", "", {}) EXCEPT !.limit = l, !.offset = o, !.project = p,
        !.snippet = v[1], !.fields = v[2], !.compact = v[3]] :
        q \in Few, k \in {"", "Method"}, l \in {{}, {1}, {9}}, o \in {{}, {1}, {2}, {-1}},
        p \in {"session", "other", "*", "unknown"},
        v \in {<<{}, {}, FALSE>>, <<{30}, {""}, TRUE>>, <<{2}, {"name", "nome"}, FALSE>>}}

LOCAL All == UNION {Asked(q) : q \in Searches}

MCSearchQuestions ==
    [table : Pairs3, call : All, stale : {FALSE}]
    \cup [table : Small, call : All, stale : BOOLEAN]
    \cup [table : Small \cup Large, call : Varied, stale : {FALSE}]

MCBeginnings == {<<"sta", "stat">>, <<"sta", "stats">>, <<"stat", "stats">>}
MCCanonical ==
    [w \in {"Function", "Method", "Class", "Variable", "Section", "Go", "Python", "YAML",
            "Elm"} |-> w]
    @@ "function" :> "Function" @@ "golang" :> "Go" @@ "widget" :> "" @@ "" :> ""
=============================================================================
