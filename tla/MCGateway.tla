------------------------------ MODULE MCGateway ------------------------------
(* Requests for the gateway: plain ones from two addresses under a rate    *)
(* limit, and one of every kind without.                                   *)
EXTENDS Gateway, TLC

Flags(keyed, prefix, trusts, limit) ==
    [keyed |-> keyed, basePath |-> prefix, trustProxy |-> trusts, mcp |-> ~ keyed,
     httpOnly |-> trusts, rateLimit |-> limit]

MCNothing ==
    [limit |-> {}, offset |-> {}, window |-> {}, hideDead |-> FALSE,
     active |-> FALSE, minEdges |-> 0, sessions |-> <<>>,
     progress |-> [done |-> 0, total |-> 0, active |-> FALSE, elapsed |-> 0]]

Plainly(verb, under, at) ==
    [method |-> verb, under |-> under, at |-> at, authorization |-> "none",
     peer |-> "a1", forwardedFor |-> NoOne, forwardedPrefix |-> NoPrefix,
     gzip |-> FALSE, cached |-> FALSE, args |-> MCNothing, body |-> "{}",
     fails |-> FALSE, does |-> "answers"]

MCTools == {"search", "health"}
Verbs == {"GET", "HEAD", "POST", "PUT", "DELETE", "OPTIONS"}
Everywhere == HttpGetOnlyRoutes \cup Unlisted \cup MCTools
    \cup {"", "/", "/mcp", "events", "nonsense"}

\* Every verb at every address, by key and prefix.
MCWide ==
    {[Plainly(v, u, a) EXCEPT !.authorization = k, !.gzip = (k = "key"),
                              !.forwardedPrefix = f] :
        v \in Verbs, u \in {NoPrefix, "/pincher", "/outer"}, a \in Everywhere,
        k \in {"none", "key"}, f \in {NoPrefix, "/outer"}}

\* The query strings, bodies and outcomes that make a difference.
MCDeep ==
    LET get(at, args) == {[Plainly("GET", NoPrefix, at) EXCEPT !.args = a] : a \in args}
        numbers == {{}, {0}, {1}, {2}, {101}, {201}}
        sessions == {<<>>, <<[own |-> TRUE, url |-> TRUE]>>,
                     <<[own |-> TRUE, url |-> TRUE], [own |-> FALSE, url |-> TRUE]>>,
                     <<[own |-> TRUE, url |-> TRUE], [own |-> FALSE, url |-> TRUE],
                       [own |-> FALSE, url |-> FALSE]>>}
    IN  get("projects", {[MCNothing EXCEPT !.limit = l, !.offset = o, !.hideDead = d,
                                           !.active = a, !.minEdges = e] :
                            l \in {{}, {1}, {2}}, o \in {{}, {1}, {2}, {4}},
                            d \in BOOLEAN, a \in BOOLEAN, e \in {0, 1}})
        \cup UNION {get(at, {[MCNothing EXCEPT !.limit = l, !.window = w] :
                                l \in numbers, w \in {{}, {0}, {60}}}) :
                    at \in {"tool-call-stats", "tool-tier-stats", "tool-payload-stats",
                            "bench-results"}}
        \cup UNION {get(at, {[MCNothing EXCEPT !.sessions = t, !.limit = l] :
                                t \in sessions, l \in {{}, {1}}}) :
                    at \in {"stats", "sessions"}}
        \cup {[Plainly("POST", NoPrefix, "index-progress") EXCEPT
                !.args.progress = [done |-> d, total |-> 4, active |-> a, elapsed |-> e]] :
                    d \in {0, 1, 4}, a \in BOOLEAN, e \in {0, 10}}
        \cup {[Plainly("POST", NoPrefix, "search") EXCEPT !.body = b, !.does = o] :
                b \in {"{}", "malformed"},
                o \in {"fails", "says why", "says what next", "nothing", "answers"}}
        \cup {[Plainly("DELETE", NoPrefix, "projects") EXCEPT !.body = b, !.fails = f] :
                b \in {"malformed", "", "q1", "q2", "q4"}, f \in BOOLEAN}
        \cup {[Plainly(v, NoPrefix, a) EXCEPT !.fails = TRUE] : v \in Verbs, a \in Everywhere}
        \cup {[Plainly(v, NoPrefix, a) EXCEPT !.cached = TRUE] :
                v \in {"GET", "HEAD"}, a \in {"dashboard.js", "dashboard.css"}}

\* Nobody has seen the header of an address that is not a proxy.
MCPlain ==
    {[Plainly("GET", NoPrefix, "health") EXCEPT !.peer = p, !.forwardedFor = f] :
        p \in {"a1"}, f \in {NoOne, "a2"}}

MCSends ==
    [s \in {Flags(FALSE, NoPrefix, TRUE, 1), Flags(FALSE, NoPrefix, FALSE, 2)} |-> MCPlain]
    @@ [s \in {Flags(k, p, t, 0) : k \in BOOLEAN, p \in {NoPrefix, "/pincher"},
                                   t \in BOOLEAN} |-> MCWide]
    @@ [s \in {[Flags(FALSE, "/pincher", FALSE, 0) EXCEPT !.httpOnly = h, !.mcp = FALSE] :
                h \in BOOLEAN} |-> MCDeep]

Prj(id, dead, recent, edges, empty) ==
    [id |-> id, dead |-> dead, recent |-> recent, edges |-> edges, empty |-> empty]
MCProjectTables ==
    {<<Prj("q1", FALSE, TRUE, 2, FALSE), Prj("q2", FALSE, FALSE, 0, TRUE),
       Prj("q3", TRUE, FALSE, 0, FALSE), Prj("q4", FALSE, TRUE, 1, FALSE)>>}
=============================================================================
