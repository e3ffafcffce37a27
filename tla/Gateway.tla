------------------------------- MODULE Gateway -------------------------------
(***************************************************************************)
(* The HTTP gateway (ServeHTTP of internal/server/server.go): every        *)
(* request goes through a key, a rate limit per address, the prefix of a   *)
(* reverse proxy, and a list of endpoints, before it reaches a tool.       *)
(*                                                                         *)
(* Two requests of one address may each have read the clock before either  *)
(* counts itself, so arriving and being counted are two steps.             *)
(*                                                                         *)
(* A path is what a proxy put before it and the endpoint, both as names.   *)
(* What a tool does, the events stream (EventStream) and the MCP transport *)
(* are not looked into here.                                               *)
(***************************************************************************)
EXTENDS Integers, Sequences, FiniteSets

CONSTANTS
    Address,        \* remote addresses
    Sends,          \* the requests that are sent, for each setting
    Tables,         \* what the projects table may hold, in order of name
    Tools,          \* names of tools
    RateWindow,     \* the length of the window, in ticks
    LastTick,       \* bound: the clock
    MaxArrived      \* bound: requests that have arrived and are not counted

\* A setting: [keyed, basePath, trustProxy, mcp, httpOnly, rateLimit], where a
\* rate limit of 0 is none.
Setting == DOMAIN Sends

ASSUME GatewayConstantsOK ==
    /\ RateWindow \in Nat /\ LastTick \in Nat /\ MaxArrived \in Nat
    /\ \A s \in Setting : s.rateLimit \in Nat

NoPrefix == "no prefix"
NoOne == "no one"
Pending == "pending"

VARIABLES
    setting,    \* flags of the command line
    clock,
    arrived,    \* requests between reading the clock and being counted
    windows,    \* rateWindows: the times counted for each address
    admitted,   \* history: each address' <<time read, time counted>>
    refused,    \* history: the last request, [ip, read, counted], if it was refused
    projects,   \* the projects table
    exchange    \* <<request, projects table, reply>>, until another arrives

gatewayVars == <<setting, clock, arrived, windows, admitted, refused, projects,
                 exchange>>

-----------------------------------------------------------------------------
(* A request.  args: its query string, and what of the rest of the program *)
(* an endpoint looks at.  cached: its If-None-Match is the asset's tag.    *)
(* fails: the database does.  does: how the tool's handler ends.           *)

\* A number of a query string is a set, empty if it is not there.
Arguments ==
    [limit : SUBSET Int, offset : SUBSET Int, window : SUBSET Int,
     hideDead : BOOLEAN, active : BOOLEAN, minEdges : Nat,
     sessions : Seq([own : BOOLEAN, url : BOOLEAN]),
     progress : [done : Nat, total : Nat, active : BOOLEAN, elapsed : Nat]]

HttpRequest ==
    [method : STRING, under : STRING, at : STRING, authorization : STRING,
     peer : Address, forwardedFor : Address \cup {NoOne}, forwardedPrefix : STRING,
     gzip : BOOLEAN, cached : BOOLEAN, args : Arguments, body : STRING,
     fails : BOOLEAN,
     does : {"fails", "says why", "says what next", "nothing", "answers"}]

ProjectRow ==
    [id : STRING, dead : BOOLEAN, recent : BOOLEAN, edges : Nat, empty : BOOLEAN]

EffectivePrefix(s, q) ==
    IF s.trustProxy /\ q.forwardedPrefix # NoPrefix THEN q.forwardedPrefix ELSE s.basePath

ClientIP(s, q) ==
    IF s.trustProxy /\ q.forwardedFor # NoOne THEN q.forwardedFor ELSE q.peer

Verb(q) == IF q.method = "HEAD" THEN "GET" ELSE q.method

\* Whether a probe is public is asked before the prefix is stripped.
IsPublicProbe(q) == q.under = NoPrefix /\ q.at \in {"health", "openapi.json", "ready"}

Authorized(s, q) == ~ s.keyed \/ IsPublicProbe(q) \/ q.authorization = "key"

\* Mutant: knows no X-Forwarded-Prefix.
StripsBasePath(s, q) ==
    IF q.under = NoPrefix \/ q.under # s.basePath THEN q
    ELSE [q EXCEPT !.under = NoPrefix, !.at = IF q.at = "" THEN "/" ELSE q.at]

\* The path that is left: nothing of "/pincher" is "/".
Stripped(s, q) ==
    IF q.under = NoPrefix \/ q.under # EffectivePrefix(s, q) THEN q
    ELSE [q EXCEPT !.under = NoPrefix, !.at = IF q.at = "" THEN "/" ELSE q.at]

\* A reply to GET; what a HEAD gets of it is decided in Respond.
Says(status, what) ==
    [status |-> status, says |-> what, allow |-> {}, sent |-> TRUE, zipped |-> FALSE]

Refuses(status, code) == Says(status, <<"error", code>>)

NotAllowed(verbs) == [Refuses(405, "method_not_allowed") EXCEPT !.allow = verbs]

\* Reads a number of the query string, {} if there is none, or falls back.
Number(given, lowest, highest, default) ==
    IF given # {} /\ given \subseteq lowest .. highest THEN CHOOSE n \in given : TRUE
    ELSE default

Huge == 2147483647

-----------------------------------------------------------------------------
(* Endpoints *)

HttpGetOnlyRoutes ==
    {"dashboard", "dashboard.js", "dashboard.css", "stats", "sessions", "hook-stats",
     "tool-call-stats", "tool-tier-stats", "tool-payload-stats", "openapi.json",
     "health", "ready", "metrics"}

\* The endpoints that are answered before the tools are looked at.
Endpoints ==
    ({"GET"} \X HttpGetOnlyRoutes)
    \cup {<<"GET", "capabilities">>, <<"GET", "bench-results">>,
          <<"POST", "index-progress">>, <<"GET", "projects">>,
          <<"DELETE", "projects/empty">>, <<"DELETE", "projects">>}

\* Endpoints with no entry in HttpGetOnlyRoutes, though they are no tools.
Unlisted == {"capabilities", "bench-results", "index-progress", "projects",
             "projects/empty", "/"}

\* What is sent; and of the endpoints only those of HttpGetOnlyRoutes may have
\* the name of a tool.
ASSUME RequestsOK ==
    /\ \A s \in Setting : Sends[s] \subseteq HttpRequest
    /\ Tables \subseteq Seq(ProjectRow)
    /\ Tools \cap (Unlisted \cup {"events"}) = {}

ParsePageParams(args, default, most) ==
    LET asked == Number(args.limit, 1, Huge, default) IN
    [limit |-> IF asked > most THEN most ELSE asked,
     offset |-> Number(args.offset, 0, Huge, 0)]

SliceWindow(found, page) ==
    LET total == Len(found)
        end == IF page.offset + page.limit > total THEN total
               ELSE page.offset + page.limit
    IN  [page |-> SubSeq(found, page.offset + 1, end), total |-> total,
         more |-> page.offset < total /\ end < total]

ProjectFilterOpts(args) ==
    [hideDead |-> args.hideDead, active |-> args.active, minEdges |-> args.minEdges]

\* In filterProjects' order of the reasons.
Drops(opts, p) ==
    IF p.dead /\ opts.hideDead THEN "dead_path"
    ELSE IF ~ p.recent /\ opts.active THEN "inactive"
    ELSE IF p.edges < opts.minEdges THEN "low_edges"
    ELSE "kept"

\* after[n]: what is kept, and counted of the rest, once n projects were seen.
FilterProjects(opts, table) ==
    LET after[n \in 0 .. Len(table)] ==
        IF n = 0
        THEN [kept |-> <<>>,
              drops |-> [why \in {"dead_path", "inactive", "low_edges"} |-> 0]]
        ELSE LET why == Drops(opts, table[n]) IN
             IF why = "kept"
             THEN [after[n - 1] EXCEPT !.kept = Append(@, table[n])]
             ELSE [after[n - 1] EXCEPT !.drops[why] = @ + 1]
    IN  after[Len(table)]

\* args.sessions: the sessions table from the newest, each [own, url].
FirstWhere(found, Test(_)) ==
    LET hits == {i \in DOMAIN found : Test(found[i])} IN
    IF hits = {} THEN 0 ELSE CHOOSE i \in hits : \A j \in hits : i <= j

SessionShown(s, found) ==
    LET pure == FirstWhere(found, LAMBDA r : ~ r.url)
        other == FirstWhere(found, LAMBDA r : ~ r.own)
    IN  IF found = <<>> THEN 0
        ELSE IF s.httpOnly /\ pure > 0 THEN pure
        ELSE IF s.httpOnly /\ other > 0 THEN other
        ELSE 1

Asset(q) == IF q.cached THEN Says(304, <<"unchanged">>) ELSE Says(200, <<"asset", q.at>>)

\* args.progress: [done, total, active, elapsed] or nothing in memory.
IndexProgress(args) ==
    LET p == args.progress
        remaining == ((p.total - p.done) * p.elapsed) \div p.done
    IN  Says(200, <<"progress",
            IF p.elapsed > 0 /\ p.done > 0 /\ p.active /\ p.total > p.done
            THEN remaining ELSE Pending>>)

DefaultWindow == 7 * 24 * 60 * 60

Tallies(at, args, most) ==
    <<"tallies", Number(args.window, 1, Huge, DefaultWindow),
      IF at = "tool-tier-stats" THEN 3 ELSE Number(args.limit, 1, most, 20)>>

ProjectsPage(args, table) ==
    LET filtered == FilterProjects(ProjectFilterOpts(args), table) IN
    <<"page", SliceWindow(filtered.kept, ParsePageParams(args, 50, 200)), filtered.drops>>

SessionsPage(args) ==
    LET page == ParsePageParams(args, 90, 500)
        most == page.limit + page.offset
        fetched == SubSeq(args.sessions, 1,
                          IF most < Len(args.sessions) THEN most ELSE Len(args.sessions))
    IN  <<"page", SliceWindow(fetched, page)>>

\* What an endpoint says when the database does not fail.
Payload(s, table, q) ==
    CASE q.at = "health" -> <<"alive", s.keyed>>
      [] q.at = "stats" -> <<"session", SessionShown(s, IF q.fails THEN <<>> ELSE q.args.sessions)>>
      [] q.at \in {"tool-call-stats", "tool-tier-stats"} -> Tallies(q.at, q.args, 100)
      [] q.at = "tool-payload-stats" -> Tallies(q.at, q.args, Huge)
      [] q.at = "bench-results" -> <<"runs", Number(q.args.limit, 1, 200, 20)>>
      [] q.at = "sessions" -> SessionsPage(q.args)
      [] q.at = "projects" /\ Verb(q) = "GET" -> ProjectsPage(q.args, table)
      [] q.at = "projects" /\ Verb(q) = "DELETE" -> <<"deleted", q.body>>
      [] q.at = "projects/empty" ->
            <<"deleted", Cardinality({i \in DOMAIN table : table[i].empty})>>
      [] OTHER -> <<"payload", q.at>>

\* Those that answer 500 when the database fails; the others leave it out.
ReadsDatabase(q) ==
    q.at \in {"hook-stats", "tool-call-stats", "tool-tier-stats", "tool-payload-stats",
             "bench-results", "sessions", "projects", "projects/empty"}

Endpoint(s, table, q) ==
    IF q.at \in {"dashboard.js", "dashboard.css"} THEN Asset(q)
    ELSE IF q.at = "index-progress" THEN IndexProgress(q.args)
    ELSE IF q.at = "projects" /\ Verb(q) = "DELETE" /\ q.body \in {"malformed", ""}
         THEN Refuses(400, "bad_request")
    ELSE IF q.fails /\ ReadsDatabase(q) THEN Refuses(500, "internal_error")
    ELSE Says(200, Payload(s, table, q))

\* A tool, and how its result becomes a reply: an error that is itself JSON
\* is unwrapped, with its next steps.
CallTool(q) ==
    IF q.body = "malformed" THEN Refuses(400, "invalid_json_body")
    ELSE CASE q.does = "fails" -> Refuses(500, "internal_error")
           [] q.does = "says why" -> Refuses(400, "tool_error")
           [] q.does = "says what next" ->
                Says(400, <<"error", "tool_error", "next_steps">>)
           [] q.does = "nothing" -> Refuses(500, "internal_error")
           [] q.does = "answers" -> Says(200, <<"result", q.at>>)

AtTool(q) == q.under = NoPrefix /\ q.at \in Tools

\* The dispatch after the streams: the first of these that fits.
Dispatch(s, table, q) ==
    LET known == q.under = NoPrefix
        getOnly == known /\ q.at \in HttpGetOnlyRoutes
    IN  IF known /\ q.at = "/" /\ Verb(q) = "GET"
        THEN Says(302, <<"dashboard under", EffectivePrefix(s, q)>>)
        ELSE IF getOnly /\ Verb(q) # "GET" THEN NotAllowed({"GET", "HEAD"})
        ELSE IF known /\ <<Verb(q), q.at>> \in Endpoints THEN Endpoint(s, table, q)
        ELSE IF Verb(q) # "POST" /\ AtTool(q) THEN NotAllowed({})
        ELSE IF AtTool(q) THEN CallTool(q)
        ELSE Refuses(404, "not_found")

\* The writer of a HEAD request is no Flusher.
HandleEvents(q) ==
    IF Verb(q) # "GET" THEN NotAllowed({"GET"})
    ELSE IF q.method = "HEAD" THEN Refuses(500, "streaming_unsupported")
    ELSE Says(200, <<"stream">>)

\* All of it, once the request is counted.
Route(s, table, asked) ==
    LET q == Stripped(s, asked)
        reply == Dispatch(s, table, q)
    IN  CASE s.mcp /\ q.under = NoPrefix /\ q.at = "/mcp" -> Says(200, <<"mcp">>)
          [] q.under = NoPrefix /\ q.at = "events" -> HandleEvents(q)
          [] OTHER -> [reply EXCEPT !.zipped = q.gzip]

\* The writer of a HEAD request drops the body of whatever is answered.
Answers(q, reply) == [reply EXCEPT !.sent = q.method # "HEAD"]

\* The replies that come before a request is counted.
AnswersAtOnce(s, q) == q.method = "OPTIONS" \/ ~ Authorized(s, q)

AtOnce(q) ==
    IF q.method = "OPTIONS" THEN [Says(204, <<"options">>) EXCEPT !.sent = FALSE]
    ELSE Answers(q, Refuses(401, "unauthorized"))

-----------------------------------------------------------------------------
(* Actions *)

GatewayInit ==
    /\ setting \in Setting
    /\ projects \in Tables
    /\ clock = 0 /\ arrived = <<>>
    /\ windows = [a \in Address |-> <<>>]
    /\ admitted = [a \in Address |-> {}]
    /\ refused = {}
    /\ exchange = <<>>

Tick ==
    /\ clock < LastTick /\ setting.rateLimit > 0
    /\ clock' = clock + 1
    /\ UNCHANGED <<setting, arrived, windows, admitted, refused, projects, exchange>>

\* Bound: without a limit requests meet in nothing but the projects table,
\* and one of them is followed.
Room == IF setting.rateLimit = 0 THEN arrived = <<>> /\ exchange = <<>>
        ELSE Len(arrived) < MaxArrived

\* Up to the moment the clock is read.
Arrives(q) ==
    /\ Room
    /\ IF AnswersAtOnce(setting, q)
       THEN /\ exchange' = <<q, projects, AtOnce(q)>>
            /\ UNCHANGED arrived
       ELSE /\ arrived' = Append(arrived, [q |-> q, read |-> clock])
            /\ exchange' = <<>>
    /\ UNCHANGED <<setting, clock, windows, admitted, refused, projects>>

\* Mutant: forgets a time that is as old as the window.
PrunedToo(times, cutoff) ==
    LET kept == FirstWhere(times, LAMBDA t : t > cutoff) IN
    IF kept = 0 THEN <<>> ELSE SubSeq(times, kept, Len(times))

\* Without the times at the front that are before the reader's cutoff.
Pruned(times, cutoff) ==
    LET kept == FirstWhere(times, LAMBDA t : t >= cutoff) IN
    IF kept = 0 THEN <<>> ELSE SubSeq(times, kept, Len(times))

AllowRequest(r) ==
    LET ip == ClientIP(setting, r.q)
        times == Pruned(windows[ip], r.read - RateWindow)
        full == Len(times) >= setting.rateLimit
    IN  /\ windows' = [windows EXCEPT ![ip] = IF full THEN times ELSE Append(times, r.read)]
        /\ admitted' = [admitted EXCEPT ![ip] =
                IF full THEN @
                ELSE @ \cup {[read |-> r.read, counted |-> clock, n |-> Cardinality(@)]}]
        /\ refused' = IF full THEN {[ip |-> ip, read |-> r.read, counted |-> clock]}
                    ELSE {}

\* Whether a served request leaves a project alone.
Spares(q, p) ==
    LET is(verb, at) == q.under = NoPrefix /\ Verb(q) = verb /\ q.at = at IN
    \/ q.fails
    \/ /\ is("DELETE", "projects") => p.id # q.body
       /\ is("DELETE", "projects/empty") => ~ p.empty

\* The projects that it leaves, in their order.
Spared(q, table) ==
    LET left[n \in 0 .. Len(table)] ==
        IF n = 0 THEN <<>>
        ELSE IF Spares(q, table[n]) THEN Append(left[n - 1], table[n])
        ELSE left[n - 1]
    IN  left[Len(table)]

Counts(i) ==
    LET r == arrived[i] IN
    /\ arrived' = SubSeq(arrived, 1, i - 1) \o SubSeq(arrived, i + 1, Len(arrived))
    /\ IF setting.rateLimit = 0 THEN UNCHANGED <<windows, admitted, refused>>
       ELSE AllowRequest(r)
    /\ IF refused' # {}
       THEN /\ exchange' = <<r.q, projects, Answers(r.q, Refuses(429, "rate_limited"))>>
            /\ UNCHANGED projects
       ELSE /\ exchange' = <<r.q, projects, Answers(r.q, Route(setting, projects, r.q))>>
            /\ projects' = Spared(Stripped(setting, r.q), projects)
    /\ UNCHANGED <<setting, clock>>

GatewayNext ==
    \/ Tick
    \/ \E q \in Sends[setting] : Arrives(q)
    \/ \E i \in DOMAIN arrived : Counts(i)

-----------------------------------------------------------------------------
\* What a request is answered that is not over the limit.
Whole(table, q) ==
    IF AnswersAtOnce(setting, q) THEN AtOnce(q)
    ELSE Answers(q, Route(setting, table, q))

(***************************************************************************)
(* No more than the limit of one address' requests are answered within any *)
(* span of the window, and one that is refused had the limit answered in   *)
(* the window before it.  Excepted are requests that are counted later     *)
(* than they read the clock: they are counted where they do not belong.    *)
(***************************************************************************)
AdmissionIsExact ==
    LET prompt(r) == r.read = r.counted
        within(ip, from, to) ==
            Cardinality({r \in admitted[ip] : prompt(r) /\ r.read \in from .. to})
    IN  /\ setting.rateLimit > 0 => \A ip \in Address : \A t \in 0 .. LastTick :
            within(ip, t, t + RateWindow) <= setting.rateLimit
        /\ \A r \in refused : prompt(r) /\ (\A m \in admitted[r.ip] : prompt(m))
            => within(r.ip, r.read - RateWindow, r.read) = setting.rateLimit

(***************************************************************************)
(* An address is the same for every verb, client and proxy: a verb that is *)
(* not allowed names exactly those that are, an unknown address knows none,*)
(* a HEAD is answered as the GET is, without its body, a tool is reached,  *)
(* a proxy may keep its prefix or strip it, a page is followed by another  *)
(* when it says so, and no stream is compressed.  Excepted are the six     *)
(* endpoints that no list of routes names, whose other verbs are unknown   *)
(* tools; a HEAD of the stream; tools with the name of an endpoint, which  *)
(* hides them; probes behind a prefix, which need the key; and sessions,   *)
(* which never say that there are more.                                    *)
(***************************************************************************)
GatewayIsUniform ==
    exchange # <<>> /\ exchange[3].status # 429 =>
        LET q == exchange[1]
            table == exchange[2]
            reply == exchange[3]
            at == Stripped(setting, q).at
            as(m) == Whole(table, [q EXCEPT !.method = m])
            serves(m) == /\ as(m).status \notin {404, 405}
                         /\ as(m).says # <<"error", "streaming_unsupported">>
            verbs == {m \in {"GET", "HEAD", "POST", "PUT", "DELETE"} : serves(m)}
            prefixes == {NoPrefix, EffectivePrefix(setting, q)}
            page == ParsePageParams(q.args, 50, 200)
            next == [q EXCEPT !.args.offset = {page.offset + page.limit}]
        IN  /\ reply.status = 405 => verbs = IF AtTool(Stripped(setting, q)) /\ reply.allow = {}
                                             THEN {"POST"} ELSE reply.allow
            /\ reply.status = 404 => verbs = {} \/ at \in Unlisted
            /\ q.method = "HEAD" /\ at # "events" => reply = [as("GET") EXCEPT !.sent = FALSE]
            /\ AtTool(Stripped(setting, q)) /\ q.method = "POST" /\ at \notin HttpGetOnlyRoutes =>
                reply.status \notin {404, 405}
            /\ q.under \in prefixes /\ q.at # "" =>
                \A u \in prefixes :
                    \/ reply = Whole(table, [q EXCEPT !.under = u])
                    \/ setting.keyed /\ at \in {"health", "openapi.json", "ready"}
            /\ reply.says[1] = "page" /\ at = "projects" =>
                LET drops == reply.says[3] IN
                /\ page.offset + page.limit <= Huge =>
                    (reply.says[2].more <=> Whole(table, next).says[2].page # <<>>)
                /\ reply.says[2].total = Len(table) - (drops["dead_path"] + drops["inactive"]
                                                       + drops["low_edges"])
            /\ reply.says \in {<<"stream">>, <<"mcp">>} => ~ reply.zipped
=============================================================================
