----------------------------- MODULE ToolAnswers -----------------------------
(***************************************************************************)
(* The answers of all the tools that read an index nobody changes          *)
(* meanwhile: those of GraphTools, query (PinchQL, QueryText,              *)
(* QueryWarnings), the tools that list (Listing) and search (SearchTool).  *)
(* A question brings the tables it is about.                               *)
(***************************************************************************)
EXTENDS PinchQL, GraphTools, Listing

CONSTANTS
    QueryQuestion,      \* [rows, edges, query]
    ListQuestion,       \* [tool, rows or hits, limit, ..]
    WordQuestion,       \* [query, edit]
    MistakeQuestion,    \* [query, mistakes, ifNothing, found]
    SearchQuestion,     \* [table, call, stale]
    Beginnings, Canonical, Stubs, RowKeys, Crowd, CrowdFiles,   \* of SearchTool
    Symbols,            \* those of the project of a mistaken query
    MaxRows             \* maxRows

ASSUME ToolsConstantsOK == MaxRows \in Nat \ {0}

Ql == INSTANCE QueryWarnings
Se == INSTANCE SearchTool

-----------------------------------------------------------------------------
HandleQuery(q) ==
    Replies("query", q,
        [scan |-> RunNodeScan(q.rows, q.query, MaxRows),
         join |-> RunJoin(q.rows, q.edges, FALSE, q.query.where)])

\* A query as it was typed, and what the parser makes of it.
HandleWords(q) ==
    Replies("words", q,
        LET typed == Ql!Edited(Ql!Written(q.query), q.edit) IN
        [typed |-> typed, parsed |-> Ql!Parse(typed)])

\* A query that found so many rows, all of them in the count it asks for.
HandleMistake(q) ==
    Replies("mistake", q,
        Ql!Execute(Ql!Parse(Ql!Written(q.query)).read,
            [total |-> IF Ql!HasAggregation(q.query) THEN 1 ELSE q.found,
             first |-> q.found],
            Symbols, {"CALLS", "READS"}, MaxRows))

HandleListing(q) ==
    Replies("listing", q, IF q.tool = "dead_code" THEN HandleDeadCode(q) ELSE Followed(q))

HandleSearching(q) == Replies("search", q, Se!Pursue(q.table, q.call, q.stale))

Asks ==
    \/ GraphAsks
    \/ \E q \in QueryQuestion : HandleQuery(q)
    \/ \E q \in ListQuestion : HandleListing(q)
    \/ \E q \in WordQuestion : HandleWords(q)
    \/ \E q \in MistakeQuestion : HandleMistake(q)
    \/ \E q \in SearchQuestion : HandleSearching(q)

ToolsRest == question = Silent /\ UNCHANGED asked

\* One call, and its end.
ToolsNext ==
    \/ question = Silent /\ Asks
    \/ question # Silent /\ asked' = <<Silent, Silent>>

-----------------------------------------------------------------------------
(***************************************************************************)
(* A query gives the rows, counts, groups and distinct values that its     *)
(* WHERE, read one way, gives, whether SQL, Go or both decide it and       *)
(* however much of the table is read; and a step along an edge gives each  *)
(* edge once, with its highest confidence.  Excepted are queries that      *)
(* compare a NULL in a way SQL does not know (NOT and CONTAINS then differ *)
(* between the two), and tables larger than what is read before Go         *)
(* decides.                                                                *)
(***************************************************************************)
QueryIsExact ==
    question.is = "query" =>
        LET q == question.of
            w == q.query.where
            decided == \A r \in q.rows : \A c \in Leaves(w) : Decided(r, c)
            covers == /\ LeftToGo(w) => Cardinality(q.rows) <= ScanLimit(MaxRows, w)
                      /\ q.query.limit \in 0 .. 2 * MaxRows
            kept == {r.line : r \in {x \in q.rows : MatchesWhere(x, w)}}
            sources(e) == {f \in q.edges : f.from = e.from /\ f.to = e.to
                                           /\ f.kind = e.kind}
        IN  decided =>
            /\ covers \/ q.query.return # "rows" =>
                answer.scan = Meant(q.rows, q.query)
            /\ {[from |-> e.from, to |-> e.to, kind |-> e.kind] : e \in answer.join}
                = {[from |-> e.from, to |-> e.to, kind |-> e.kind] : e \in
                    {f \in q.edges : f.from \in kept
                                     /\ \E r \in q.rows : r.line = f.to}}
            /\ \A e \in answer.join : \A f \in sources(e) :
                f.confidence <= e.confidence

(***************************************************************************)
(* No word of a query goes unheard: what is written in full is read as it  *)
(* was meant, and a query with a token out of place is rejected, or every  *)
(* name, operator and value of it is in what was read, or a warning names  *)
(* what they were taken for.  Excepted are queries that repeat a clause,   *)
(* of which the last one counts.                                           *)
(***************************************************************************)
QueryIsHeard ==
    question.is = "words" =>
        LET q == question.of
            parsed == answer.parsed
            repeats == \E c \in Ql!ClauseWords : Ql!Count(answer.typed, c) > 1
        IN  /\ q.edit.how = "none" => parsed = Ql!Yes(q.query, <<>>)
            /\ parsed.ok /\ ~ repeats =>
                \/ Ql!Holds(parsed.read, answer.typed)
                \/ Ql!UnknownProperties(parsed.read) # {}

(***************************************************************************)
(* A query that cannot mean what it says is answered with its mistakes,    *)
(* all of them and nothing else, but for the note that an answer was cut:  *)
(* those of the query alone whatever it found, those about values only     *)
(* when it found nothing.                                                  *)
(***************************************************************************)
MistakesAreNamed ==
    question.is = "mistake" =>
        LET q == question.of
            cut == ~ Ql!HasAggregation(q.query) /\ answer.total < q.found
        IN  answer.warnings =
                q.mistakes \cup (IF q.found = 0 THEN q.ifNothing ELSE {})
                \cup (IF cut THEN {<<"max_rows", MaxRows>>} ELSE {})

(***************************************************************************)
(* A caller who follows the pages gets every row that passes the filters,  *)
(* in order and once, and dead_code gives the first ones.  They may end    *)
(* early in two cases, with a list that is right as far as it goes: search *)
(* when no more than a quarter of the hits that a page reads pass the      *)
(* floor or when the offset reaches its cap, dead_code when more than half *)
(* of what it reads is left out.                                           *)
(***************************************************************************)
ListsAreWhole ==
    question.is = "listing" =>
        LET q == question.of
            hits == IF q.tool = "search" THEN HitsOf(q) ELSE q.rows
            filtered == IF q.tool = "search" THEN q.floor ELSE q.tool # "neighborhood"
            whole == IF filtered THEN Good(hits) ELSE hits
            crowded(n) == Len(hits) >= 4 * n /\ Len(Good(Take(hits, 4 * n))) <= n
            pages == {n \in 1 .. OffsetCap : n % Limit(q) = 0}
        IN  /\ IsPrefix(answer, whole)
            /\ \/ answer = whole
               \/ /\ q.tool = "search"
                  /\ Len(answer) > OffsetCap \/ (q.floor /\ \E n \in pages : crowded(n))
               \/ /\ q.tool = "dead_code"
                  /\ \/ Len(answer) = q.limit
                     \/ Len(hits) > 2 * q.limit
\* c is the call, theMeant the rows it asks for, and reply what came back.
IsExplained(c, theMeant, reply) ==
    LET said == reply.said
        corpora == IF Se!Searched(c) = "" THEN Se!Corpora ELSE {c.corpus}
        first == {Se!CorpusOf(Se!Searched(c))}
        taken == IF said.fellThroughTo = "" THEN first ELSE {said.fellThroughTo}
        fits(kind, language, of, floor) ==
            {r \in theMeant :
                /\ r.corpus \in of /\ r.confidence >= floor
                /\ kind \in {"", r.kind} /\ language \in {"", r.language}
                /\ c.project \in {"*", r.project}}
        nothing == fits(c.kind, c.language, first, 0) = {}
        anyKind == fits("", c.language, first, 0) # {}
        anyLanguage == fits(c.kind, "", first, 0) # {}
        anyBoth == fits("", "", first, 0) # {}
        isSo ==
            CASE said.why = "confidence" -> fits(c.kind, c.language, corpora, 0) # {}
              [] said.why \in {"kind", "kind spelt"} -> nothing /\ anyKind
              [] said.why \in {"language", "language spelt"} -> nothing /\ anyLanguage
              [] said.why = "corpus" ->
                    nothing /\ fits(c.kind, c.language, {"code"}, 0) # {}
              [] said.why = "both" ->
                    nothing /\ ~ anyKind /\ ~ anyLanguage /\ anyBoth
              [] said.why = "unsupported_language" -> TRUE
              [] said.why = "past the end" -> said.total > 0
              [] OTHER -> /\ c.kind # "" => ~ anyKind
                          /\ c.language # "" => ~ anyLanguage
                          /\ ~ anyBoth
        asTyped == Se!Raw(c.query) = Se!Sanitized(c.query)
        blames == said.why \notin {"nothing", "stale_index", "unsupported_language"}
        finds(then) == then.ok /\ then.page # <<>>
    IN  IF said.ok
        THEN /\ ToSet(said.page) \subseteq fits(c.kind, c.language, taken, Se!FloorOf(c))
             /\ \A r \in ToSet(said.hidden) :
                    r.kind # c.kind /\ r \in fits("", c.language, first, 0)
             /\ said.page = <<>> =>
                /\ \/ Se!OffsetOf(c) > 0
                   \/ fits(c.kind, c.language, corpora, Se!FloorOf(c)) = {}
                   \/ said.why = "confidence"
                /\ asTyped \/ said.why = "confidence" => isSo
                /\ blames /\ asTyped /\ c.project = Se!Session => finds(reply.then[1])
        ELSE said.error = "syntax" => \E i \in DOMAIN reply.then : reply.then[i].ok

(***************************************************************************)
(* Search leaves out no row that fits the call and does not pass off other *)
(* rows as such: its rows pass the filters and the floor and hold the      *)
(* words of the query, or it names the corpus and the form it took         *)
(* instead; and the reason it gives for having none is so: without the     *)
(* filter it blames there are rows, and when it blames none, there are     *)
(* none without any one of them.  The first call that it suggests finds    *)
(* something, a query that the index rejects can be mended by one of its   *)
(* suggestions, and a row that a kind is said to hide has the queried name *)
(* and another kind.                                                       *)
(***************************************************************************)
SilenceIsExplained ==
    question.is = "search" =>
        IsExplained(question.of.call,
                    Se!MeantRows(question.of.table, answer, question.of.call), answer)
=============================================================================
