------------------------------ MODULE SearchTool ------------------------------
(***************************************************************************)
(* The search tool (handleSearch in internal/server/server.go): how a      *)
(* query is made fit for the full-text index, the forms and corpora it is  *)
(* retried in, the filters, the page, and what is said of an answer that   *)
(* is empty.  Listing has its pages alone.                                 *)
(*                                                                         *)
(* A row of the table is [words, kind, language, corpus, confidence,       *)
(* project, file]: its words as they are indexed, its name first, in the   *)
(* order of rank.  A token of a query is [words, star, shape]: what the    *)
(* index makes of it, "*" at its end, and whether it is "plain", "camel",  *)
(* "dotted" (os.Stat), "odd" (f(x)) or an "operator".                      *)
(***************************************************************************)
EXTENDS Integers, FiniteSets, SequencesExt

CONSTANTS
    Beginnings,             \* the pairs of a word and one that it begins
    Canonical,          \* the spelling of each kind and language, "" if unknown
    Stubs,              \* languages whose extractor finds nothing
    RowKeys,            \* the keys of a row
    Crowd, CrowdFiles,  \* suggestNextStepsForResults: 10 and 5
    DefaultLimit, LimitCap, OffsetCap   \* 20, 500 and 5000

\* Confidences are percentages.
BaseFloor == 71

\* The project of the session, where a call goes that names none.
Session == "session"

-----------------------------------------------------------------------------
(* The query: [form, tokens], where form is "bare", "quoted", "unbalanced" *)
(* or "regex".  An expression is a sequence of items, each [op, words,     *)
(* star, sound], where op is "" for a word or phrase, and sound says       *)
(* whether the index can read it.                                          *)

IsOperator(t) == t.shape = "operator"
HasOperator(q) == \E i \in DOMAIN q.tokens : IsOperator(q.tokens[i])

\* As typed, and (wrapTokenIfNeeded) in quotes if there is a need.
Bare(t) ==
    [op |-> IF IsOperator(t) THEN t.words[1] ELSE "", words |-> t.words,
     star |-> t.star, sound |-> t.shape \in {"plain", "camel"} /\ t.words # <<>>]

Wrapped(t) ==
    IF t.shape \in {"camel", "dotted", "odd"} THEN [Bare(t) EXCEPT !.sound = TRUE]
    ELSE Bare(t)

Each(ts, Of(_)) == [i \in DOMAIN ts |-> Of(ts[i])]

Phrase(q) ==
    <<[op |-> "", words |-> FlattenSeq(Each(q.tokens, LAMBDA t : t.words)),
       star |-> FALSE, sound |-> TRUE]>>

LooksDeliberate(q) ==
    /\ Len(q.tokens) <= 5
    /\ \A i \in DOMAIN q.tokens :
        q.tokens[i].shape # "odd" /\ q.tokens[i].words # <<>>
    /\ \E i \in DOMAIN q.tokens :
        ~ IsOperator(q.tokens[i])
        /\ (q.tokens[i].star \/ q.tokens[i].shape # "plain")

Sanitized(q) ==
    IF q.form = "quoted" THEN Phrase(q)
    ELSE IF Len(q.tokens) > 1 /\ HasOperator(q) /\ ~ LooksDeliberate(q) THEN Phrase(q)
    ELSE Each(q.tokens, Wrapped)

\* The query as it is, which is what the probes of an empty answer use.
Raw(q) == IF q.form = "quoted" THEN Phrase(q) ELSE Each(q.tokens, Bare)

AnyOf(q) ==
    FlattenSeq([i \in DOMAIN q.tokens |->
        IF i = 1 THEN <<Wrapped(q.tokens[i])>>
        ELSE <<[op |-> "OR", words |-> <<>>, star |-> FALSE, sound |-> TRUE],
               Wrapped(q.tokens[i])>>])

IsExactIdentifier(q) ==
    q.form = "bare" /\ Len(q.tokens) = 1
    /\ q.tokens[1].shape \in {"plain", "camel", "operator"} /\ ~ q.tokens[1].star

StripTrailingBoolean(q) ==
    IF q.form = "bare" /\ Len(q.tokens) > 1 /\ IsOperator(Last(q.tokens))
    THEN [q EXCEPT !.tokens = Front(@)] ELSE q

-----------------------------------------------------------------------------
(* The full-text index, as SQLite documents it: words without an operator  *)
(* between them bind most closely, then NOT, AND and OR; a phrase without  *)
(* words counts beside others and finds nothing alone.                     *)

SplitAt(items, op) ==
    FoldLeft(LAMBDA parts, x : IF x.op = op THEN Append(parts, <<>>)
                               ELSE [parts EXCEPT ![Len(parts)] = Append(@, x)],
             <<<<>>>>, items)

Disjuncts(items) == Each(SplitAt(items, "OR"), LAMBDA c : Each(SplitAt(c, "AND"),
                        LAMBDA d : SplitAt(d, "NOT")))

Parses(items) ==
    /\ \A i \in DOMAIN items : items[i].op = "" => items[i].sound
    /\ LET ds == Disjuncts(items) IN
       \A i \in DOMAIN ds : \A j \in DOMAIN ds[i] : \A k \in DOMAIN ds[i][j] :
            ds[i][j][k] # <<>>

Occurs(item, text) ==
    LET n == Len(item.words) IN
    \E from \in 0 .. Len(text) - n : \A j \in 1 .. n :
        \/ text[from + j] = item.words[j]
        \/ j = n /\ item.star /\ <<item.words[j], text[from + j]>> \in Beginnings

Satisfies(text, items) ==
    LET all(part) == /\ \E k \in DOMAIN part : part[k].words # <<>>
                     /\ \A k \in DOMAIN part : Occurs(part[k], text)
        ds == Disjuncts(items)
    IN  \E i \in DOMAIN ds : \A j \in DOMAIN ds[i] :
            /\ all(ds[i][j][1])
            /\ \A k \in 2 .. Len(ds[i][j]) : ~ all(ds[i][j][k])

CorpusOf(c) == IF c = "" THEN "code" ELSE c

\* SearchSymbolsByCorpus; kind and language are compared as they are spelt.
SearchSymbols(table, items, f, corpus, most) ==
    LET fits(r) == /\ r.corpus = CorpusOf(corpus)
                   /\ f.project \in {"*", r.project}
                   /\ f.kind \in {"", r.kind} /\ f.language \in {"", r.language}
                   /\ Satisfies(r.words, items)
        found == SelectSeq(table, fits)
    IN  IF Parses(items)
        THEN [ok |-> TRUE, rows |-> SubSeq(found, 1, IF Len(found) < most THEN Len(found) ELSE most)]
        ELSE [ok |-> FALSE, rows |-> <<>>]

-----------------------------------------------------------------------------
(* The arguments of a call: [query, kind, language, corpus, project, floor,*)
(* limit, offset, snippet, fields, compact], where floor, limit, offset    *)
(* and snippet are sets with a number or nothing.                          *)

Given(arg, default) == IF arg = {} THEN default ELSE CHOOSE n \in arg : TRUE

Clamp(n, low, high) == IF n < low THEN low ELSE IF n > high THEN high ELSE n

Corpora == {"code", "config", "docs"}

\* A limit of 0 or less is the default.
LimitOf(c) ==
    LET n == Given(c.limit, DefaultLimit) IN
    IF n <= 0 THEN DefaultLimit ELSE Clamp(n, 1, LimitCap)

OffsetOf(c) == Clamp(Given(c.offset, 0), 0, OffsetCap)

DefaultFloor(c) ==
    IF c.corpus = "docs" \/ IsExactIdentifier(c.query) THEN 0 ELSE BaseFloor

\* "all" has become "" by then.
Searched(c) == IF c.corpus = "all" THEN "" ELSE c.corpus

FloorOf(c) == Clamp(Given(c.floor, DefaultFloor(c)), 0, 100)

FetchLimit(c) ==
    IF FloorOf(c) > 0 THEN 4 * (LimitOf(c) + OffsetOf(c)) ELSE LimitOf(c) + OffsetOf(c)

SnippetLines(c) == Clamp(Given(c.snippet, IF IsExactIdentifier(c.query) THEN 0 ELSE 5), 0, 20)

Warnings(c) ==
    LET cut(arg, n) == arg # {} /\ n \notin arg IN
    {w \in {"kind", "language", "corpus", "limit", "offset", "min_confidence",
            "snippet_lines"} :
        CASE w = "kind" -> c.kind # "" /\ Canonical[c.kind] = ""
          [] w = "language" -> c.language # "" /\ Canonical[c.language] = ""
          [] w = "corpus" -> c.corpus = "all"
          [] w = "limit" -> cut(c.limit, LimitOf(c))
          [] w = "offset" -> cut(c.offset, OffsetOf(c))
          [] w = "min_confidence" -> cut(c.floor, FloorOf(c))
          [] w = "snippet_lines" -> cut(c.snippet, SnippetLines(c))}

\* fields: the names asked for, {""} when there are only commas.
Asked(c) == c.fields \cap RowKeys
FieldsWarned(c) == ~ (c.fields \subseteq RowKeys)

\* The keys of a row of the answer; those that compact leaves out are null
\* when they are asked for.
Keys(c) ==
    IF Asked(c) # {} THEN Asked(c)
    ELSE RowKeys \ ((IF c.compact THEN {"language", "extraction_confidence", "snippet"} ELSE {})
                    \cup (IF c.project = "*" THEN {} ELSE {"project_id"}))

ReadsSnippet(c, row) ==
    /\ ~ c.compact /\ SnippetLines(c) > 0
    /\ Asked(c) = {} \/ "snippet" \in Asked(c)
    /\ row.kind \notin {"Variable", "Type"}

-----------------------------------------------------------------------------
(* The forms and corpora that are tried when nothing was found.            *)

Tries(c) ==
    LET q == c.query
        places == IF Searched(c) = "" THEN <<"", "config", "docs">> ELSE <<Searched(c)>>
        of(form, items) == Each(places, LAMBDA p : [form |-> form, items |-> items, corpus |-> p])
        starred == <<[Bare(q.tokens[1]) EXCEPT !.star = TRUE]>>
    IN  of("typed", Sanitized(q))
        \o (IF q.form = "bare" /\ Len(q.tokens) > 1 /\ ~ HasOperator(q)
            THEN of("any", AnyOf(q)) ELSE <<>>)
        \o (IF IsExactIdentifier(q) THEN of("prefix", starred) ELSE <<>>)

\* The first that finds something, or the first.
FirstFound(results) ==
    LET hits == {i \in DOMAIN results : results[i].rows # <<>>} IN
    results[IF hits = {} THEN 1 ELSE CHOOSE i \in hits : \A j \in hits : i <= j]

Taken(table, c) ==
    FirstFound(Each(Tries(c), LAMBDA t :
        [form |-> t.form, fellThroughTo |-> IF Searched(c) = "" THEN t.corpus ELSE "",
         rows |-> SearchSymbols(table, t.items, c, t.corpus, FetchLimit(c)).rows]))

-----------------------------------------------------------------------------
(* What follows an answer.                                                 *)

Call(q) ==
    [query |-> q, kind |-> "", language |-> "", corpus |-> "", project |-> Session,
     floor |-> {}, limit |-> {}, offset |-> {}, snippet |-> {}, fields |-> {}, compact |-> FALSE]

\* Mutant: a probe looks for the words in the default corpus.
RelaxesToo(table, c, kind, language, corpus) ==
    SearchSymbols(table, Raw(c.query),
        [kind |-> kind, language |-> language, project |-> c.project], "", 1).rows # <<>>

\* Whether a probe with other filters finds anything; a query the index
\* rejects finds nothing.
Relaxes(table, c, kind, language, corpus) ==
    SearchSymbols(table, Raw(c.query),
        [kind |-> kind, language |-> language, project |-> c.project], corpus, 1).rows # <<>>

\* The reasons in their order, each with the filters of its probe, the call
\* it suggests, and whether it can be at all.  What a filter that is spelt
\* right finds, no filter finds too.
Causes(c) ==
    LET all == Call(c.query)
        kindRight == Canonical[c.kind]
        languageRight == Canonical[c.language]
        corpus == Searched(c)
    IN  <<[why |-> "kind spelt", can |-> c.kind # "" /\ kindRight \notin {"", c.kind},
           kind |-> kindRight, language |-> c.language, corpus |-> corpus,
           next |-> [all EXCEPT !.kind = kindRight]],
          [why |-> "kind", can |-> c.kind # "",
           kind |-> "", language |-> c.language, corpus |-> corpus, next |-> all],
          [why |-> "language spelt",
           can |-> c.language # "" /\ languageRight \notin {"", c.language},
           kind |-> c.kind, language |-> languageRight, corpus |-> corpus,
           next |-> [all EXCEPT !.language = languageRight]],
          [why |-> "language", can |-> c.language # "",
           kind |-> c.kind, language |-> "", corpus |-> corpus, next |-> all],
          [why |-> "corpus", can |-> corpus \notin {"", "code"},
           kind |-> c.kind, language |-> c.language, corpus |-> "code", next |-> all],
          [why |-> "both", can |-> c.kind # "" /\ c.language # "",
           kind |-> "", language |-> "", corpus |-> corpus, next |-> all]>>

\* verifyEmptySearchCause: <<reason, the call it suggests>>, or nothing.
VerifyEmptySearchCause(table, c, raw) ==
    LET isSo(x) == x.can /\ Relaxes(table, c, x.kind, x.language, x.corpus)
        x == SelectInSeq(Causes(c), isSo)
    IN  IF FloorOf(c) > 0 /\ raw > 0
        THEN <<"confidence", [Call(c.query) EXCEPT !.floor = {0}]>>
        ELSE IF x = 0 THEN <<>> ELSE <<Causes(c)[x].why, Causes(c)[x].next>>

SuggestEmptySearchNextSteps(c) ==
    <<"nothing", IF FloorOf(c) > 0 THEN [Call(c.query) EXCEPT !.floor = {0}] ELSE Call(c.query)>>

\* Its reasons, and the first search that each suggests.
Explained(c, verified, stale) ==
    LET same == [Call(c.query) EXCEPT !.kind = c.kind, !.language = c.language,
                                      !.corpus = Searched(c)]
    IN  CASE Canonical[c.language] \in Stubs ->
                <<"unsupported_language", [same EXCEPT !.language = ""]>>
          [] verified # <<>> -> verified
          [] stale /\ c.project # "*" -> <<"stale_index", same>>
          [] OTHER -> SuggestEmptySearchNextSteps(c)

\* The rows that the result set is about, by their tools.
SuggestNextSteps(rowsOf) ==
    LET top == rowsOf[1]
        twins == {i \in DOMAIN rowsOf : rowsOf[i].words[1] = top.words[1]}
        files == {rowsOf[i].file : i \in DOMAIN rowsOf}
        steps == CASE top.kind \in {"Function", "Method"} ->
                        <<"context", IF Cardinality(twins) > 1 THEN "trace qualified" ELSE "trace">>
                   [] top.kind \in {"Class", "Interface", "Type", "Enum"} -> <<"context">>
                   [] OTHER -> <<"symbol">>
    IN  IF Len(rowsOf) > Crowd /\ Cardinality(files) > CrowdFiles
        THEN <<"architecture", steps[1]>>
        ELSE IF Len(rowsOf) = 1 /\ top.confidence >= 90 THEN <<steps[1]>>
        ELSE steps

\* The row of the query's very name that the kind hides, if the answer has
\* none of that name.
HiddenByKind(table, c, rowsOf) ==
    LET isNamed(r) == r.words[1] = c.query.tokens[1].words[1]
        relaxed == SearchSymbols(table, Sanitized(c.query), [c EXCEPT !.kind = ""], Searched(c), 5).rows
        exact == SelectSeq(relaxed, isNamed)
    IN  IF c.kind # "" /\ IsExactIdentifier(c.query) /\ SelectSeq(rowsOf, isNamed) = <<>>
           /\ exact # <<>>
        THEN <<exact[1]>> ELSE <<>>

-----------------------------------------------------------------------------
Refused(why, calls) == [ok |-> FALSE, error |-> why, next |-> calls]

Rejected(c) ==
    IF c.query.tokens = <<>> THEN Refused("empty", <<>>)
    ELSE IF c.query.form \in {"unbalanced", "regex"} THEN Refused(c.query.form, <<>>)
    ELSE IF Len(c.query.tokens) = 1 /\ c.query.tokens[1].words = <<>> /\ c.query.tokens[1].star
         THEN Refused("no stem", <<>>)
    ELSE IF Searched(c) \notin Corpora \cup {""}
         THEN Refused("corpus", <<Call(c.query)>>)
    ELSE IF c.project = "unknown" THEN Refused("project", <<>>)
    ELSE IF ~ Parses(Sanitized(c.query))
         THEN Refused("syntax", <<Call(StripTrailingBoolean(c.query)),
                                  Call([c.query EXCEPT !.form = "quoted"])>>)
    ELSE Refused("none", <<>>)

\* What passes the floor, and the page of it.
Kept(c, raw) ==
    IF FloorOf(c) > 0 THEN SelectSeq(raw, LAMBDA r : r.confidence >= FloorOf(c)) ELSE raw

End(c, total) == Clamp(OffsetOf(c) + LimitOf(c), 0, total)

\* stale: the project was indexed by an older binary.
Because(table, c, stale, raw, total, page) ==
    CASE page # <<>> -> <<"found">>
      [] total > 0 ->
            <<"past the end", [Call(c.query) EXCEPT !.kind = c.kind, !.language = c.language,
                                                    !.corpus = Searched(c)]>>
      [] OTHER -> Explained(c, VerifyEmptySearchCause(table, c, Len(raw)), stale)

Answered(table, c, taken, total, page, why) ==
    [ok |-> TRUE, page |-> page, total |-> total,
     more |-> page # <<>> /\ (End(c, total) < total \/ total >= FetchLimit(c)),
     form |-> taken.form, fellThroughTo |-> taken.fellThroughTo,
     why |-> why[1], next |-> Tail(why),
     hidden |-> IF page = <<>> THEN <<>> ELSE HiddenByKind(table, c, page),
     tools |-> IF page = <<>> THEN <<>> ELSE SuggestNextSteps(page),
     warnings |-> Warnings(c) \cup (IF FieldsWarned(c) THEN {"fields"} ELSE {}),
     keys |-> Keys(c),
     snippets |-> {i \in DOMAIN page : ReadsSnippet(c, page[i])}]

Paged(table, c, stale, taken, kept, page) ==
    Answered(table, c, taken, Len(kept), page,
             Because(table, c, stale, taken.rows, Len(kept), page))

Sifted(table, c, stale, taken, kept) ==
    Paged(table, c, stale, taken, kept,
          SubSeq(kept, OffsetOf(c) + 1, End(c, Len(kept))))

Found(table, c, stale, taken) ==
    Sifted(table, c, stale, taken, Kept(c, taken.rows))

HandleSearch(table, c, stale) ==
    IF Rejected(c).error # "none" THEN Rejected(c)
    ELSE Found(table, c, stale, Taken(table, c))

\* An answer, and those to the calls that it suggests, without a floor.
Pursued(table, said) ==
    [said |-> said,
     then |-> [i \in DOMAIN said.next |->
                HandleSearch(table, [said.next[i] EXCEPT !.floor = {0}], FALSE)]]

Pursue(table, c, stale) == Pursued(table, HandleSearch(table, c, stale))

\* What a row has to be to answer a call in one of its forms.
Meant(r, form, c) ==
    LET plain == c.query.form = "bare" /\ ~ HasOperator(c.query)
        words == {Wrapped(t) : t \in ToSet(c.query.tokens)}
    IN  CASE form = "prefix" -> \A w \in words : Occurs([w EXCEPT !.star = TRUE], r.words)
          [] form = "any" -> \E w \in words : Occurs(w, r.words)
          [] plain -> /\ \A w \in words : Occurs(w, r.words)
                      /\ \E w \in words : w.words # <<>>
          [] OTHER -> Satisfies(r.words, Sanitized(c.query))

MeantRows(table, reply, c) ==
    IF reply.said.ok THEN {r \in ToSet(table) : Meant(r, reply.said.form, c)} ELSE {}
=============================================================================
