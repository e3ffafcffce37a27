---------------------------- MODULE SymbolTable ----------------------------
(***************************************************************************)
(* The symbol rows of the session's project, the full-text index that      *)
(* triggers keep beside them, and the redirects from the ids of symbols    *)
(* whose file was renamed: what index passes, fetched documents, renames   *)
(* and a rebuild do to them, and what symbol, neighborhood and search then *)
(* answer (db.go, corpus.go, indexer.go, server.go, neighborhood.go).      *)
(*                                                                         *)
(* An id is <<file, name>>.  One word stands for the indexed text of a     *)
(* symbol.  The crashes and failures of a pass are Indexer's subject.      *)
(***************************************************************************)
EXTENDS Naturals, FiniteSets, FiniteSetsExt, Functions, SequencesExt

CONSTANTS
    Walked,         \* the paths of the project, in the order of the walk
    Trees,          \* the trees at the start: [path -> a text or NoText]
    Words,
    Url,            \* of the one document that is fetched
    External,       \* the path of placeholders for imported modules
    NoText,
    Mirrors,        \* which ids another indexed project may hold
    MaxTouches,     \* renames and edits on disk
    MaxFetches      \* documents fetched

Paths == ToSet(Walked)

\* The text of a file: the words of its symbols, of which there are finitely many.
IsText(t) ==
    /\ t = [lang |-> t.lang, imports |-> t.imports,
            words |-> [n \in DOMAIN t.words |-> t.words[n]]]
    /\ IsFiniteSet(DOMAIN t.words)

ASSUME TableConstantsOK ==
    /\ Walked \in Seq(Paths)
    /\ \A t \in Trees : /\ t = [p \in Paths |-> t[p]]
                        /\ \A p \in Paths : t[p] = NoText \/ IsText(t[p])
    /\ Url \notin Paths /\ External \notin Paths /\ Url # External
    /\ MaxTouches \in Nat /\ MaxFetches \in Nat

VARIABLES
    tree,       \* [path -> [lang, imports, words: [name -> word]] or NoText]
    files,      \* the files table, likewise: what each path was extracted from
    symbols,    \* the symbols table: [id -> [rowid, lang, word]]
    postings,   \* [corpus -> pairs <<rowid, word>>], the three vtabs
    moved,      \* symbol_moves: [old id -> new id]
    mirror,     \* the ids of the other project
    pass,       \* [at, left, seen, buffer, imports]
    was,        \* [name -> the paths it has been indexed at], in order
    replaced,   \* whether a row was replaced since the index was built
    touches, fetches

tableVars == <<tree, files, symbols, postings, moved, mirror, pass, was,
               replaced, touches, fetches>>

-----------------------------------------------------------------------------
(* The symbols table and its triggers.                                     *)

Corpora == {"code", "config", "docs"}

ClassifyCorpus(lang) ==
    CASE lang \in {"Document", "Markdown", "HTML"} -> "docs"
      [] lang \in {"YAML"} -> "config"
      [] OTHER -> "code"

Posting(row) == <<row.rowid, row.word>>
PostingsOf(rows, corpus) ==
    {Posting(row) : row \in {r \in rows : ClassifyCorpus(r.lang) = corpus}}

\* The triggers, over all rows of a statement.
AfterInsert(index, rows) == [c \in Corpora |-> index[c] \cup PostingsOf(rows, c)]

\* Mutant: the delete trigger takes every symbol for code.
AfterDeleteOfCode(index, rows) ==
    [index EXCEPT !["code"] = @ \ {Posting(row) : row \in rows}]

AfterDelete(index, rows) == [c \in Corpora |-> index[c] \ PostingsOf(rows, c)]

NextRowid(table) == 1 + Max({0} \cup {table[id].rowid : id \in DOMAIN table})

\* INSERT OR REPLACE of one symbol after the other.  Each gets the next rowid,
\* because a row that it replaces is there until it is in.  recursive_triggers
\* is off, so the replaced row goes without its delete trigger.
Inserted(syms, i) ==
    [rowid |-> NextRowid(symbols) + i - 1, lang |-> syms[i].lang, word |-> syms[i].word]

BulkUpsertSymbols(syms) ==
    LET n == DOMAIN syms
        last(id) == Max({i \in n : syms[i].id = id})
        ids == {syms[i].id : i \in n}
    IN  /\ symbols' = [id \in ids \cup DOMAIN symbols |->
                IF id \in ids THEN Inserted(syms, last(id)) ELSE symbols[id]]
        /\ postings' = AfterInsert(postings, {Inserted(syms, i) : i \in n})
        /\ replaced' = (replaced \/ \E i \in n :
                \/ syms[i].id \in DOMAIN symbols
                \/ \E j \in n : j < i /\ syms[j].id = syms[i].id)

DeleteSymbolsForFiles(gone) ==
    LET ids == {id \in DOMAIN symbols : id[1] \in gone}
    IN  /\ symbols' = Restrict(symbols, DOMAIN symbols \ ids)
        /\ postings' = AfterDelete(postings, {symbols[id] : id \in ids})
        /\ UNCHANGED replaced

\* The backfill of ftsCorpusSplitDDL: its docs clause leaves HTML out, which
\* its other clauses and the triggers count among the docs.
RebuildFTS ==
    /\ postings' = [c \in Corpora |->
            {Posting(symbols[id]) : id \in {i \in DOMAIN symbols :
                /\ ClassifyCorpus(symbols[i].lang) = c
                /\ symbols[i].lang # "HTML"}}]
    /\ replaced' = FALSE
    /\ UNCHANGED <<tree, files, symbols, moved, mirror, pass, was, touches,
                   fetches>>

-----------------------------------------------------------------------------
(* Moves.                                                                  *)

\* Mutant: a redirect is recorded only when the old file still has the symbol
\* in the tree, as for a copy.
DetectCopies(syms) ==
    FoldSeq(LAMBDA sym, redirects :
                LET others == {id \in DOMAIN symbols : id[2] = sym.id[2]
                                        /\ id # sym.id /\ tree[id[1]] # NoText}
                IN  IF others = {} THEN redirects
                    ELSE ((CHOOSE id \in others : TRUE) :> sym.id) @@ redirects,
            moved, syms)

\* For each of syms the row of that name under another id, if any, gets a
\* redirect to it.
DetectAndRecordMoves(syms) ==
    FoldSeq(LAMBDA sym, redirects :
                LET others == {id \in DOMAIN symbols : id[2] = sym.id[2]
                                                       /\ id # sym.id}
                IN  IF others = {} THEN redirects
                    ELSE ((CHOOSE id \in others : TRUE) :> sym.id) @@ redirects,
            moved, syms)

ResolveStaleID(id) == IF id \in DOMAIN moved THEN {moved[id]} ELSE {}

-----------------------------------------------------------------------------
(* An index pass: the walk, which extracts what has changed, the flushes   *)
(* of the buffered symbols, the placeholders of the imports, and the       *)
(* collection of the files that are gone.                                  *)

NoPass == [at |-> "idle", left |-> <<>>, seen |-> {}, buffer |-> {}, imports |-> FALSE]

BeginPass ==
    /\ pass.at = "idle"
    /\ pass' = [NoPass EXCEPT !.at = "walk", !.left = Walked]
    /\ UNCHANGED <<tree, files, symbols, postings, moved, mirror, was, replaced,
                   touches, fetches>>

SymbolsIn(path) ==
    {[id |-> <<path, n>>, lang |-> tree[path].lang, word |-> tree[path].words[n]]
        : n \in DOMAIN tree[path].words}

Walk ==
    /\ pass.at = "walk" /\ pass.left # <<>>
    /\ LET path == Head(pass.left)
           present == tree[path] # NoText
           changed == present /\ tree[path] # files[path]
       IN  /\ pass' = [pass EXCEPT
                !.left = Tail(@),
                !.seen = IF present THEN @ \cup {path} ELSE @,
                !.buffer = IF changed THEN @ \cup SymbolsIn(path) ELSE @,
                !.imports = @ \/ (changed /\ tree[path].imports)]
           /\ files' = IF changed THEN [files EXCEPT ![path] = tree[path]] ELSE files
           /\ DeleteSymbolsForFiles(IF changed THEN {path} ELSE {})
    /\ UNCHANGED <<tree, moved, mirror, was, touches, fetches>>

\* Any part of the buffer, when it is full, or what is left after the walk.
FlushBatch ==
    /\ pass.at = "walk" /\ pass.buffer # {}
    /\ \E batch \in (SUBSET pass.buffer) \ {{}} : \E syms \in SetToSeqs(batch) :
        /\ pass.left = <<>> => batch = pass.buffer
        /\ moved' = DetectAndRecordMoves(syms)
        /\ BulkUpsertSymbols(syms)
        /\ pass' = [pass EXCEPT !.buffer = @ \ batch]
    /\ UNCHANGED <<tree, files, mirror, was, touches, fetches>>

\* resolveImports: the placeholder of the module that a changed file imports.
ResolveImports ==
    /\ pass.at = "walk" /\ pass.left = <<>> /\ pass.buffer = {}
    /\ BulkUpsertSymbols(
            IF pass.imports
            THEN <<[id |-> <<External, External>>, lang |-> "External",
                    word |-> External]>>
            ELSE <<>>)
    /\ pass' = [pass EXCEPT !.at = "collect"]
    /\ UNCHANGED <<tree, files, moved, mirror, was, touches, fetches>>

\* The paths of the files and of the symbols that the walk did not see,
\* fetched documents among them.
CollectGarbage ==
    /\ pass.at = "collect"
    /\ LET known == {p \in Paths : files[p] # NoText}
                    \cup {id[1] : id \in DOMAIN symbols}
           gone == known \ (pass.seen \cup {External})
       IN  /\ DeleteSymbolsForFiles(gone)
           /\ files' = [p \in Paths |-> IF p \in gone THEN NoText ELSE files[p]]
    /\ pass' = NoPass
    /\ was' = [n \in DOMAIN was |->
            LET at == {p \in Paths : <<p, n>> \in DOMAIN symbols'} IN
            IF files' = tree /\ (was[n] = <<>> \/ at # {Last(was[n])})
            THEN was[n] \o SetToSeq(at) ELSE was[n]]
    /\ UNCHANGED <<tree, moved, mirror, touches, fetches>>

-----------------------------------------------------------------------------
(* Fetched documents, and the disk.                                        *)

HandleFetch(word) ==
    /\ fetches < MaxFetches
    /\ BulkUpsertSymbols(<<[id |-> <<Url, Url>>, lang |-> "Document", word |-> word]>>)
    /\ fetches' = fetches + 1
    /\ UNCHANGED <<tree, files, moved, mirror, pass, was, touches>>

\* Renames that may leave no redirect: during a pass, whose walk may see the
\* file at both paths or at neither, and onto a path whose old rows are not
\* collected yet, which then go with the extraction of the file that takes it.
Untracked(from, to, n) ==
    IF n \in DOMAIN tree[from].words THEN pass.at # "idle"
    ELSE files[to] # NoText /\ n \in DOMAIN files[to].words

Rename(from, to) ==
    /\ touches < MaxTouches /\ tree[from] # NoText /\ tree[to] = NoText
    /\ tree' = [tree EXCEPT ![from] = NoText, ![to] = tree[from]]
    /\ was' = [n \in DOMAIN was |-> IF Untracked(from, to, n) THEN <<>> ELSE was[n]]
    /\ touches' = touches + 1
    /\ UNCHANGED <<files, symbols, postings, moved, mirror, pass, replaced, fetches>>

Edit(path, n, word) ==
    /\ touches < MaxTouches /\ tree[path] # NoText
    /\ n \in DOMAIN tree[path].words /\ word # tree[path].words[n]
    /\ tree' = [tree EXCEPT ![path].words[n] = word]
    /\ touches' = touches + 1
    /\ UNCHANGED <<files, symbols, postings, moved, mirror, pass, was, replaced,
                   fetches>>

-----------------------------------------------------------------------------
(* The readers.  The rows of an id: <<"own", id>> or <<"other", id>>.      *)

GetSymbolScoped(project, id) ==
    {r \in {<<"own", id>>, <<"other", id>>} :
        /\ r[1] = project
        /\ id \in (IF project = "own" THEN DOMAIN symbols ELSE mirror)}

GetSymbol(id) == GetSymbolScoped("own", id) \cup GetSymbolScoped("other", id)

Unscoped == {"unset", "*"}

LookUp(project, id) ==
    IF project \notin Unscoped THEN GetSymbolScoped(project, id)
    ELSE IF project = "unset" /\ GetSymbolScoped("own", id) # {}
         THEN GetSymbolScoped("own", id)
    ELSE GetSymbol(id)

Redirected(project, id) ==
    UNION {IF project \in Unscoped THEN GetSymbol(new)
           ELSE GetSymbolScoped(project, new) : new \in ResolveStaleID(id)}

\* handleSymbol, and handleNeighborhood for its seed: the rows it may answer
\* with; "elsewhere" and "not found" are its two errors.
HandleSymbol(project, id, crossAllowed) ==
    LET found == IF LookUp(project, id) # {} THEN LookUp(project, id)
                 ELSE Redirected(project, id)
        strict == project = "unset" /\ ~ crossAllowed
    IN  IF found = {} THEN {<<"not found", id>>}
        ELSE {IF strict /\ r[1] # "own" THEN <<"elsewhere", id>> ELSE r : r \in found}

SearchSymbolsByCorpus(corpus, word) ==
    {id \in DOMAIN symbols : <<symbols[id].rowid, word>> \in postings[corpus]}

-----------------------------------------------------------------------------
TableInit ==
    /\ tree \in Trees
    /\ files = [p \in Paths |-> NoText]
    /\ symbols = <<>> /\ moved = <<>>
    /\ postings = [c \in Corpora |-> {}]
    /\ mirror \in Mirrors
    /\ pass = NoPass
    /\ was = [n \in UNION {DOMAIN tree[p].words : p \in {q \in Paths : tree[q] # NoText}}
                |-> <<>>]
    /\ replaced = FALSE /\ touches = 0 /\ fetches = 0

TableNext ==
    \/ BeginPass \/ Walk \/ FlushBatch \/ ResolveImports \/ CollectGarbage
    \/ RebuildFTS
    \/ \E w \in Words : HandleFetch(w)
    \/ \E p, q \in Paths : Rename(p, q)
    \/ \E p \in Paths, n \in DOMAIN was, w \in Words : Edit(p, n, w)

-----------------------------------------------------------------------------
(***************************************************************************)
(* The id a symbol had before its file was renamed leads to the symbol, as *)
(* its id of today does, once a pass has seen the rename.  Excepted are    *)
(* ids from before an earlier rename (redirects are not followed twice),   *)
(* files renamed while a pass runs or whose path another file takes before *)
(* the next pass, and, when the call names no project, ids of which        *)
(* another indexed project has the old or the new one.                     *)
(***************************************************************************)
StaleIdLeadsHome ==
    pass.at = "idle" /\ files = tree =>
        \A n \in DOMAIN was, project \in Unscoped \cup {"own"} :
            \A i \in DOMAIN was[n] :
                LET id == <<was[n][i], n>>
                    now == <<Last(was[n]), n>>
                IN  /\ i >= Len(was[n]) - 1
                    /\ project = "own" \/ mirror \cap {id, now} = {}
                    => HandleSymbol(project, id, FALSE) = {<<"own", now>>}

(***************************************************************************)
(* Search finds every symbol by its words, in the corpus of its language,  *)
(* and what it finds holds the word.  Excepted are HTML symbols, which a   *)
(* rebuild leaves out, and hits after a row has been replaced (a document  *)
(* fetched again, the placeholder of an import): the replaced text stays   *)
(* in the index and is found again as any later row that gets its rowid.   *)
(***************************************************************************)
HitsAreHonest ==
    /\ \A id \in DOMAIN symbols : symbols[id].lang # "HTML" =>
        id \in SearchSymbolsByCorpus(ClassifyCorpus(symbols[id].lang), symbols[id].word)
    /\ ~ replaced => \A c \in Corpora, w \in Words \cup {External} :
        \A id \in SearchSymbolsByCorpus(c, w) :
            symbols[id].word = w /\ ClassifyCorpus(symbols[id].lang) = c
=============================================================================
