# A TLA+ verification of pincherMCP

pincherMCP is a code-intelligence server for MCP clients: it parses a
repository into symbols and call edges, keeps them in SQLite, keeps them up to
date while the files change, and answers an agent's questions about them. This
directory holds models of the parts of it that run concurrently, fail half way,
must converge or compute one answer in several ways, the TLC runs that check
them, and proofs that TLAPS checks.

`PROJECT.json` lists components, runs, mutants, the map from definitions to
source lines, findings, hazards and theorems. Paths below are relative to the
repository root.

## 1. Inventory

### The parts of the system

| Part | Code | State | Operations |
|---|---|---|---|
| Project lock | `internal/index/lockfile.go`, `indexImpl` 311-336 | the in-process `active` map; a lockfile with pid and start time | acquire (exclusive create, write, stale check, reclaim), release, refuse |
| Indexer | `internal/index/indexer.go` `indexImpl`, `flushBuffers`, `resolveCalls`; writers in `internal/db/db.go` | rows: project, files (hash), symbols, pending_edges, edges; in memory: buffers, the sets of seen, extracted and referring files | `Index`, `Index(force)`, `ResolveOnly` |
| Watcher | `Indexer.Watch`, `changedFiles`, `invalidateReferencers` | `selfHealNeeded`, `incrementalSinceHeal` | tick: scan, invalidate, incremental pass, heal |
| Supervisor | `internal/supervisor/supervisor.go` | inner process and pipes, captured handshake, pending probe, restart history | forward both ways, respawn and replay, probe, kill, trip the breaker, shut down |
| Store | `internal/db/db.go`, `corpus.go`, `path.go` | the SQLite schema and its version, project rows, symbols with their full-text index, redirects of renamed symbols | open and migrate, merge duplicate projects, stamp, sweep, delete, upsert and search symbols, record moves, rebuild |
| Closure | `internal/db/closure.go` | the closure table | build, trace |
| Python runner | `internal/ast/python_runner.go`, `python_ast.go`, `python_extract.py` | one interpreter and its pipes, a mutex, an alarm per call | extract, start, reset, time out, fall back |
| Server: session | `internal/server/server.go` | session root and id, project-id cache, background passes | roots, auto-index, resolve a project, index, prune |
| Server: statistics | `server.go`, `next_steps_adherence.go` | counters, event buffer, ring of suggestions, the session's row | count, record, flush, drain, resume |
| Server: tools | `server.go`, `neighborhood.go`, `pagination.go` | none | trace, query, changes, symbol, search, list, neighborhood, dead_code, ... |
| pinchQL engine | `internal/cypher/engine.go` | none | parse, push down to SQL, scan, join, breadth-first expansion, aggregate |
| Other extractors | `internal/ast/extractor.go`, ... | none | bytes of a file to symbols and edges |
| HTTP gateway | `ServeHTTP` in `server.go`, `events.go`, `eventbus.go` | rate windows, subscribers of the event bus | admit, route, page, call a tool, stream events |
| Dashboard, admin | `internal/server/` | none | format what the tools and the store return |
| Command line | `cmd/pinch/` | host configuration files | init, index, doctor, update, supervised, ... |

### How they interact

```
 MCP client <-> Supervisor <-pipes-> Server --- tools, auto-index ---+
                                       |                             v
                                       +-- starts --> Watcher --> Indexer --> Store
 pinch index (another process) ------------------------------------> |
                          Project lock: one pass per project         +--> Python runner
```

* The supervisor and the server talk over two pipes, one JSON-RPC message a
  line. The supervisor knows of the server what it overhears: the handshake,
  and the answers to its own probes.
* The watcher, tool calls and the session's auto-index call the indexer in one
  process; `pinch index` and servers of other sessions do so in others. The
  in-process flag and the lockfile refuse, they do not queue.
* The indexer and its readers share only the database. A pass is many
  transactions, so readers see its middle, and a crash leaves it there.
* The watcher learns what to do from the tree's mtimes, `projects.indexed_at`,
  the `files` rows and `projects.binary_version`, all written by passes that
  may be its own or not.
* Several binaries open one database: each migrates it to the schema it knows,
  merges project rows, and leaves when the schema has outgrown it. A server
  that leaves is respawned by its supervisor and resumes its session's row.
* The goroutines of all passes of a process queue for one Python interpreter.

### What is hard, and what makes each part correct

* **Project lock** (interleaving, crash, pid reuse). At most one holder; a
  crashed holder does not block the project for ever; a refused call leaves
  nothing behind.
* **Indexer** (goroutines per file, failed transactions, cancellation, crash,
  edits during the pass). No edge dangles; a stored hash, `indexed_at` and the
  version stamp may each be trusted by what reads them; an incremental pass
  loses no call; a full pass leaves the edges of the tree; a reader sees a file's
  symbols of one content and links that lead to them (`GraphStore`).
* **Watcher** (stale scan, refused passes, a heal that is owed). No edit escapes
  it, and wrong edges of incremental passes are healed in the end.
* **Supervisor** (five goroutines, a process that dies or hangs anywhere, pipes
  that fill up). The client sees each answer once and only its own; every inner
  meets the handshake before a request; dead and hung inners are replaced, not
  more often than the breaker allows; shutdown completes.
* **Store** (statement-by-statement migrations and merges, two processes, two
  binaries, crashes). The version never claims what has not run; a merge loses no
  symbols; a stamp never goes back, but where a merge meets a pass; the counts that the sweep of empty projects
  trusts are right; search finds what is stored; an id outlives a rename.
* **Python runner** (an alarm that outlives its call, a mutex held over pipe
  I/O). A file gets its own symbols, and every call ends.
* **Server: session and statistics** (concurrent handlers, atomics read one by
  one, overlapping flushes, respawns). A handler never works on a project that is
  not stored; what is counted is written once; an event is kept or dropped once.
* **HTTP gateway** (a fixed chain of checks, requests in parallel, events that are
  dropped or out of date). Every address is answered within its limit; a request
  means the same whatever verb, client or proxy it came by; what a client of the
  event stream was told last is so.
* **Server: tools, pinchQL, closure** (one question, several algorithms). The
  closure, the recursive query and both directions of a pattern agree; WHERE
  means the same in SQL and Go; changes names what an edit changed; pages are
  whole.

Every hazard found in this code is listed under `hazards` in `PROJECT.json`,
at the line where it bites, with the properties that cover it. Not covered, and
not listed there: lines lost in the pipe of a dying inner, the first
`initialize` included (`supervisor.go:401`, which documents it); a respawn after
shutdown has begun (454; the orphan reads EOF); a second `initialize` for a fresh
inner (737); the staged restart reason (651, status only); a late probe answer
that hides a later probe for one interval (573); edges missing between a crash
after the flush and the next project-wide resolve (`indexer.go:1132`); files put
in place with an old mtime (2149); a file that becomes blank and keeps its
pending calls (746).

## 2. Modules

| Module | Models | Runs / proofs |
|---|---|---|
| `GraphStore` | abstract: what a reader of the index may see | refined by `Indexer` |
| `Indexer` | one pass and its rows | `indexer`, `indexer_interrupted` |
| `Indexer_proofs` | EXTENDS `Watcher` | rows, edges, the refinement of `GraphStore`, and that the watcher's passes keep them |
| `Watcher` | EXTENDS `Indexer`: the watcher and other callers around the passes | `watcher`, `watcher_heal` |
| `ProjectLock` | both locks of a pass, one action per file-system call | `pass_resources`, `project_lock_exclusion` |
| `PythonRunner` | the shared interpreter, its callers and alarms | `pass_resources` |
| `Resolution` | how names become edges: imports, calls, reads, variable uses | `pass_resources` |
| `PassResources` | `ProjectLock`, `PythonRunner` and `Resolution`, side by side | `pass_resources` |
| `PassResources_proofs` | | locks, interpreter, both together |
| `Supervisor` | the supervisor, its inner and the two pipes | `supervisor`, `supervisor_kill`, `supervisor_shutdown` |
| `Supervisor_proofs` | | the client and a respawn |
| `Store` | processes that open, migrate, merge, index, sweep and leave | `store`, `store_open` |
| `Store_proofs` | | versions, merges, stamps |
| `SessionStats` | counters, events, flushes, resumption | `server` |
| `SessionStats_proofs` | | books and events |
| `SessionProject` | the session's project, auto-index, the id cache | `server` |
| `SymbolTable` | symbols, their full-text index, moves, lookups | `server` |
| `Traversal` | closure, traces, pattern walks | `store` |
| `QueryText` | the query parser, from tokens to clauses | `store` |
| `QueryWarnings` | what is said of a query besides its rows | `store` |
| `PinchQL` | WHERE in SQL and in Go, scans, joins, results | `store` |
| `Changes` | from a diff to the tests to run | `store` |
| `Listing` | pages and cuts of answers | `store` |
| `SearchTool` | the search tool: queries for the index, retries, filters, what is said of nothing | `store` |
| `Gateway` | HTTP requests: admission, routes, replies | `server` |
| `Gateway_proofs` | | the rate limit, the replies |
| `EventStream` | the event bus, its clients and the passes it tells of | `server` |
| `GraphTools` | one question about a graph (trace, pattern, edit, tests), and its answer | `store` |
| `GraphTools_proofs` | | walks, edits |
| `ToolAnswers` | EXTENDS `GraphTools`: the questions to the other tools above, from `QueryText` to `SearchTool` | `store` |
| `StoreTools` | `Store` and `ToolAnswers`, side by side | `store` |
| `Server` | `SessionStats`, `SessionProject`, `SymbolTable`, `Gateway` and `EventStream`, side by side | `server` |
| `Server_proofs` | EXTENDS `Gateway_proofs` and `SessionStats_proofs` | session, symbols, stream, the whole server |
| `MC*` | small instances: files, contents, processes, requests, graphs, tables | |

Each definition's lines are in `PROJECT.json` under `map`. A comment that begins
with "Mutant:" marks a variant of the next definition with a plausible bug; with
it, the property it belongs to is violated.

### ProjectLock

State: the lockfile (absent, empty, or a payload of pid and age), the
per-process `active` flag, and each caller's program counter with what it has
read. `acquireProjectLock` is a sequence of separate system calls, and each is an
action (`Create`, `WritePayload`, `StatLock`, `ReadLock`, `ProbePid`,
`RemoveStale`, `Recreate`, `Release`), because what happens between them is the
point. Crashes, reuse of a dead process's pid and the ageing of a lockfile are
actions of the environment.

### PythonRunner

`mu` is the runner's mutex, `cmd`, `stdin` and `stdout` the interpreter and its
pipes, `alarm[f]` the goroutine that `extract` starts for the call of `f`. That
goroutine reads `r.cmd` twice without the mutex (`killLocked`), so the two reads
are two steps, and between them the call may end, another may start, or a reset
may set `r.cmd` to nil: then pincher dies (`Panic`), against the comment "safe to
call without mu" (106). A stray kill only makes the next call fall back to an
interpreter of its own. Answers are not matched by id, which is sound because a
call that does not read its answer resets the runner. `Hard` files are those
CPython refuses or hangs on. Assumed: an interpreter for one file alone answers
within its own time-out if CPython can parse the file. Left out: machines without
an interpreter, and the ids.

### Supervisor

`main` is `Run`; `cpc` is `pumpClientToInner`; `pump` is `pumpInnerToClient`;
`ppc` is `probeLoop`; `timers` and `killing` are the callbacks of
`time.AfterFunc`. `s.mu` is not a variable: sections that hold it exclusively
(`respawn`, `shutdownInner`, `maybeCaptureInit`) are single steps guarded by
`~WriteBlocked`, and a blocked write, which holds it shared, is a state.
`WriterWaits` is Go's rule that a waiting writer keeps new readers out. The
inner is one record (`respawn` follows `Wait`): running, hung or dead, its stdin
and stdout as bounded sequences, how far its handshake has come. Lines are
named. The quiet window, the status counters and the restart reason are left
out: nothing that is modelled depends on them.

### Indexer and GraphStore

One action per transaction or per piece of memory another goroutine can see:
`Start` (the project row), `Walk(f)` (read, compare hashes, look up referrers,
start the goroutine), `ClearFile(f)` and `CommitFile(f)` (the goroutine),
`FlushBatch`, `FinalFlush`, `Resolve`, `Reap(f)`, `Finish`. `Cancel`/`Abandon`
are the cancelled context, `Crash` the death of the process between any two of
them and inside the three deletes of the tail GC. `Edit(f)` changes the tree at
any time.

The data is abstracted to what the properties tell apart. A file's content is
a value; `Defs` and `Calls` say which names it defines and calls; symbol tables
and pending calls are therefore "the content they were extracted from". A
calling file has one calling symbol. A call whose name the file itself defines
becomes an edge at extraction (`LocalEdges`), the others are deferred and bound
to the definition with the least symbol id (`Target`), as `pickCanonical` does.
CALLS stands for the four kinds, which load, wipe and replace alike. An mtime is
reduced to whether it lies after `indexed_at` (`newer`); `indexed_at` has the
precision of a second, so a file written in the current second (`fresh`) stays
newer.

`history` holds what no code reads: the edges at the start of the pass and the
files that a fault has hit. It is used only in the properties, to say exactly
where the code makes no promise.

`GraphStore` says what readers are promised without passes, goroutines, buffers
and transactions: a file's symbols appear at once, from a content that was read,
and give way only after every link from or to the file is gone; links come with
their file's symbols or when the links of a scope are made anew, and bind a name
to the one symbol it means then. `Indexer` implements it under the mapping
tree <- disk, taken <- read, held <- syms, links <- edges
(`ImplementsGraphStore`): every interleaving, fault and crash of a pass is a step
of it or a stutter.

### Watcher

Extends `Indexer`. A `Tick` scans and decides in one step, `Invalidate`,
`StartIndex`, `IndexReturns`, `StartHeal` and `HealReturns` follow, with steps of
other passes and edits between them. `owner` is who holds the locks of a pass;
the locks themselves are taken at their word here, `ProjectLock` is about them.
`anyActive` sees passes of its own process, not those of `cli`. `Faults` is empty
in the watcher's runs: faults are explored in `Indexer`.

### Store

`pc[p]` is where a process is, from the first statement of `Open` to its exit.
`migrate` is `Bootstrap`, `ReadVersion`, `RunStatement`, `BumpVersion`: each a
transaction of its own, with the schema version and the statements that have run
(`ddl`) as the database. `dedupProjectsByCanonicalPath` is `Scan`, `Move`, `Drop`,
`Unlink`, `Rename`, `RekeyTable`, `Recount`, a step per statement, with foreign
keys off during the rename. `PassStart` to `PassClosure` are the writes of an index
pass that other processes see, without their inside (`Indexer`); the reads of the
binary's stamp, by `GetProject` (`PassStart`), `UpsertProjectMeta` (`PassReread`)
and `UpsertProject` (`PassLook`), are steps before the statements that write it
(`PassMeta`, `PassStamp`), with what was read in `seen`. `ListEmpty` and
`Sweep` are `DeleteEmptyProjects`, `DriftTick` the schema watcher. A statement may
meet a locked database (`Busy`, and `retryOnDBLock`'s attempts), and a process may
die between any two. `scars` remembers a dedup or a pass that was cut short or
met another writer; properties use it to say where the code promises nothing.

What the model shows of the code beside its properties: a rename leaves the
closure rows, and the rows of pending_edges, struct_fields and interface_methods,
under the old id; a merge fails on every Open while its loser has closure rows; a
crash in a rename orphans rows; a crash between merge and recount, or between
flush and stamp, leaves count 0 over rows, which `DeleteEmptyProjects` then
deletes; a deletion during a pass is followed by `UpsertProject` making the row
anew, with the counts of rows that are gone; a dedup does not take the project
lock, so its rename may put a row with a newer stamp under the id between a
pass's read of the stamp and its write, and the older stamp then replaces it. A pass
holds the lock here from start to end; robbed locks are `ProjectLock`'s, and what two
passes at once would do to the stamps is not explored.

### SessionStats

One step per atomic that `jsonResultWithMeta` and `recordQueryMetrics` touch, one
per atomic that `flushSession` loads, then the row, the drain and the insert,
each of which may fail. Two flushes (the ticker's and that of the first call) overlap.
`Ends` is any end of the process, `Resumes` the respawned server that loads the
row of its session. `torn` marks a row that was loaded between two counters of a
handler, against the comment at `server.go:1241`. With two calls, a recovery
credited twice is not reached. `handleStats` and `ListenAndServeHTTP` also flush;
two flushes are enough to overlap. Tokens, latency, languages and queries_total are counted
like calls and left out.

### SessionProject

`once` is `sessionOnce` and what detection has reached; `setRoot` writes two
fields without the mutex its readers hold, so a handler that reads during it sees
the old or the new one (`Read`). `later` are the passes detection starts by
itself, `cache` the id cache, `excused` the answers that no invalidation follows.
The code starts a forced background pass also when the stored stamp is *newer*
(`driftReindexNeeded`), which `indexImpl` 372-382 and `driftFor` treat the other
way; a drift pass that the lock refuses is not retried; auto-index and prune do
not clear the cache, and an answer in flight is stored after it was cleared.

### SymbolTable

The rows with their rowids, and the postings of three full-text tables as the
triggers write them. A pass walks the files in order, buffers the symbols of each,
flushes (where moves are recognised), resolves imports and collects garbage, with
renames and edits of the tree at any time between. Known of the code from it:

1. the backfill of the docs corpus leaves HTML out, which the other two corpora
   exclude: after a rebuild an HTML symbol is in no corpus (against db.go:595);
2. INSERT OR REPLACE without recursive triggers leaves the replaced row's postings,
   and the next row that gets its rowid is found by them; a rebuild heals it;
3. a fetched document is deleted by the garbage collection of the next pass,
   although `docs/reference/tools.md:49` promises that it is stored;
4. redirects are followed one hop; a rename during a walk, a file that takes the
   old path before the next pass and a function moved between living files leave
   no redirect, and twins get wrong ones;
5. a redirected id is looked up without its project when the call names none;
   `context` and `symbols` do not redirect, against `server.go:3918`;
6. `@external/` placeholders survive the garbage collection and win as canonical
   targets.

The source text of a symbol is read in three steps (row, bytes, hashes); a pass in
between gives wrong bytes without a warning. That is not modelled.

### Resolution

`resolveImports`, `resolveCalls`, `resolveReads`, `resolveUsesVar` and
`ReplaceEdgesByKindSource` as operators over an index `[syms, fields, pend,
edges]`; `Indexer` has the pass around them and reduces them to one rule. A
qualified name is a sequence of segments; a platform suffix, a fixture directory
or a star before a type is a constant's value. `CallTarget` is the seven rules in
their order, `ResolveAll` the resolve block of `indexImpl` with its early deletes.
`HandleBind` (in `PassResources`) takes an index, lets files lose symbols, and
resolves it three times: from nothing, after the pass over what was there before, and
once more in the scope of an incremental pass. What `ResolveAgrees` excepts is
known of the code from it:

1. an import hangs on the module symbol with the smallest id, whichever file of
   the package asked; an incremental pass over that file deletes the imports other
   files asked for and does not load their pending edges, against the promise of
   `indexer.go:2704-2706` that unchanged files' edges are not churned;
2. the same for the pending calls that a file keeps when it becomes blank;
3. a pass over the whole project leaves the old edges of a kind when nothing of
   that kind is pending any more, where a scoped pass wipes them.

### Gateway and EventStream

`Arrives` is a request up to the moment `allowRequest` reads the clock, `Counts`
the rest, so two requests of one address may count themselves in the other order.
A path is the prefix of a proxy and an endpoint's name; a reply is its status, its
`Allow` header, what it says, and whether it has a body and is compressed. What the
model shows of the code, and `GatewayIsUniform` excepts:

1. `capabilities`, `bench-results`, `index-progress`, `projects`, `projects/empty`
   and `/` answer a wrong verb with 404 and the list of tools, although
   `httpGetOnlyRoutes` says it is kept in sync with the handlers;
2. the tools `health` and `stats` cannot be called over HTTP: the endpoints of these
   names answer any other verb with 405;
3. HEAD of `/v1/events` is answered 500, as the writer of a HEAD request cannot flush;
4. the public probes need the key when the proxy keeps its prefix, which is stripped
   only after the key was checked;
5. `/v1/sessions` never says that there is more: it fetches just one page.
   `/v1/stats` takes the session that *started* last, not the one seen last as its
   comment says.

A page is as long as was asked, but never longer than the cap of its endpoint
(`ParsePageParams`), so the next page begins where the cap ends; beyond the largest
offset that can be asked for nothing is said of it.

A client of `EventStream` has a channel in the bus' set, a buffer and what it was
told last of each project it watches. Passes of this process publish
`index_started` and `index_complete`; passes of others publish nothing
(`OtherPass`), so a drift that arises after the snapshot is not told, although
`events.go:49` says that it is delivered live; and a pass that fails leaves its
`index_started` without an end. `ToldIsTrue` is about what remains: the last word a
client has read agrees with the row unless the client is behind or
something happened that no event tells.

### SearchTool

The search tool from the query to the suggestions after the answer. A token is what
the full-text index makes of it and its shape; a query is tokens in a form. What SQLite
makes of an expression (`Parses`, `Satisfies`) is modelled from FTS5's own grammar.
`Tries` are the expressions and corpora in the order in which they are tried,
`Explained` the reason for an empty answer, from the probes of
`verifyEmptySearchCause`. What the model shows of the code, and `SilenceIsExplained`
excepts:

1. the probes take the raw query where the search took the sanitized one: those for
   `os.Stat` or `f(x)` fail, so the answer says "no results" although a filter is the
   cause, and those for `a AND b` find rows that the suggested call, which searches the
   phrase, does not, although it is called verified;
2. a suggestion drops the project, the filters it does not blame, and the floor: it
   may find nothing under the tool's own default of 0.71;
3. a corpus whose rows are all below the floor ends the search through the corpora:
   rows of the next one stay unseen, and the answer blames the floor;
4. `corpus=code` is not blamed when the rows are in another corpus;
5. `Foo AND NOT Bar`, which the comment at `server.go:6709` calls an expression of the
   index, is rejected by it; `stripTrailingBoolean` leaves its two operators, or one
   at the start, in place, and only the quoted suggestion works.

### Traversal, QueryText, QueryWarnings, PinchQL, Changes, Listing, GraphTools, ToolAnswers and Server

Pure operators, one per function of the code, applied by actions to every question
over small graphs, tables, edits and lists: `HandleTrace`, `HandleMatch`,
`HandleEdit` and `HandleImpact` of `GraphTools`; `HandleWords`, `HandleMistake`,
`HandleQuery` and `HandleListing` of `ToolAnswers`. `GraphTools` stands apart because
it reaches no recursive operator, and so can be proved about. The
properties compare each answer with a definition that does not look at the
algorithm: chains of edges and their lengths (`WalksAgree`), the words of the query
(`QueryIsHeard`), the mistake it was given (`MistakesAreNamed`), the rows that satisfy
WHERE (`QueryIsExact`), symbols whose text changed and the tests that reach them
(`ChangesAreComplete`), the whole list (`ListsAreWhole`).

`StoreTools` puts them beside `Store`, whose processes rest while a question is
answered: a question brings its own tables. `Server` joins `SessionStats`,
`SessionProject`, `SymbolTable`, `Gateway` and `EventStream` in the same way: the
parts share no variable and wait for nothing of each other, so each is explored
while the others rest: what holds of each holds of all. `PassResources` joins
`ProjectLock`, `PythonRunner` and `Resolution` likewise.

Where the code's algorithms differ, and the properties make an exception:

* *Walks*: a closure built less deep than asked answers to its own depth; for
  both directions it lists a symbol twice; `via` differs between
  the two; a trace's `hops[:max]` cuts an unordered list;
  the label of the end where a walk does not start is ignored; `*2..` means 1..2.
* *Parsing*: a repeated RETURN, ORDER BY or LIMIT replaces the one before; `(`, `BY`,
  `WITH` and `NULL` may be missing; a mark in braces may be taken for a key, which a
  warning then names; a pattern without an arrow, or without its end, is
  taken as outbound. Tokens are given: the tokenizer is not modelled.
* *Warnings*: a variable in ORDER BY, or one without a property in RETURN or COUNT,
  is looked at by no collector.
* *WHERE*: NOT over a comparison with NULL, CONTAINS over a printed NULL, LIKE
  and text ordering regardless of case in SQL only, booleans; `IN` is not in
  `pushableOp`, so Go decides after at most `min(50*maxRows, 10000)` rows; a
  condition on an unbound variable is dropped in an AND chain and false in a tree;
  LIMIT counts joined rows before duplicates go. Comments at engine.go:108, 439, 2464
  and 4469 say that a comparison of two columns is false; the code takes it for true,
  as its own warning says (engine.go:483), and so does the model.
* *Changes*: a symbol whose last lines were replaced by lines outside it is
  missed, and so is one whose first lines were deleted with nothing of its own in
  their place (`HeadGone`): lines of the new file are all that is looked at, and the
  hunk ends before those that are left of the symbol; for `scope=staged` and `base:` the hunks count lines of another file
  version; the risk of what is impacted is that of the first changed symbol.
* *Pages*: search compares the number of filtered rows with the unfiltered fetch
  limit, so it stops early when at most a quarter passes the floor; an offset above 5000
  repeats a page; the next-page arguments of list and neighborhood drop the
  filters; dead_code may say "none" when its first `2*limit` rows are fixtures;
  ties in the ordering are not broken.

## 3. Runs

| Run | Result | Instance | Shows |
|---|---|---|---|
| `pass_resources` | pass, 53 thousand states | a watcher and a tool in one process, a command line in another; crash, pid reuse, ageing; three Python files, one of them hard; 35 thousand indexes of two pending edges over 16 symbols | FlagIsExact, ExclusionUnlessRobbed, CrashedHolderReclaimed, SlowerNeverWrong, EveryCallReturns, ResolveAgrees, CallsAreMeant |
| `project_lock_exclusion` | violation | no crash, no reuse, no ageing | two holders: an empty lockfile is judged corrupt |
| `supervisor` | pass, 115 thousand states | one request after the handshake, one probe id at a time, pipes of 2 lines, breaker at 1 restart | four properties |
| `supervisor_kill` | violation | the same with two probe ids | a fresh inner killed by an old probe |
| `supervisor_shutdown` | violation | | `Run` stuck on the mutex |
| `indexer` | pass, 4.3 million states | three files, two edits, one fault of four kinds, all three kinds of pass | six invariants, and that it implements `GraphStore` |
| `indexer_interrupted` | violation | one crash, no edit | a hashed file without symbols under the running stamp |
| `watcher` | pass, 0.4 million states | three files, one edit, one foreign pass, upgrades, heal after two passes | FilesConverge, HealsWhatItOwes |
| `watcher_heal` | violation | nobody but the watcher | a heal that was scoped and is not owed again |
| `store` | pass, 3.2 million states | two binaries, one directory with three ids, two faults; 110 thousand questions about small graphs, tables, queries, edits, lists and searches | VersionIsEarned, ProjectsAddUp, MergeLosesNoKey, StampNeverGoesBack, WalksAgree and ChangesAreComplete of `GraphTools`, and the five properties of `ToolAnswers` |
| `store_open` | violation | one process, one fault | an Open cut short after ADD COLUMN makes every later one fail |
| `server` | pass, 1.5 million states | two calls, a respawn, a fault; two projects, two handlers, three calls; three paths; requests of every kind; two clients of two projects' events | nine properties |

### Bounds

* `indexer`, `watcher`: three files are the least that distinguish a caller, a
  definition and a rival definition; their id order makes the first edited file
  the canonical owner of the name, so an edit of `a` re-binds the caller `c` from
  `b` and back, and the deletion of `b` reaches the tail GC. `c` also calls a name
  it defines itself, so extraction edges and resolve edges are both there. `blank`
  is a file without symbols, which takes the other commit path. `ScopeThreshold = 2`
  stands for 64: scopes below, at and above it occur. `MaxEdits = 2` lets a file
  change while it is being indexed and change back; `MaxFaults = 1` puts one fault
  at any step, followed by any number of clean passes. `HealThreshold = 2` stands
  for 8.
* `supervisor`: `PipeCap = 2` is the least pipe that holds the replayed handshake
  and can be filled by it; a restart limit of 1 reaches both sides of the breaker,
  and `RestartAges` lets any number of restarts happen.
* `pass_resources`: two callers of one process and one of another reach both locks'
  refusals; with three files, an alarm of the first can meet the call of the
  second while the third waits. A file is not extracted again while the alarm of
  its last call lives.
* `store`: binaries that know versions 2 and 3, databases new or at version 2, a
  migration with a repeatable and one with an unrepeatable statement, the newer schema
in a development build, which `CompareBinaryVersion` ranks below every release, so that
either guard of the stamps has work to do, rows with a binary's stamps or none, the
  directory's id of today, an alias and a former one, one key that may be under
  any, `Attempts = 2`, two faults (one in `store_open`).
* `server`: with `EventCap = RingCap = 1` two calls overflow both; one respawn and
  one fault are enough to lose, keep or repeat anything; a table that holds
  either project or both; a Go file that imports a module, an HTML file, a free
  path and one id another project may hold, two renames or edits, one fetch.
  `Gateway`: a limit of one or two requests in a window of one tick lets a window fill
  and empty twice in the three ticks, with two requests in flight; a setting without
  a limit lets every kind of request through, one at a time. `EventStream`: two
  projects, one client that follows both and one that follows one, buffers of two
  (for 32), two passes and one that no event tells.
* `ToolAnswers`: graphs of four symbols with every subset of seven CALLS
  edges and a READS edge, one symbol perhaps without a row, one a test; `MaxRows`
  and `Enough` 2; queries with every clause in every form, and three long ones with
  one token added, dropped, replaced or swapped at each place; queries with one
  mistake of each kind; lists of at most six rows, limits 0 to 5,
  `DefaultLimit = 2`, `LimitCap = 3`, `OffsetCap = 4`, `Budget = 6`.
* `SearchTool`: tables of up to three of seven rows, which differ in words, kind,
  language, corpus, confidence and project; 28 queries, each with fifteen filters and
  two floors, and three of them with every page, project and shape of a row. A limit
  of 2 for 20 fetches at least as many rows as there are.
* Passes, restarts of the inner, probes and upgrades are not bounded: they repeat
  in cycles.

Deadlock is checked for `pass_resources`, `indexer` and `store`. The supervisor
stops when `Run` has returned, the watcher's runs stop when every bounded call has
been made and nothing is left to do, and so do those of `server`, so these switch
the check off.

### Fairness

* `ProjectLock`: a live caller goes on with its system calls, and a lockfile that
  is left alone gets older. `CrashedHolderReclaimed` supposes that from some time
  on processes no longer die and file-system calls no longer fail; a refusal by
  a live holder is not a failure and may happen for ever.
* `PythonRunner`: a call goes on; a waiting call gets the mutex in the end (strong
  fairness: Go's mutex hands over in order once someone has waited for a
  millisecond); timers go off and their goroutines run. Nothing is assumed of the
  interpreter.
* `Supervisor`: goroutines are scheduled, timers fire, the ticker ticks until
  `cancel()`, and an inner that is up keeps answering. Nothing is assumed of the
  client, of an inner's exit or hang, or of a signal.
* `Watcher`: the ticker ticks for ever, a pass that has begun goes on, seconds
  pass. Its liveness properties also suppose that upgrades come to an end:
  each of them forgets the heal that is owed.

### What the properties except, and why

A property that holds only outside some case names the case. `HashTrusted`
excepts files a fault has hit after their hash was written and `MtimeTrusted` the
files an interrupted pass had not reached: the code keeps no record of either, and
`indexer_interrupted` shows what that leads to. `NoCallLost` and `FullPassIsExact`
except passes that removed a file, because the tail GC runs after the resolve.
`HungInnerReplaced` and `ShutdownUnlessFull` suppose that the inner's stdin has
room, which `supervisor_shutdown` shows to matter. `HealsWhatItOwes` supposes that
passes the watcher does not follow up have left the right edges, which
`watcher_heal` shows not to be so even of its own heals. `ProjectsAddUp`
and `MergeLosesNoKey` except dedups and passes that were cut short
or met another writer, `StampNeverGoesBack` the binary's stamp after such a dedup;
`BooksBalance` a server that resumed from a torn row
or could not read its row, `CacheIsFresh` what no index call
has followed, `SessionIsStored` handlers that read the session while `setRoot`
wrote it, `StaleIdLeadsHome` and `HitsAreHonest` the cases 1, 2, 4 and 5 under
`SymbolTable`; the tools' properties the differences listed above.

### Findings

Six disagreements between the code and its comments or docs, each a run that TLC
refutes: two holders of the project lock, a probe's timeout that kills an innocent
inner, a shutdown that waits for the writer only it could release, hashes that
outlive the symbols of an interrupted pass, a heal that is crossed off before it
turns out not to be one, and a migration that cannot be repeated.
`PROJECT.json` quotes the lines.

## 4. Proofs

TLC checks the instances above; the theorems hold for every value of the
constants that satisfies the `ASSUME` of the module, with no bound on processes,
files, contents, names, requests or capacities. Of the 40 properties that the
passing runs check, 25 are theorems: 21 invariants, three action properties and the
refinement of `GraphStore`.

| Module | Theorems that state a property of a run | Inductive invariant |
|---|---|---|
| `PassResources_proofs` | `Exclusion`, `FlagCorrect`, `NeverWrong` | `InvCorrect`, `RunnerCorrect` |
| `Indexer_proofs` | `NoDangling`, `HashIsTrusted`, `MtimeIsTrusted`, `StampHonest`, `NoCallIsLost`, `FullPassExact`, `ReadersServed`; of the watcher's specification `WatchedPassesAreSafe` and `WatchedReadersServed` | `InvCorrect`, `TrustCorrect`, `CallsCorrect`, `WTypeCorrect` |
| `Supervisor_proofs` | `Unnoticed` | `SupervisorCorrect` |
| `Store_proofs` | `VersionEarned`, `ProjectsAdd`, `MergeKeeps`, `StampForward` | `StoreCorrect` |
| `SessionStats_proofs` | `BooksCorrect`, `EventsCorrect` | `StatsCorrect` |
| `GraphTools_proofs` | `TracesAndMatchesAreRight`, `ChangesAreFound` | |
| `Gateway_proofs` | `AdmissionExact`, `GatewayUniform` | `GatewayCorrect` |
| `Server_proofs` | `ToldCorrect`, `CacheFresh`, `SessionStored`, `HitsHonest`, and `ServerCorrect` of all the server's parts | `StreamCorrect`, `SessionCorrect`, `TableCorrect` |

None of these properties is inductive. What each needs besides:

* **Locks** (`Inv`). A holder whose lockfile nobody removed still finds its own pid
  in it; exclusion follows, because one path cannot name two holders.
* **Python interpreter** (`RunnerInv`). Only the call that holds the mutex is
  between its request and its answer (`MutexOK`), and the pipes hold nothing but its
  request or its answer (`PipeOK`). An interpreter that is killed takes its pipes
  along, so an answer is never read by the next call.
* **Edges have two ends** (`BufferOK`). A flush writes the symbols of a file over
  whatever is stored, and if that were another content, edges into the file
  would dangle. It never is: while a file is still to be walked it has no
  goroutine and is not buffered; once its goroutine has cleared it, nothing
  writes its symbols until its own flush; and a buffered file's stored symbols are
  none, or those of the very content a failed flush left behind. That is what
  makes it sound that goroutines and flushes interleave freely, and that a flush is
  retried.
* **What a later pass goes by** (`TrustInv`). A hash may be trusted when no
  goroutine and no buffer still holds what the rows lack (`HashOK`); the
  modification time needs the same of what a goroutine has read (`MtimeOK`); and
  for the stamp, each file that the older binary left is followed to the stage of
  the pass that gets rid of it (`StampOK`).
* **Readers** (`ReadersServed`). `Indexer` implements `GraphStore`: each step
  drops some file's symbols, publishes a flush, relinks edges, or changes nothing a
  reader sees; `Inv` supplies that a published file was hidden before.
* **Edges of a pass** (`CallsInv`). The edges within a file are the extractor's
  and follow its symbols (`OwnOK`); those between files follow the pending calls
  (`CrossingOK`); one that the pass found and that no longer stands starts in the
  resolve scope (`ScopeOK`); the tail GC changes nothing of it unless it removes
  a file (`ResultOK`). `RowsOK` says of each file whether the pass is done with it.
* **Watched passes** (`WatchedPassesAreSafe`). A watcher takes hashes out of the
  store without the project lock, in the middle of a pass of another process. No
  invariant of a pass minds: each speaks of the hashes that are there, never of
  those that are not, so the step that takes some is one that all of them keep,
  and the rest of a tick changes nothing of the pass.
* **Supervisor** (`SupervisorInv`). A line is answered once because it is in one
  place only: unsent, in the hands of the client's pump, in a pipe, or answered
  (`OnceOK`). An inner meets no request before its handshake because, from the
  moment the supervisor has captured it, the handshake is in every inner's pipe or
  behind it, but for the line the pump is writing, and a pipe keeps its order
  (`ShakeOK`).
* **Store** (`StoreInv`). Whoever writes a version has been through the
  statements before it from a version that was earned (`MigrateOK`). A merge that
  leaves no scar has the tables to itself at each of its steps (lemma
  `Undisturbed`), so what it found at its start it still knows at its end
  (`MergeOK`, `CountsOK`). The stamps go forward because what a pass has seen of
  the row is no older than the row until it writes (`SeenOK`): only a pass
  writes a stamp, and the lock keeps the others out.
* **Counters and events** (`StatsInv`). `CountOK` says at every moment by how much
  the counters differ: by the handlers that are about to count and, of the
  recoveries, by the misses still to be credited; a miss is moved by the swap
  and never copied. `SnapOK` says that a flush, however far it is, has loaded
  nothing that was not counted, so the row stays behind the counters even when an
  older flush writes last. `EventOK` counts the places of each event.
* **Rate limit** (`GatewayInv`). The list that `allowRequest` cuts from its front
  has the times of the latest requests let in, in the order in which they were, and
  none that it lacks is of the present window (`ListOK`), though requests in
  flight may be counted in another order than they read the clock.
* **Replies** (`RepliesOK`). The invariant says only that a reply is what the routes
  give for its request and the projects table it met. The work is in the routes: once
  the prefix is off, the path and the verb alone decide who is served (`ServedAt`),
  and the dispatch says so by its status (`DispatchFits`); two requests that differ
  in verb, prefix or page are compared through it. For pages, `FilterFits` says of
  the filter's loop that every project it has seen is kept or counted once.
* **Walks** (`TracesAndMatchesAreRight`). A breadth-first search and a recursive query
  without duplicates are both compared with the one relation that grows by a
  neighbour at a time, from either end (`Reach`): what a search finds first at a
  depth is what has a chain of that length and no shorter one. The closure table is
  the list of such first finds; the recursive query has every length, and the least
  is taken.
* **Edits** (`ChangesAreFound`). The hunks of a diff are its maximal runs of changed
  lines. A symbol whose text changed has a line in one of them, or a line was put
  between two of its own; in either case the lines of the new file that the hunk
  counts meet those of the symbol, but for the two cases that the property names.
* **Event stream** (`StreamInv`). Before a client has its snapshot, no completion is
  in its buffer of a project that the snapshot will still name (`ToldOK`): that is
  why `handleEvents` may subscribe first and look at the table afterwards.
* **Symbols** (`TableInv`). A posting names a row by its rowid alone. No two rows
  have one (`TableRowsOK`), so a delete takes no other row's text out of the index
  with its own, and what is found by a rowid is the row it was posted for
  (`PostedOK`), until a row is replaced without its delete trigger. Any part of
  what a pass has buffered may be flushed at once, in any order: only that it is
  finite matters (`BatchesOK`).
* **Session** (`SessionInv`). The answer that a handler has computed and not yet
  cached is as fresh as those in the cache (`FreshOK`).

`ResourcesCorrect` and `ServerCorrect` are about the compositions: each step of
`PassResources` and of `Server` is a step of one part or leaves that part alone, so
what is proved of the parts holds of the whole.

### Assumptions

The only ones are the `ASSUME`s of the modules; TLC evaluates them in every run.
Those the proofs needed beyond the types of the constants: ids the supervisor makes up
differ from a client's (its prefixes, `supervisor.go:53-66`); the ids of a
directory and the keys of a table are finite sets, and migrations a sequence of
sequences of statements; a tree gives each path no text or one of
finitely many symbols (`TableConstantsOK`); every argument of a call names a project or none
(`ProjectConstantsOK`); a request is an `HttpRequest`, so whatever address it comes
from has a window, the projects table holds rows, and no tool has the name of an
endpoint that `httpGetOnlyRoutes` does not list, nor of the stream (`RequestsOK`;
none of the tools that `registerTools` adds has); directions of edges are
those the tools know, the depth of a question about tests is clamped to 1..5, and a
symbol of an edited file has a line there and was one piece before
(`GraphToolsConstantsOK`). `GraphSpec` is the graph tools' part of whatever they
are composed with. The others only say that markers such as `None` or `Unlocked` are
not among the values they are told from.

### What is only model-checked

* *Liveness* (`CrashedHolderReclaimed`, `EveryCallReturns`, `FilesConverge`,
  `HealsWhatItOwes`, `DeadInnerReplaced`, `HungInnerReplaced`,
  `ShutdownUnlessFull`): out of the prover's reach. All that is said of `Watcher`
  beside its passes is of this kind.
* *Properties of recursive definitions*: `ToolAnswers` (`QueryIsExact`,
  `ListsAreWhole`, `QueryIsHeard`, `MistakesAreNamed`, `SilenceIsExplained`) reads
  queries with recursive operators, as the trees they are (`PinchQL`, `QueryText`),
  and no module that reaches one may hold a theorem.
* *Properties of folds*: `ResolveAgrees` and `CallsAreMeant` of `Resolution`,
  `StaleIdLeadsHome` of `SymbolTable` compare what folds over sequences
  compute; a proof for every sequence is an induction over data. Nor do they hold
  for every constant: trees that define one name in several files, which the runs'
  trees do not, need exceptions of their own.

The loops that are proved about (`FilterProjects`, `Spared`, `Reach`, `Frontiers`) are
recursive functions over a bound; the proof that such a function exists, and the
induction along it, goes by the least number at which the claim fails.

## 5. Not modelled

* **Extraction.** `internal/ast` turns bytes into symbols with regular
  expressions and Go's own parser, a pure function of the file; a model of it
  would repeat it character by character. Here it is `Defs` and `Calls`. Only the
  shared Python interpreter has state.
* **Other rows of a pass.** `struct_fields`, `interface_methods` and
  `extraction_failures` are written and cleared like symbols. Language-scoped
  invalidation, the suppressed drift of one language, the parity check and git
  branches are left out.
* **Dashboard, admin pages, the OpenAPI document.** They format what the tools and
  the store return. Of the gateway, `ListenAndServeHTTP` (its refusal to listen on
  an open interface without a key) and the recording of slow queries are left out,
  and the MCP transport over HTTP is the SDK's.
* **doctor, healthcheck, verify, vacuum, slow_queries.** Reports.
* **Composite tools** (`context_for_task`, `investigate_failure`, `plan_change`,
  `audit_unused`, `onboard_module`, ...). They call the tools that are modelled and
  merge the answers.
* **pinchQL's tokenizer, and aggregates other than counting, grouping and distinct
  values.** Pure.
* **init, update and the other commands.** Edits of the hosts' configuration files
  and downloads, once and by hand.
* **Several directories in `Store`, `ensureSymbolIDColumn`, SQLite itself, the
  clock.** SQLite is taken at its word: a transaction happens at once or not at
  all, and a locked database is an error. Time is reduced to the distinctions the
  code makes with it.

## 6. Plan

What is left:

1. `SymbolTable`: `StaleIdLeadsHome` with the exceptions that trees with one name in
   two files need, checked on such a tree, and then proved.
2. `Resolution`: the same for `ResolveAgrees` and `CallsAreMeant`, whose folds
   would first be written as functions along their sequences, like `FilterProjects`.
3. `Listing`: `ListsAreWhole` in a module apart from the recursive ones, like
   `GraphTools`.
