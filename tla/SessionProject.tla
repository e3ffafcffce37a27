--------------------------- MODULE SessionProject ---------------------------
(***************************************************************************)
(* Which project a tool call is about (internal/server/server.go).  A call *)
(* without a project gets the session's, which onInit or onRoots detected  *)
(* once from the client's roots, and which the first such call indexes.  A *)
(* call that names one is resolved by id, by the canonical id of a path,   *)
(* or by name, and the answer is kept for a minute.  The index tool clears *)
(* that cache; pruning a dead project, and the passes that the session     *)
(* starts by itself, do not.                                               *)
(*                                                                         *)
(* A pass is modelled by what this component sees of it: it is refused     *)
(* while another one of the project runs (ProjectLock), it adds the        *)
(* project's row when it starts (Indexer), and it ends well or not.        *)
(***************************************************************************)
EXTENDS Integers, Sequences, FiniteSets

CONSTANTS
    Project,        \* directories, which stand for the ids they give
    Name,           \* Name[p]: the name of p
    Arg,            \* project arguments of tool calls
    Path,           \* Path[a]: the directory a is an id or a path of, or Unset
    Called,         \* Called[a]: the name a is, or Unset
    Caller,         \* handlers that run concurrently
    Roots,          \* what clearedSessionRoots may leave: sequences
    Cwd,            \* the working directory
    Rows0,          \* what the projects table may hold at the start
    MaxCalls,       \* bound: calls
    MaxMoves,       \* bound: directories that disappear or come back
    Unset

\* By which binary a project was indexed last, seen from this one.
Stamp == {"unstamped", "older", "own", "newer"}

Session == "session"    \* stands for the empty project argument

ASSUME ProjectConstantsOK ==
    /\ DOMAIN Name = Project /\ Cwd \in Project /\ Unset \notin Project \cup Stamp
    /\ DOMAIN Path = Arg /\ DOMAIN Called = Arg
    /\ \A a \in Arg : Path[a] \in Project \cup {Unset}
    /\ Session \notin Arg /\ Roots \subseteq Seq(Project)
    /\ Rows0 \subseteq [Project -> Stamp \cup {Unset}]
    /\ MaxCalls \in Nat /\ MaxMoves \in Nat

VARIABLES
    rows,       \* the projects table: each project's binary, or Unset
    disk,       \* directories that exist
    holder,     \* whose pass of the project runs, or Unset
    once,       \* sessionOnce: "open", "asking", "setting" or "done"
    root, sid,  \* sessionRoot and sessionID, as far as they are set
    later,      \* passes that detection starts: [project, state] by number
    cache,      \* projectIDCache: an id for an argument, or Unset
    stage, arg,    \* each handler: where it is, its argument
    found,      \* the project it has found or works on
    doomed,     \* prune: the projects of the list still to look at
    made, moves,    \* bounds
    excused     \* history: arguments whose cached answer may be outdated

stored == <<rows, disk, holder>>
detection == <<once, root, sid, later>>
handling == <<stage, arg, found, doomed>>
bounds == <<made, moves>>
projectVars == <<stored, detection, cache, handling, bounds, excused>>

ProjectInit ==
    /\ rows \in Rows0 /\ disk = Project
    /\ holder = [p \in Project |-> Unset]
    /\ once = "open" /\ root = Unset /\ sid = Unset /\ later = <<>>
    /\ cache = [a \in Arg |-> Unset]
    /\ stage = [k \in Caller |-> "idle"]
    /\ arg = [k \in Caller |-> Unset] /\ found = [k \in Caller |-> Unset]
    /\ doomed = [k \in Caller |-> {}]
    /\ made = 0 /\ moves = 0
    /\ excused = {}

Stored(p) == rows[p] # Unset

\* Arguments that somebody has an answer for, given before this step.
Given == {a \in Arg : cache[a] # Unset}
    \cup {arg[k] : k \in {h \in Caller : stage[h] = "store"}}

-----------------------------------------------------------------------------
(* Passes, by handlers and in the background.                              *)

Holding(who, p) ==
    /\ holder[p] = Unset /\ holder' = [holder EXCEPT ![p] = who]
    /\ rows' = [rows EXCEPT ![p] = IF @ = Unset THEN "unstamped" ELSE @]

\* The end of a pass.  It stamps the project, unless a newer binary has;
\* UpsertProject makes a row anew that was pruned meanwhile.
Releasing(who, p, well) ==
    /\ holder[p] = who /\ holder' = [holder EXCEPT ![p] = Unset]
    /\ rows' = IF well /\ rows[p] # "newer"
               THEN [rows EXCEPT ![p] = "own"] ELSE rows

\* A pass adds a project and nobody has cleared the cache yet.
Unannounced == excused' = IF rows' = rows THEN excused
                          ELSE IF \A p \in Project : Stored(p) <=> rows'[p] # Unset
                          THEN excused ELSE excused \cup Given

LaterStarts(i) ==
    LET p == later[i].project IN
    /\ once = "done" /\ later[i].state = "due"
    /\ IF holder[p] = Unset
       THEN Holding(i, p) /\ later' = [later EXCEPT ![i].state = "indexing"]
       ELSE /\ later' = [later EXCEPT ![i].state = "error"]
            /\ UNCHANGED <<rows, holder>>
    /\ Unannounced
    /\ UNCHANGED <<disk, once, root, sid, cache, handling, bounds>>

LaterEnds(i, well) ==
    /\ later[i].state = "indexing"
    /\ Releasing(i, later[i].project, well)
    /\ later' = [later EXCEPT ![i].state = IF well THEN "indexed" ELSE "error"]
    /\ Unannounced
    /\ UNCHANGED <<disk, once, root, sid, cache, handling, bounds>>

-----------------------------------------------------------------------------
(* The session's root.                                                     *)

\* onInit, onRoots: whoever comes first asks the client for its roots.
DetectStarts ==
    /\ once = "open" /\ once' = "asking"
    /\ UNCHANGED <<stored, root, sid, later, cache, handling, bounds, excused>>

\* detectRoot, setRoot: the first root that was cleared, or the directory
\* the server runs in.
RootSet ==
    /\ once = "asking" /\ once' = "setting"
    /\ \E cleared \in Roots :
        /\ root' = IF cleared = <<>> THEN Cwd ELSE Head(cleared)
        /\ later' = [i \in 1 .. (IF cleared = <<>> THEN 0 ELSE Len(cleared) - 1)
                        |-> [project |-> cleared[i + 1], state |-> "due"]]
    /\ sid' = root'
    /\ UNCHANGED <<stored, cache, handling, bounds, excused>>

\* maybeReindexOnDrift, startAutoIndex.
DetectEnds ==
    /\ once = "setting" /\ once' = "done"
    /\ later' = IF rows[sid] \in {"older", "newer"}
                THEN Append(later, [project |-> root, state |-> "due"])
                ELSE later
    /\ UNCHANGED <<stored, root, sid, cache, handling, bounds, excused>>

\* What an unsynchronised read of the session may return: while setRoot
\* writes, either value of each variable.
Read(v) == IF once = "setting" THEN {Unset, v} ELSE {v}

-----------------------------------------------------------------------------
(* Resolving the project of a call.                                        *)

Begins(k) == stage[k] = "idle" /\ made < MaxCalls /\ made' = made + 1
Turns(k, at) == stage' = [stage EXCEPT ![k] = at]
Finds(k, p) == found' = [found EXCEPT ![k] = p]

\* resolveProjectID without an argument.
ResolveSession(k) ==
    /\ Begins(k)
    /\ \E id \in Read(sid), r \in Read(root) :
        \/ id = Unset /\ UNCHANGED <<stage, arg, found>>
        \/ /\ id # Unset /\ (r = Unset \/ Stored(id))
           /\ Finds(k, id) /\ Turns(k, "answer")
           /\ arg' = [arg EXCEPT ![k] = Session]
        \/ /\ id # Unset /\ r # Unset /\ ~ Stored(id)
           /\ Finds(k, id) /\ Turns(k, "auto")
           /\ arg' = [arg EXCEPT ![k] = Session]
    /\ UNCHANGED <<stored, detection, cache, doomed, moves, excused>>

\* Mutant: a pass of another handler counts as the project being there.
AutoIndexesOrNot(k) ==
    /\ stage[k] = "auto"
    /\ LET p == found[k] IN
       IF holder[p] = Unset
       THEN Holding(k, p) /\ Turns(k, "first") /\ UNCHANGED found
       ELSE Turns(k, "answer") /\ UNCHANGED <<rows, holder, found>>
    /\ Unannounced
    /\ UNCHANGED <<disk, detection, cache, arg, doomed, bounds>>

\* It indexes the session's project, or fails if a pass is running.
AutoIndexes(k) ==
    /\ stage[k] = "auto"
    /\ LET p == found[k] IN
       IF holder[p] = Unset
       THEN Holding(k, p) /\ Turns(k, "first") /\ UNCHANGED found
       ELSE Turns(k, "idle") /\ Finds(k, Unset) /\ UNCHANGED <<rows, holder>>
    /\ Unannounced
    /\ UNCHANGED <<disk, detection, cache, arg, doomed, bounds>>

AutoIndexed(k, well) ==
    /\ stage[k] = "first"
    /\ Releasing(k, found[k], well)
    /\ IF well THEN Turns(k, "answer") /\ UNCHANGED found
       ELSE Turns(k, "idle") /\ Finds(k, Unset)
    /\ Unannounced
    /\ UNCHANGED <<disk, detection, cache, arg, doomed, bounds>>

\* The stored projects of a name, those whose directory exists first.
ByName(n) ==
    LET named == {p \in Project : Stored(p) /\ Name[p] = n}
        live == named \cap disk
    IN  IF live # {} THEN live ELSE named

\* The answers resolveProjectID may find for an argument at this moment.  It
\* reads the table and looks at the directories one after the other, here at
\* once; of several live projects it takes the one listed first.
Resolution(a) ==
    IF Path[a] # Unset /\ Stored(Path[a]) THEN {Path[a]}
    ELSE IF Called[a] # Unset THEN ByName(Called[a]) ELSE {}

\* The hit of lookupProjectIDCache, or the reads of a miss.
Resolve(k, a) ==
    /\ Begins(k)
    /\ \/ /\ cache[a] # Unset
          /\ Finds(k, cache[a]) /\ Turns(k, "answer")
          /\ arg' = [arg EXCEPT ![k] = a]
       \/ /\ cache[a] = Unset
          /\ \E p \in Resolution(a) : Finds(k, p)
          /\ Turns(k, "store") /\ arg' = [arg EXCEPT ![k] = a]
       \/ /\ cache[a] = Unset /\ Resolution(a) = {}
          /\ UNCHANGED <<stage, found, arg>>
    /\ UNCHANGED <<stored, detection, cache, doomed, moves, excused>>

\* storeProjectIDCache
StoreFound(k) ==
    /\ stage[k] = "store" /\ Turns(k, "answer")
    /\ cache' = [cache EXCEPT ![arg[k]] = found[k]]
    /\ UNCHANGED <<stored, detection, arg, found, doomed, bounds, excused>>

\* The handler answers about the project it has found.
Answer(k) ==
    /\ stage[k] = "answer" /\ Turns(k, "idle") /\ Finds(k, Unset)
    /\ arg' = [arg EXCEPT ![k] = Unset]
    /\ UNCHANGED <<stored, detection, cache, doomed, bounds, excused>>

\* An entry's minute is over.
Expire(a) ==
    /\ cache[a] # Unset /\ cache' = [cache EXCEPT ![a] = Unset]
    /\ excused' = IF \E k \in Caller : stage[k] = "store" /\ arg[k] = a
                  THEN excused ELSE excused \ {a}
    /\ UNCHANGED <<stored, detection, handling, bounds>>

-----------------------------------------------------------------------------
(* The index tool, and list with prune_dead.                               *)

\* handleIndex up to the pass: the path is given or the session's root.
IndexTool(k) ==
    /\ Begins(k)
    /\ \E p \in Project \cup Read(root) :
        IF p = Unset \/ (p # Unset /\ rows[p] = "newer")
        THEN UNCHANGED <<stage, found>>
        ELSE Finds(k, p) /\ Turns(k, "index")
    /\ UNCHANGED <<stored, detection, cache, arg, doomed, moves, excused>>

IndexStarts(k) ==
    /\ stage[k] = "index"
    /\ IF holder[found[k]] = Unset
       THEN Holding(k, found[k]) /\ Turns(k, "pass") /\ UNCHANGED found
       ELSE Turns(k, "idle") /\ Finds(k, Unset) /\ UNCHANGED <<rows, holder>>
    /\ Unannounced
    /\ UNCHANGED <<disk, detection, cache, arg, doomed, bounds>>

IndexEnds(k, well) ==
    /\ stage[k] = "pass"
    /\ Releasing(k, found[k], well)
    /\ IF well THEN Turns(k, "invalidate") /\ UNCHANGED found
       ELSE Turns(k, "idle") /\ Finds(k, Unset)
    /\ Unannounced
    /\ UNCHANGED <<disk, detection, cache, arg, doomed, bounds>>

\* What is excused after the cache was cleared: answers on their way to it.
OnTheWay == {arg[h] : h \in {j \in Caller : stage[j] = "store"}}

\* Mutant: only the entries of the indexed project are cleared.
InvalidateOwn(k) ==
    /\ stage[k] = "invalidate" /\ Turns(k, "idle") /\ Finds(k, Unset)
    /\ cache' = [a \in Arg |-> IF cache[a] = found[k] THEN Unset ELSE cache[a]]
    /\ excused' = OnTheWay
    /\ UNCHANGED <<stored, detection, arg, doomed, bounds>>

\* invalidateProjectIDCache, and the tool returns.
Invalidate(k) ==
    /\ stage[k] = "invalidate" /\ Turns(k, "idle") /\ Finds(k, Unset)
    /\ cache' = [a \in Arg |-> Unset]
    /\ excused' = OnTheWay
    /\ UNCHANGED <<stored, detection, arg, doomed, bounds>>

PruneStarts(k) ==
    /\ Begins(k) /\ Turns(k, "prune")
    /\ doomed' = [doomed EXCEPT ![k] = {p \in Project : Stored(p)}]
    /\ UNCHANGED <<stored, detection, cache, arg, found, moves, excused>>

\* DeleteProject of a listed project whose directory is gone.
Prune(k) ==
    /\ stage[k] = "prune"
    /\ IF doomed[k] = {} THEN Turns(k, "idle") /\ UNCHANGED <<rows, doomed>>
       ELSE \E p \in doomed[k] :
            /\ doomed' = [doomed EXCEPT ![k] = @ \ {p}]
            /\ rows' = IF p \in disk THEN rows ELSE [rows EXCEPT ![p] = Unset]
            /\ UNCHANGED stage
    /\ Unannounced
    /\ UNCHANGED <<disk, holder, detection, cache, arg, found, bounds>>

-----------------------------------------------------------------------------
\* The user moves or deletes a directory, or puts it back.
Moves ==
    /\ moves < MaxMoves /\ moves' = moves + 1
    /\ \E p \in Project :
        disk' = IF p \in disk THEN disk \ {p} ELSE disk \cup {p}
    /\ excused' = excused \cup Given
    /\ UNCHANGED <<rows, holder, detection, cache, handling, made>>

ProjectNext ==
    \/ DetectStarts \/ RootSet \/ DetectEnds \/ Moves
    \/ \E i \in DOMAIN later : LaterStarts(i) \/ \E w \in BOOLEAN : LaterEnds(i, w)
    \/ \E a \in Arg : Expire(a) \/ \E k \in Caller : Resolve(k, a)
    \/ \E k \in Caller :
        \/ ResolveSession(k) \/ AutoIndexes(k)
        \/ StoreFound(k) \/ Answer(k)
        \/ IndexTool(k) \/ IndexStarts(k) \/ Invalidate(k)
        \/ PruneStarts(k) \/ Prune(k)
        \/ \E w \in BOOLEAN : AutoIndexed(k, w) \/ IndexEnds(k, w)

-----------------------------------------------------------------------------
Owners == Caller \cup DOMAIN later

ProjectTypeOK ==
    /\ rows \in [Project -> Stamp \cup {Unset}] /\ disk \subseteq Project
    /\ \A p \in Project : holder[p] \in Owners \cup {Unset}
    /\ once \in {"open", "asking", "setting", "done"}
    /\ root \in Project \cup {Unset} /\ sid \in Project \cup {Unset}
    /\ later \in Seq([project : Project,
                      state : {"due", "indexing", "indexed", "error"}])
    /\ cache \in [Arg -> Project \cup {Unset}]
    /\ stage \in [Caller -> {"idle", "auto", "first", "store", "answer", "index",
                          "pass", "invalidate", "prune"}]
    /\ arg \in [Caller -> Arg \cup {Session, Unset}]
    /\ found \in [Caller -> Project \cup {Unset}]
    /\ doomed \in [Caller -> SUBSET Project]
    /\ made \in 0 .. MaxCalls /\ moves \in 0 .. MaxMoves
    /\ excused \subseteq Arg

(***************************************************************************)
(* A cached answer is what resolveProjectID would find now.  The           *)
(* exceptions are the answers, cached or on their way, that were found     *)
(* before a project appeared, was pruned or moved, as long as no index     *)
(* tool has returned since; and, when one has, those that were on their    *)
(* way to the cache when it was cleared.                                   *)
(***************************************************************************)
CacheIsFresh ==
    \A a \in Arg \ excused : cache[a] # Unset => cache[a] \in Resolution(a)

(***************************************************************************)
(* A handler takes up the session's project only if it is stored: it found *)
(* its row, or a pass of its own has just ended well.  Excepted are the    *)
(* handlers that read the session while setRoot was writing it.            *)
(***************************************************************************)
SessionIsStored ==
    [][\A k \in Caller :
        stage'[k] = "answer" /\ stage[k] # "answer" /\ arg'[k] = Session
        /\ once # "setting" => rows'[found'[k]] # Unset]_projectVars
=============================================================================
