----------------------------- MODULE ProjectLock -----------------------------
(***************************************************************************)
(* The two locks an index pass takes (internal/index/indexer.go, the head  *)
(* of indexImpl) before it touches a project:                              *)
(*                                                                         *)
(*   - the in-process flag Indexer.active[projectID], under Indexer.mu;    *)
(*   - the cross-process lockfile <dataDir>/locks/<hash>.lock, created     *)
(*     with O_EXCL (internal/index/lockfile.go).                           *)
(*                                                                         *)
(* One project is modelled.  A caller is one Index() call site: a watcher  *)
(* tick, a tool call, a CLI command.  Every file-system call the code      *)
(* makes is a step of its own, because another process can run between any *)
(* two of them: create, write of the payload, stat, read, the pid probe,   *)
(* remove.                                                                 *)
(*                                                                         *)
(* A pid is the process that wrote it, until that process crashes: then    *)
(* the pid is Gone, and the operating system may later give it to an       *)
(* unrelated program (Reused).  A crashed process is replaced by a new one *)
(* with a fresh pid, so that crashes need no bound.                        *)
(***************************************************************************)
CONSTANTS
    Caller,         \* index call sites
    Process,        \* pincher processes sharing one data directory
    ProcOf,         \* the process a caller runs in
    NoFile,         \* the lock path does not exist
    Gone,           \* the pid of a crashed process
    Reused          \* a crashed process's pid, now some other program's

ASSUME ConstantsOK ==
    /\ ProcOf \in [Caller -> Process]
    /\ {NoFile, Gone, Reused} \cap Process = {}
    /\ Gone # Reused

VARIABLES
    pc,         \* pc[c]: the next step of caller c
    active,     \* Indexer.active[projectID] of each process
    lockfile,   \* the file at the lock path, or NoFile
    seen,       \* seen[c]: the pid c read from the lockfile it is judging
    robbed      \* history: callers whose lockfile someone else removed

vars == <<pc, active, lockfile, seen, robbed>>

(***************************************************************************)
(* The file at the path: the caller that created it, the pid its payload   *)
(* names, whether the payload has been written yet, and whether it is      *)
(* older than lockStaleAge.  by is not stored in the real file; it says    *)
(* which open descriptor writes to this inode.                             *)
(***************************************************************************)
Pid == Process \cup {Gone, Reused}
File == [by : Caller, pid : Pid, written : BOOLEAN, old : BOOLEAN]

ASSUME NoFileOK == NoFile \notin File

PC == {"idle", "create", "write", "stat", "read", "probe", "remove",
       "recreate", "index", "leave"}

\* Steps in which the caller has passed the O_EXCL create and has not yet
\* returned from indexImpl's deferred release.
Owns(c)  == pc[c] \in {"write", "index"}
\* The caller runs the index pass, both locks taken.
Holds(c) == pc[c] = "index"

TypeOK ==
    /\ pc \in [Caller -> PC]
    /\ active \in [Process -> BOOLEAN]
    /\ lockfile \in File \cup {NoFile}
    /\ seen \in [Caller -> Pid \cup {NoFile}]
    /\ robbed \in SUBSET Caller

Init ==
    /\ pc = [c \in Caller |-> "idle"]
    /\ active = [p \in Process |-> FALSE]
    /\ lockfile = NoFile
    /\ seen = [c \in Caller |-> NoFile]
    /\ robbed = {}

Goto(c, label) == pc' = [pc EXCEPT ![c] = label]

-----------------------------------------------------------------------------
(* The file system.                                                        *)

\* os.Remove(lockPath): takes away whatever file is at the path now.  An
\* owner of that file other than c does not learn of it.
Remove(c) ==
    /\ lockfile' = NoFile
    /\ robbed' = IF lockfile # NoFile /\ lockfile.by # c /\ Owns(lockfile.by)
                    THEN robbed \cup {lockfile.by}
                    ELSE robbed

\* Mutant: O_EXCL forgotten, an existing file is taken over.
CreateShared(c) ==
    /\ lockfile' = [by |-> c, pid |-> ProcOf[c], written |-> FALSE,
                    old |-> FALSE]
    /\ robbed' = robbed \ {c}

\* os.OpenFile(lockPath, O_CREATE|O_EXCL): an empty file of c's.
CreateExcl(c) ==
    /\ lockfile = NoFile
    /\ lockfile' = [by |-> c, pid |-> ProcOf[c], written |-> FALSE,
                    old |-> FALSE]
    /\ robbed' = robbed \ {c}

-----------------------------------------------------------------------------
(* indexImpl: enter and leave.                                             *)

\* idx.mu.Lock(); if idx.active[projectID] return; idx.active[..] = true.
\* A caller that finds the flag set returns at once: no step.
Enter(c) ==
    /\ pc[c] = "idle"
    /\ ~active[ProcOf[c]]
    /\ active' = [active EXCEPT ![ProcOf[c]] = TRUE]
    /\ Goto(c, "create")
    /\ UNCHANGED <<lockfile, seen, robbed>>

\* Mutant: the defer that clears the flag is registered too late.
RefuseKeepingFlag(c) == Goto(c, "idle") /\ UNCHANGED active

\* acquireProjectLock returned an error: indexImpl returns it, and the first
\* defer clears the flag.
Refuse(c) ==
    /\ active' = [active EXCEPT ![ProcOf[c]] = FALSE]
    /\ Goto(c, "idle")

\* The deferred releaseLock runs first ...
Release(c) ==
    /\ pc[c] = "index"
    /\ Remove(c)
    /\ Goto(c, "leave")
    /\ UNCHANGED <<active, seen>>

\* ... and the deferred delete(idx.active, projectID) after it.
Leave(c) ==
    /\ pc[c] = "leave"
    /\ Refuse(c)
    /\ UNCHANGED <<lockfile, seen, robbed>>

-----------------------------------------------------------------------------
(* acquireProjectLock.                                                     *)

\* First attempt.  Any error but "exists" (MkdirAll, Marshal, OpenFile) is
\* returned.
Create(c) ==
    /\ pc[c] = "create"
    /\ \/ /\ CreateExcl(c)
          /\ Goto(c, "write")
          /\ UNCHANGED active
       \/ /\ lockfile # NoFile
          /\ Goto(c, "stat")
          /\ UNCHANGED <<active, lockfile, robbed>>
       \/ /\ Refuse(c)
          /\ UNCHANGED <<lockfile, robbed>>
    /\ UNCHANGED seen

\* f.Write(payload), through the descriptor: the inode may have left the
\* path.  A failed write removes the path and returns.
WritePayload(c) ==
    /\ pc[c] = "write"
    /\ \/ /\ lockfile' = IF lockfile # NoFile /\ lockfile.by = c
                            THEN [lockfile EXCEPT !.written = TRUE]
                            ELSE lockfile
          /\ Goto(c, "index")
          /\ UNCHANGED <<active, robbed>>
       \/ /\ Remove(c)
          /\ Refuse(c)
    /\ UNCHANGED seen

\* Mutant: the age of the lockfile is not looked at.
StatIgnoringAge(c) ==
    /\ pc[c] = "stat"
    /\ \/ lockfile = NoFile /\ Refuse(c)
       \/ lockfile # NoFile /\ Goto(c, "read") /\ UNCHANGED active
    /\ UNCHANGED <<lockfile, seen, robbed>>

\* isStaleLockfile: os.Stat.  An error (the file is gone) means not stale:
\* refused.  Old means stale.
StatLock(c) ==
    /\ pc[c] = "stat"
    /\ \/ /\ lockfile = NoFile
          /\ Refuse(c)
       \/ /\ lockfile # NoFile
          /\ Goto(c, IF lockfile.old THEN "remove" ELSE "read")
          /\ UNCHANGED active
    /\ UNCHANGED <<lockfile, seen, robbed>>

\* readLockInfo: a missing file and an unparseable payload (the creator has
\* not written it yet) are both errors, and an error means stale.
ReadLock(c) ==
    /\ pc[c] = "read"
    /\ IF lockfile # NoFile /\ lockfile.written
          THEN /\ seen' = [seen EXCEPT ![c] = lockfile.pid]
               /\ Goto(c, "probe")
          ELSE /\ Goto(c, "remove")
               /\ UNCHANGED seen
    /\ UNCHANGED <<active, lockfile, robbed>>

\* processExists(info.PID): a pid that is gone means stale, any other
\* refuses the caller.
ProbePid(c) ==
    /\ pc[c] = "probe"
    /\ IF seen[c] = Gone
          THEN Goto(c, "remove") /\ UNCHANGED active
          ELSE Refuse(c)
    /\ seen' = [seen EXCEPT ![c] = NoFile]
    /\ UNCHANGED <<lockfile, robbed>>

\* attempt == 0 and stale: remove and go round the loop.
RemoveStale(c) ==
    /\ pc[c] = "remove"
    /\ Remove(c)
    /\ Goto(c, "recreate")
    /\ UNCHANGED <<active, seen>>

\* Second attempt: an existing file refuses the caller whatever its age.
Recreate(c) ==
    /\ pc[c] = "recreate"
    /\ \/ /\ CreateExcl(c)
          /\ Goto(c, "write")
          /\ UNCHANGED active
       \/ /\ Refuse(c)
          /\ UNCHANGED <<lockfile, robbed>>
    /\ UNCHANGED seen

-----------------------------------------------------------------------------
(* What happens around the code.                                           *)

\* The process dies and another starts: its calls are over, its memory is
\* fresh, its lockfile stays, and its pid names nobody.
Crash(p) ==
    LET forget(pid) == IF pid = p THEN Gone ELSE pid
    IN  /\ pc' = [c \in Caller |-> IF ProcOf[c] = p THEN "idle" ELSE pc[c]]
        /\ active' = [active EXCEPT ![p] = FALSE]
        /\ lockfile' = IF lockfile # NoFile
                          THEN [lockfile EXCEPT !.pid = forget(lockfile.pid)]
                          ELSE NoFile
        /\ seen' = [c \in Caller |->
                       IF ProcOf[c] = p THEN NoFile ELSE forget(seen[c])]
        /\ robbed' = {c \in robbed : ProcOf[c] # p}

\* The operating system gives the dead holder's pid to another program.
PidReuse ==
    LET other(pid) == IF pid = Gone THEN Reused ELSE pid
    IN  /\ lockfile # NoFile /\ lockfile.pid = Gone
        /\ lockfile' = [lockfile EXCEPT !.pid = other(lockfile.pid)]
        /\ seen' = [c \in Caller |-> other(seen[c])]
        /\ UNCHANGED <<pc, active, robbed>>

\* lockStaleAge passes.
Age ==
    /\ lockfile # NoFile /\ ~lockfile.old
    /\ lockfile' = [lockfile EXCEPT !.old = TRUE]
    /\ UNCHANGED <<pc, active, seen, robbed>>

-----------------------------------------------------------------------------
Acquire(c) ==
    \/ Create(c) \/ WritePayload(c) \/ StatLock(c) \/ ReadLock(c)
    \/ ProbePid(c) \/ RemoveStale(c) \/ Recreate(c)

\* What the callers do, with nothing going wrong around them.
Work == \E c \in Caller : Enter(c) \/ Acquire(c) \/ Release(c) \/ Leave(c)

Next ==
    \/ Work
    \/ \E p \in Process : Crash(p)
    \/ PidReuse
    \/ Age

(***************************************************************************)
(* Every caller that entered keeps running, index passes end, and time     *)
(* passes.  Enter is fair because the watcher ticks for ever.              *)
(***************************************************************************)
Fairness ==
    /\ \A c \in Caller : WF_vars(Acquire(c) \/ Release(c) \/ Leave(c))
    /\ \A c \in Caller : WF_vars(Enter(c))
    /\ WF_vars(Age)

Spec == Init /\ [][Next]_vars /\ Fairness

\* The best of worlds: no crash, no reused pid, no lockfile a day old.
CalmSpec == Init /\ [][Work]_vars

-----------------------------------------------------------------------------
(* Properties.                                                             *)

(***************************************************************************)
(* The in-process flag is exact: it is set precisely while one call of the *)
(* process is between its test-and-set and its deferred delete, on every   *)
(* path out of acquireProjectLock.  A refusal that forgot the flag would   *)
(* leave the project unindexable until the process restarts; a flag        *)
(* cleared too early would let two passes of one process run together.     *)
(***************************************************************************)
FlagIsExact ==
    \A p \in Process :
        /\ active[p] <=> \E c \in Caller : ProcOf[c] = p /\ pc[c] # "idle"
        /\ \A c, d \in Caller :
              /\ ProcOf[c] = p /\ ProcOf[d] = p
              /\ pc[c] # "idle" /\ pc[d] # "idle"
              => c = d

(***************************************************************************)
(* Until somebody else removes its file, a caller inside the lock finds    *)
(* its own file at the path, under its own live pid, with the payload      *)
(* complete once the pass has begun.  This is what every other caller's    *)
(* staleness verdict relies on.                                            *)
(***************************************************************************)
LockfileNamesHolder ==
    \A c \in Caller :
        Owns(c) /\ c \notin robbed =>
            /\ lockfile # NoFile
            /\ lockfile.by = c
            /\ lockfile.pid = ProcOf[c]
            /\ Holds(c) => lockfile.written

(***************************************************************************)
(* What the lockfile does promise: two callers are inside it together only *)
(* if somebody removed the lockfile of one of them.  O_EXCL itself never   *)
(* admits two.                                                             *)
(***************************************************************************)
ExclusionUnlessRobbed ==
    \A c, d \in Caller :
        Owns(c) /\ Owns(d) /\ c # d => c \in robbed \/ d \in robbed

(***************************************************************************)
(* What the comment on acquireProjectLock ("Returns an error if another    *)
(* live process holds the lock") and docs/reference/architecture.md        *)
(* ("multiple pincher binaries on one data directory serialize safely")    *)
(* say: two processes never run a pass of the project at the same time.    *)
(***************************************************************************)
MutualExclusion ==
    \A c, d \in Caller : Holds(c) /\ Holds(d) => c = d

\* The file at the path was left by a process that crashed.
Orphaned == lockfile # NoFile /\ lockfile.pid \in {Gone, Reused}

\* A call ends otherwise than by an answer: its process dies, or a
\* file-system call fails.
Answers(c) == StatLock(c) \/ ProbePid(c) \/ Leave(c)
                  \/ (lockfile # NoFile /\ Recreate(c))
CallFails == \E c \in Caller : pc[c] # "idle" /\ pc'[c] = "idle" /\ ~Answers(c)

(***************************************************************************)
(* "Stale-holder reclaim covers crashed processes": if processes stop      *)
(* crashing and the file system stops failing, a crashed holder's lockfile *)
(* does not bar the project for ever, even when its pid has been given to  *)
(* another program.                                                        *)
(***************************************************************************)
CrashedHolderReclaimed ==
    <>[][~CallFails]_vars => (Orphaned ~> ~Orphaned)
=============================================================================
