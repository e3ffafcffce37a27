------------------------- MODULE PassResources_proofs -------------------------
(***************************************************************************)
(* The locks of a project and the shared Python interpreter, for any       *)
(* number of processes, callers and files, and then both together as the   *)
(* passes of a process have them.                                          *)
(***************************************************************************)
EXTENDS PassResources, TLAPS

-----------------------------------------------------------------------------
(* The locks of a project.                                                 *)
(*                                                                         *)
(* The inductive invariant is Inv.  ExclusionUnlessRobbed is not inductive *)
(* by itself: it says nothing of the file, and O_EXCL protects a holder    *)
(* only through the file.  LockfileNamesHolder supplies the missing half   *)
(* (an unrobbed owner's file is at the path), and TypeOK the shape of the  *)
(* file.  FlagIsExact is inductive beside TypeOK alone.                    *)

Inv == TypeOK /\ LockfileNamesHolder

\* Every state the program starts in satisfies the invariant.
LEMMA InitInv == Init => Inv
<1> SUFFICES ASSUME Init PROVE Inv
  OBVIOUS
<1>1. TypeOK
  BY DEF Init, TypeOK, PC
<1>2. LockfileNamesHolder
  BY DEF Init, LockfileNamesHolder, Owns
<1> QED
  BY <1>1, <1>2 DEF Inv

\* os.Remove leaves no file, and whoever owned the removed file without
\* having asked for it is robbed: nobody else owns anything.
LEMMA RemoveRobs ==
  ASSUME Inv, NEW c \in Caller, Remove(c),
         NEW d \in Caller, d # c, Owns(d)
  PROVE  d \in robbed'
<1>1. CASE d \in robbed
  BY <1>1 DEF Remove
<1>2. CASE d \notin robbed
  BY <1>2 DEF Remove, Inv, LockfileNamesHolder
<1> QED
  BY <1>1, <1>2

\* os.Remove keeps the file and the history well typed.
LEMMA RemoveTypes ==
  ASSUME TypeOK, NEW c \in Caller, Remove(c)
  PROVE  lockfile' \in File \cup {NoFile} /\ robbed' \in SUBSET Caller
<1>1. CASE lockfile # NoFile
  <2>1. lockfile.by \in Caller
    BY <1>1 DEF TypeOK, File
  <2> QED
    BY <2>1 DEF Remove, TypeOK
<1>2. CASE lockfile = NoFile
  BY <1>2 DEF Remove, TypeOK
<1> QED
  BY <1>1, <1>2

\* O_EXCL creates a well-typed file that names its creator.
LEMMA CreateTypes ==
  ASSUME TypeOK, NEW c \in Caller, CreateExcl(c)
  PROVE  /\ lockfile' \in File
         /\ lockfile'.by = c /\ lockfile'.pid = ProcOf[c]
         /\ robbed' \in SUBSET Caller /\ c \notin robbed'
<1>1. ProcOf[c] \in Pid
  BY ConstantsOK DEF Pid
<1> QED
  BY <1>1 DEF CreateExcl, TypeOK, File

\* Each step keeps every variable in its type.
LEMMA TypeStep == TypeOK /\ [Next]_vars => TypeOK'
<1> SUFFICES ASSUME TypeOK, [Next]_vars PROVE TypeOK'
  OBVIOUS
<1> USE DEF TypeOK
<1> USE ConstantsOK
<1>1. ASSUME NEW c \in Caller, Enter(c) PROVE TypeOK'
  BY <1>1 DEF Enter, Goto, PC
<1>2. ASSUME NEW c \in Caller, Create(c) PROVE TypeOK'
  <2>1. CASE CreateExcl(c) /\ Goto(c, "write") /\ UNCHANGED <<active, seen>>
    BY <2>1, CreateTypes DEF Goto, PC
  <2>2. CASE Goto(c, "stat") /\ UNCHANGED <<active, lockfile, robbed, seen>>
    BY <2>2 DEF Goto, PC
  <2>3. CASE Refuse(c) /\ UNCHANGED <<lockfile, robbed, seen>>
    BY <2>3 DEF Refuse, Goto, PC
  <2> QED
    BY <1>2, <2>1, <2>2, <2>3 DEF Create
<1>3. ASSUME NEW c \in Caller, WritePayload(c) PROVE TypeOK'
  <2>1. CASE /\ lockfile' = IF lockfile # NoFile /\ lockfile.by = c
                               THEN [lockfile EXCEPT !.written = TRUE]
                               ELSE lockfile
             /\ Goto(c, "index")
             /\ UNCHANGED <<active, robbed, seen>>
    <3>1. lockfile' \in File \cup {NoFile}
      BY <2>1 DEF File
    <3> QED
      BY <2>1, <3>1 DEF Goto, PC
  <2>2. CASE Remove(c) /\ Refuse(c) /\ UNCHANGED seen
    BY <2>2, RemoveTypes DEF Refuse, Goto, PC
  <2> QED
    BY <1>3, <2>1, <2>2 DEF WritePayload
<1>4. ASSUME NEW c \in Caller, StatLock(c) PROVE TypeOK'
  BY <1>4 DEF StatLock, Refuse, Goto, PC
<1>5. ASSUME NEW c \in Caller, ReadLock(c) PROVE TypeOK'
  <2>1. lockfile # NoFile => lockfile.pid \in Pid
    BY DEF File
  <2> QED
    BY <1>5, <2>1 DEF ReadLock, Goto, PC
<1>6. ASSUME NEW c \in Caller, ProbePid(c) PROVE TypeOK'
  BY <1>6 DEF ProbePid, Refuse, Goto, PC
<1>7. ASSUME NEW c \in Caller, RemoveStale(c) PROVE TypeOK'
  BY <1>7, RemoveTypes DEF RemoveStale, Goto, PC
<1>8. ASSUME NEW c \in Caller, Recreate(c) PROVE TypeOK'
  <2>1. CASE CreateExcl(c) /\ Goto(c, "write") /\ UNCHANGED <<active, seen>>
    BY <2>1, CreateTypes DEF Goto, PC
  <2>2. CASE Refuse(c) /\ UNCHANGED <<lockfile, robbed, seen>>
    BY <2>2 DEF Refuse, Goto, PC
  <2> QED
    BY <1>8, <2>1, <2>2 DEF Recreate
<1>9. ASSUME NEW c \in Caller, Release(c) PROVE TypeOK'
  BY <1>9, RemoveTypes DEF Release, Goto, PC
<1>10. ASSUME NEW c \in Caller, Leave(c) PROVE TypeOK'
  BY <1>10 DEF Leave, Refuse, Goto, PC
<1>11. ASSUME NEW p \in Process, Crash(p) PROVE TypeOK'
  <2>1. lockfile' \in File \cup {NoFile}
    BY <1>11 DEF Crash, File, Pid
  <2>2. seen' \in [Caller -> Pid \cup {NoFile}]
    BY <1>11 DEF Crash, Pid
  <2>3. pc' \in [Caller -> PC]
    BY <1>11 DEF Crash, PC
  <2> QED
    BY <1>11, <2>1, <2>2, <2>3 DEF Crash
<1>12. ASSUME PidReuse PROVE TypeOK'
  <2>1. lockfile' \in File
    BY <1>12 DEF PidReuse, File, Pid
  <2>2. seen' \in [Caller -> Pid \cup {NoFile}]
    BY <1>12 DEF PidReuse, Pid
  <2> QED
    BY <1>12, <2>1, <2>2 DEF PidReuse
<1>13. ASSUME Age PROVE TypeOK'
  BY <1>13 DEF Age, File
<1>14. ASSUME UNCHANGED vars PROVE TypeOK'
  BY <1>14 DEF vars
<1> QED
  BY <1>1, <1>2, <1>3, <1>4, <1>5, <1>6, <1>7, <1>8, <1>9, <1>10, <1>11,
     <1>12, <1>13, <1>14 DEF Next, Work, Acquire

\* A step that moves only caller c, and to a label outside the lock, keeps
\* the file of every other unrobbed owner if it leaves file and history be.
LEMMA QuietStep ==
  ASSUME Inv, NEW c \in Caller, NEW label \in PC \ {"write", "index"},
         Goto(c, label), UNCHANGED <<lockfile, robbed>>
  PROVE  LockfileNamesHolder'
BY DEF Inv, TypeOK, LockfileNamesHolder, Owns, Holds, Goto

\* The same when c creates the file and moves to the payload write.
LEMMA CreateStep ==
  ASSUME Inv, NEW c \in Caller, CreateExcl(c), Goto(c, "write")
  PROVE  LockfileNamesHolder'
<1> SUFFICES ASSUME NEW d \in Caller, Owns(d)', d \notin robbed'
             PROVE  /\ lockfile' # NoFile
                    /\ lockfile'.by = d
                    /\ lockfile'.pid = ProcOf[d]
                    /\ Holds(d)' => lockfile'.written
  BY DEF LockfileNamesHolder
<1>1. d = c
  <2> SUFFICES ASSUME d # c PROVE FALSE
    OBVIOUS
  <2>1. Owns(d) /\ d \notin robbed
    BY DEF Owns, Goto, CreateExcl, Inv, TypeOK
  <2> QED
    BY <2>1 DEF CreateExcl, Inv, LockfileNamesHolder
<1>2. lockfile' # NoFile /\ lockfile'.by = c /\ lockfile'.pid = ProcOf[c]
  <2>1. lockfile'.by = c /\ lockfile'.pid = ProcOf[c]
    BY CreateTypes DEF Inv
  <2>2. Owns(c)' /\ c \in Caller
    BY DEF Owns, Goto, Inv, TypeOK
  <2>3. lockfile' \in File
    BY CreateTypes DEF Inv
  <2> QED
    BY <2>1, <2>3, NoFileOK
<1>3. ~Holds(c)'
  BY DEF Holds, Goto, Inv, TypeOK
<1> QED
  BY <1>1, <1>2, <1>3

\* And when c removes the path and leaves the lock.
LEMMA RemoveStep ==
  ASSUME Inv, NEW c \in Caller, NEW label \in PC \ {"write", "index"},
         Remove(c), Goto(c, label)
  PROVE  LockfileNamesHolder'
<1> SUFFICES ASSUME NEW d \in Caller, Owns(d)', d \notin robbed' PROVE FALSE
  BY DEF LockfileNamesHolder
<1>1. d # c /\ Owns(d)
  BY DEF Owns, Goto, Inv, TypeOK
<1> QED
  BY <1>1, RemoveRobs

\* Each step keeps an unrobbed owner's file at the path.
LEMMA HolderStep == Inv /\ [Next]_vars => LockfileNamesHolder'
<1> SUFFICES ASSUME Inv, [Next]_vars PROVE LockfileNamesHolder'
  OBVIOUS
<1> USE DEF PC
<1>1. ASSUME NEW c \in Caller, Enter(c) PROVE LockfileNamesHolder'
  BY <1>1, QuietStep DEF Enter
<1>2. ASSUME NEW c \in Caller, Create(c) PROVE LockfileNamesHolder'
  <2>1. CASE CreateExcl(c) /\ Goto(c, "write")
    BY <2>1, CreateStep
  <2>2. CASE Goto(c, "stat") /\ UNCHANGED <<active, lockfile, robbed>>
    BY <2>2, QuietStep
  <2>3. CASE Refuse(c) /\ UNCHANGED <<lockfile, robbed>>
    BY <2>3, QuietStep DEF Refuse
  <2> QED
    BY <1>2, <2>1, <2>2, <2>3 DEF Create
<1>3. ASSUME NEW c \in Caller, WritePayload(c) PROVE LockfileNamesHolder'
  <2>1. CASE /\ lockfile' = IF lockfile # NoFile /\ lockfile.by = c
                               THEN [lockfile EXCEPT !.written = TRUE]
                               ELSE lockfile
             /\ Goto(c, "index")
             /\ UNCHANGED <<active, robbed>>
    <3> SUFFICES ASSUME NEW d \in Caller, Owns(d)', d \notin robbed'
                 PROVE  /\ lockfile' # NoFile
                        /\ lockfile'.by = d
                        /\ lockfile'.pid = ProcOf[d]
                        /\ Holds(d)' => lockfile'.written
      BY DEF LockfileNamesHolder
    <3>1. Owns(d) /\ d \notin robbed
      BY <1>3, <2>1 DEF Owns, Goto, Inv, TypeOK, WritePayload
    <3>2. /\ lockfile \in File
          /\ lockfile.by = d
          /\ lockfile.pid = ProcOf[d]
          /\ Holds(d) => lockfile.written
      BY <3>1 DEF Inv, LockfileNamesHolder, TypeOK
    <3>3. CASE d = c
      <4>1. lockfile' = [lockfile EXCEPT !.written = TRUE]
        BY <2>1, <3>2, <3>3, NoFileOK
      <4>2. lockfile' \in File /\ lockfile'.written
        BY <4>1, <3>2 DEF File
      <4> QED
        BY <3>2, <4>1, <4>2, NoFileOK DEF File
    <3>4. CASE d # c
      <4>1. lockfile' = lockfile /\ (Holds(d)' => Holds(d))
        BY <2>1, <3>2, <3>4 DEF Holds, Goto, Inv, TypeOK
      <4> QED
        BY <3>2, <4>1, NoFileOK
    <3> QED
      BY <3>3, <3>4
  <2>2. CASE Remove(c) /\ Refuse(c)
    BY <2>2, RemoveStep DEF Refuse
  <2> QED
    BY <1>3, <2>1, <2>2 DEF WritePayload
<1>4. ASSUME NEW c \in Caller, StatLock(c) PROVE LockfileNamesHolder'
  BY <1>4, QuietStep DEF StatLock, Refuse
<1>5. ASSUME NEW c \in Caller, ReadLock(c) PROVE LockfileNamesHolder'
  BY <1>5, QuietStep DEF ReadLock
<1>6. ASSUME NEW c \in Caller, ProbePid(c) PROVE LockfileNamesHolder'
  BY <1>6, QuietStep DEF ProbePid, Refuse
<1>7. ASSUME NEW c \in Caller, RemoveStale(c) PROVE LockfileNamesHolder'
  BY <1>7, RemoveStep DEF RemoveStale
<1>8. ASSUME NEW c \in Caller, Recreate(c) PROVE LockfileNamesHolder'
  <2>1. CASE CreateExcl(c) /\ Goto(c, "write")
    BY <2>1, CreateStep
  <2>2. CASE Refuse(c) /\ UNCHANGED <<lockfile, robbed>>
    BY <2>2, QuietStep DEF Refuse
  <2> QED
    BY <1>8, <2>1, <2>2 DEF Recreate
<1>9. ASSUME NEW c \in Caller, Release(c) PROVE LockfileNamesHolder'
  BY <1>9, RemoveStep DEF Release
<1>10. ASSUME NEW c \in Caller, Leave(c) PROVE LockfileNamesHolder'
  BY <1>10, QuietStep DEF Leave, Refuse
<1>11. ASSUME NEW p \in Process, Crash(p) PROVE LockfileNamesHolder'
  <2> SUFFICES ASSUME NEW d \in Caller, Owns(d)', d \notin robbed'
               PROVE  /\ lockfile' # NoFile
                      /\ lockfile'.by = d
                      /\ lockfile'.pid = ProcOf[d]
                      /\ Holds(d)' => lockfile'.written
    BY DEF LockfileNamesHolder
  <2>1. ProcOf[d] # p /\ pc'[d] = pc[d] /\ d \notin robbed
    BY <1>11 DEF Crash, Owns
  <2>2. /\ lockfile \in File
        /\ lockfile.by = d
        /\ lockfile.pid = ProcOf[d]
        /\ Holds(d) => lockfile.written
    BY <2>1 DEF Inv, LockfileNamesHolder, TypeOK, Owns
  <2>3. lockfile' = lockfile
    BY <1>11, <2>1, <2>2, NoFileOK DEF Crash, File
  <2> QED
    BY <2>1, <2>2, <2>3, NoFileOK DEF Holds
<1>12. ASSUME PidReuse PROVE LockfileNamesHolder'
  <2> SUFFICES ASSUME NEW d \in Caller, Owns(d), d \notin robbed PROVE FALSE
    BY <1>12 DEF LockfileNamesHolder, PidReuse, Owns
  <2>1. lockfile.pid \in Process
    BY ConstantsOK DEF Inv, LockfileNamesHolder
  <2> QED
    BY <1>12, <2>1, ConstantsOK DEF PidReuse
<1>13. ASSUME Age PROVE LockfileNamesHolder'
  <2>1. lockfile' \in File /\ lockfile \in File
    BY <1>13 DEF Age, File, Inv, TypeOK
  <2>2. /\ lockfile'.by = lockfile.by /\ lockfile'.pid = lockfile.pid
        /\ lockfile'.written = lockfile.written
    BY <1>13, <2>1 DEF Age, File
  <2> QED
    BY <1>13, <2>1, <2>2, NoFileOK
    DEF Age, LockfileNamesHolder, Inv, Owns, Holds
<1>14. ASSUME UNCHANGED vars PROVE LockfileNamesHolder'
  BY <1>14 DEF vars, LockfileNamesHolder, Inv, Owns, Holds
<1> QED
  BY <1>1, <1>2, <1>3, <1>4, <1>5, <1>6, <1>7, <1>8, <1>9, <1>10, <1>11,
     <1>12, <1>13, <1>14 DEF Next, Work, Acquire

\* The invariant holds in every reachable state.
THEOREM InvCorrect == Init /\ [][Next]_vars => []Inv
<1>1. Inv /\ [Next]_vars => Inv'
  BY TypeStep, HolderStep DEF Inv
<1> QED
  BY InitInv, <1>1, PTL

\* Every variable keeps its type.
THEOREM TypeCorrect == Init /\ [][Next]_vars => []TypeOK
BY InvCorrect, PTL DEF Inv

\* An unrobbed owner's file is at the path, under its live pid, and complete
\* while it indexes.
THEOREM HolderNamed == Init /\ [][Next]_vars => []LockfileNamesHolder
BY InvCorrect, PTL DEF Inv

\* Two callers are inside the lockfile together only if the file of one of
\* them was removed by somebody else: whatever the number of processes, the
\* exclusive create never admits two.
THEOREM Exclusion == Init /\ [][Next]_vars => []ExclusionUnlessRobbed
<1>1. Inv => ExclusionUnlessRobbed
  BY DEF Inv, LockfileNamesHolder, ExclusionUnlessRobbed
<1> QED
  BY InvCorrect, <1>1, PTL

-----------------------------------------------------------------------------
(* The in-process flag.                                                    *)

\* A caller that has passed the test-and-set and has not left yet.
Inside(c) == pc[c] # "idle"

\* A step of a caller inside, that stays inside and leaves the flags be.
LEMMA StayStep ==
  ASSUME TypeOK, FlagIsExact, NEW c \in Caller, Inside(c),
         NEW label \in PC \ {"idle"}, Goto(c, label), UNCHANGED active
  PROVE  FlagIsExact'
<1>1. \A d \in Caller : Inside(d)' <=> Inside(d)
  BY DEF TypeOK, Goto, Inside
<1> QED
  BY <1>1 DEF FlagIsExact, Inside

\* Refuse: c was the one caller inside, and now nobody of its process is.
LEMMA RefuseStep ==
  ASSUME TypeOK, FlagIsExact, NEW c \in Caller, Inside(c), Refuse(c)
  PROVE  FlagIsExact'
<1>1. \A d \in Caller : Inside(d)' <=> Inside(d) /\ d # c
  BY DEF TypeOK, Goto, Inside, Refuse
<1>2. \A d \in Caller : Inside(d)' => ProcOf[d] # ProcOf[c]
  BY <1>1, ConstantsOK DEF FlagIsExact, Inside
<1>3. \A p \in Process : active'[p] = IF p = ProcOf[c] THEN FALSE ELSE active[p]
  BY DEF TypeOK, Refuse
<1>4. ASSUME NEW p \in Process
      PROVE  active'[p] <=> \E d \in Caller : ProcOf[d] = p /\ Inside(d)'
  <2>1. CASE p = ProcOf[c]
    BY <1>2, <1>3, <2>1
  <2>2. CASE p # ProcOf[c]
    BY <1>1, <1>3, <2>2 DEF FlagIsExact, Inside
  <2> QED
    BY <2>1, <2>2
<1> QED
  BY <1>1, <1>4 DEF FlagIsExact, Inside

\* The first step of indexImpl: c finds nobody of its process inside.
LEMMA EnterStep ==
  ASSUME TypeOK, FlagIsExact, NEW c \in Caller, Enter(c)
  PROVE  FlagIsExact'
<1>0. ProcOf[c] \in Process
  BY ConstantsOK
<1>1. \A d \in Caller : Inside(d)' <=> Inside(d) \/ d = c
  BY DEF TypeOK, Goto, Inside, Enter
<1>2. \A d \in Caller : Inside(d) => ProcOf[d] # ProcOf[c]
  BY <1>0 DEF FlagIsExact, Inside, Enter
<1>3. \A p \in Process : active'[p] = IF p = ProcOf[c] THEN TRUE ELSE active[p]
  BY DEF TypeOK, Enter
<1>4. ASSUME NEW p \in Process
      PROVE  active'[p] <=> \E d \in Caller : ProcOf[d] = p /\ Inside(d)'
  <2>1. CASE p = ProcOf[c]
    BY <1>1, <1>3, <2>1
  <2>2. CASE p # ProcOf[c]
    BY <1>1, <1>3, <2>2 DEF FlagIsExact, Inside
  <2> QED
    BY <2>1, <2>2
<1> QED
  BY <1>1, <1>2, <1>4 DEF FlagIsExact, Inside

\* Each step keeps the flag exact.
LEMMA FlagStep == TypeOK /\ FlagIsExact /\ [Next]_vars => FlagIsExact'
<1> SUFFICES ASSUME TypeOK, FlagIsExact, [Next]_vars PROVE FlagIsExact'
  OBVIOUS
<1> USE DEF PC
<1>1. ASSUME NEW c \in Caller, Enter(c) PROVE FlagIsExact'
  BY <1>1, EnterStep
<1>2. ASSUME NEW c \in Caller, Acquire(c) PROVE FlagIsExact'
  <2>1. Inside(c)
    BY <1>2 DEF Acquire, Inside, Create, WritePayload, StatLock, ReadLock,
                ProbePid, RemoveStale, Recreate
  <2>2. CASE Refuse(c)
    BY <2>1, <2>2, RefuseStep
  <2>3. CASE UNCHANGED active /\ \E label \in PC \ {"idle"} : Goto(c, label)
    BY <2>1, <2>3, StayStep
  <2> QED
    BY <1>2, <2>2, <2>3
    DEF Acquire, Create, WritePayload, StatLock, ReadLock, ProbePid,
        RemoveStale, Recreate
<1>3. ASSUME NEW c \in Caller, Release(c) PROVE FlagIsExact'
  BY <1>3, StayStep DEF Release, Inside
<1>4. ASSUME NEW c \in Caller, Leave(c) PROVE FlagIsExact'
  BY <1>4, RefuseStep DEF Leave, Inside
<1>5. ASSUME NEW p \in Process, Crash(p) PROVE FlagIsExact'
  <2>1. \A d \in Caller : Inside(d)' <=> Inside(d) /\ ProcOf[d] # p
    BY <1>5 DEF Crash, Inside
  <2>2. \A q \in Process : active'[q] = IF q = p THEN FALSE ELSE active[q]
    BY <1>5 DEF Crash, TypeOK
  <2>3. ASSUME NEW q \in Process
        PROVE  active'[q] <=> \E d \in Caller : ProcOf[d] = q /\ Inside(d)'
    <3>1. CASE q = p
      BY <2>1, <2>2, <3>1
    <3>2. CASE q # p
      <4>1. active[q] <=> \E d \in Caller : ProcOf[d] = q /\ Inside(d)
        BY DEF FlagIsExact, Inside
      <4> HIDE DEF Inside
      <4> QED
        BY <2>1, <2>2, <3>2, <4>1
    <3> QED
      BY <3>1, <3>2
  <2> QED
    BY <2>1, <2>3 DEF FlagIsExact, Inside
<1>6. ASSUME PidReuse \/ Age \/ UNCHANGED vars PROVE FlagIsExact'
  BY <1>6 DEF PidReuse, Age, vars, FlagIsExact
<1> QED
  BY <1>1, <1>2, <1>3, <1>4, <1>5, <1>6 DEF Next, Work

\* The flag is set exactly while one call of the process is inside: every
\* refusal clears it, and two passes of one process never overlap.
THEOREM FlagCorrect == Init /\ [][Next]_vars => []FlagIsExact
<1>1. Init => FlagIsExact
  BY DEF Init, FlagIsExact
<1> QED
  BY <1>1, FlagStep, TypeCorrect, PTL

-----------------------------------------------------------------------------
(* The Python interpreter: "slower, never wrong" for any files and any set *)
(* of those that CPython does not parse.  SlowerNeverWrong is not          *)
(* inductive: requests and answers carry no id that anybody compares, so   *)
(* what an answer is about is only known from what is in the two pipes.    *)
(* PipeOK says it: all there ever is in them is the one request, or its    *)
(* answer, of the call that holds the mutex (MutexOK), whatever kills the  *)
(* interpreter when.                                                       *)

\* The call that holds the mutex is the one that is under way.
MutexOK ==
    \A f \in Source : step[f] \in {"send", "write", "read"} <=> mu = f

\* The answer to a request.
AnswerTo(f) == [of |-> f, good |-> f \notin Hard]

\* What is in the pipes belongs to the call that waits for its answer.
PipeOK ==
    \/ stdin = <<>> /\ stdout = <<>> /\ \A f \in Source : step[f] # "read"
    \/ \E f \in Source :
        /\ step[f] = "read"
        /\ \/ stdin = <<f>> /\ stdout = <<>>
           \/ stdin = <<>> /\ stdout = <<AnswerTo(f)>>

RunnerInv == RunnerTypeOK /\ MutexOK /\ PipeOK /\ SlowerNeverWrong

\* Only one call reads.
LEMMA OneReads ==
  ASSUME MutexOK, NEW f \in Source, NEW g \in Source,
         step[f] = "read", step[g] = "read"
  PROVE  f = g
BY DEF MutexOK

\* Every state the runner starts in satisfies the invariant.
LEMMA RunnerInitInv == RunnerInit => RunnerInv
<1> SUFFICES ASSUME RunnerInit PROVE RunnerInv
  OBVIOUS
<1>1. RunnerTypeOK
  BY DEF RunnerInit, RunnerTypeOK
<1>2. MutexOK
  BY RunnerConstantsOK DEF RunnerInit, MutexOK
<1>3. PipeOK /\ SlowerNeverWrong
  BY DEF RunnerInit, PipeOK, SlowerNeverWrong
<1> QED
  BY <1>1, <1>2, <1>3 DEF RunnerInv

\* Every step keeps the types.
LEMMA RunnerTypeStep == RunnerTypeOK /\ [RunnerNext]_runnerVars => RunnerTypeOK'
<1> SUFFICES ASSUME RunnerTypeOK, [RunnerNext]_runnerVars PROVE RunnerTypeOK'
  OBVIOUS
<1>1. ASSUME NEW f \in Source, ExtractPythonAST(f) PROVE RunnerTypeOK'
  BY <1>1 DEF ExtractPythonAST, Goes, RunnerTypeOK
<1>2. ASSUME NEW f \in Source, Lock(f) PROVE RunnerTypeOK'
  BY <1>2 DEF Lock, Goes, RunnerTypeOK
<1>3. ASSUME NEW f \in Source, StartLocked(f) PROVE RunnerTypeOK'
  BY <1>3 DEF StartLocked, Fails, Goes, RunnerTypeOK
<1>4. ASSUME NEW f \in Source, SetAlarm(f) PROVE RunnerTypeOK'
  BY <1>4 DEF SetAlarm, Goes, RunnerTypeOK
<1>5. ASSUME NEW f \in Source, WriteRequest(f) PROVE RunnerTypeOK'
  <2>1. CASE cmd = "up"
    <3>1. stdin' \in Seq(Source)
      BY <1>5, <2>1 DEF WriteRequest, RunnerTypeOK
    <3> QED
      BY <1>5, <2>1, <3>1 DEF WriteRequest, Goes, RunnerTypeOK
  <2>2. CASE cmd # "up"
    BY <1>5, <2>2 DEF WriteRequest, ResetLocked, Fails, Goes, RunnerTypeOK
  <2> QED
    BY <2>1, <2>2
<1>6. ASSUME NEW f \in Source, ReadResponse(f) PROVE RunnerTypeOK'
  <2> DEFINE Response == [of : Source, good : BOOLEAN]
  <2>1. stdout \in Seq(Response)
    BY DEF RunnerTypeOK
  <2> HIDE DEF Response
  <2>2. stdout # <<>> /\ stdout' = Tail(stdout)
    BY <1>6 DEF ReadResponse
  <2>3. Head(stdout) \in Response /\ stdout' \in Seq(Response)
    BY <2>1, <2>2
  <2>4. Head(stdout).of \in Source /\ stdout' \in Seq([of : Source, good : BOOLEAN])
    BY <2>3 DEF Response
  <2>5. /\ mu' = Unlocked /\ \E s \in {"idle", "alone"} : step' = [step EXCEPT ![f] = s]
        /\ \/ result' = result
           \/ result' = [result EXCEPT ![f] = <<"cpython", Head(stdout).of>>]
        /\ UNCHANGED <<cmd, stdin, alarm>>
    BY <1>6 DEF ReadResponse, Fails, Goes
  <2> QED
    BY <2>4, <2>5 DEF RunnerTypeOK
<1>7. ASSUME NEW f \in Source, ReadFails(f) PROVE RunnerTypeOK'
  BY <1>7 DEF ReadFails, ResetLocked, Fails, Goes, RunnerTypeOK
<1>8. ASSUME NEW f \in Source, ExtractAlone(f) PROVE RunnerTypeOK'
  BY <1>8 DEF ExtractAlone, Goes, RunnerTypeOK
<1>9. ASSUME NEW f \in Source, AlarmStep(f) PROVE RunnerTypeOK'
  BY <1>9 DEF AlarmStep, AlarmFires, AlarmEnds, CheckCmd, KillLocked, Alarms, RunnerTypeOK
<1>10. ASSUME NEW f \in Source, Panic(f) PROVE RunnerTypeOK'
  BY <1>10 DEF Panic, ResetLocked, RunnerTypeOK
<1>11. CASE Answer
  <2>1. stdin \in Seq(Source) /\ stdin # <<>>
    BY <1>11 DEF Answer, RunnerTypeOK
  <2>2. Head(stdin) \in Source /\ Tail(stdin) \in Seq(Source)
    BY <2>1
  <2> QED
    BY <1>11, <2>2 DEF Answer, RunnerTypeOK
<1>12. CASE Die \/ UNCHANGED runnerVars
  BY <1>12 DEF Die, runnerVars, RunnerTypeOK
<1> QED
  BY <1>1, <1>2, <1>3, <1>4, <1>5, <1>6, <1>7, <1>8, <1>9, <1>10, <1>11, <1>12
     DEF RunnerNext, Call

\* Every step keeps the mutex with the call that is under way.
LEMMA MutexStep == RunnerTypeOK /\ MutexOK /\ [RunnerNext]_runnerVars => MutexOK'
<1> SUFFICES ASSUME RunnerTypeOK, MutexOK, [RunnerNext]_runnerVars PROVE MutexOK'
  OBVIOUS
<1> USE RunnerConstantsOK DEF RunnerTypeOK, MutexOK, Goes, Fails
<1>1. ASSUME NEW f \in Source, ExtractPythonAST(f) PROVE MutexOK'
  BY <1>1 DEF ExtractPythonAST
<1>2. ASSUME NEW f \in Source, Lock(f) PROVE MutexOK'
  BY <1>2 DEF Lock
<1>3. ASSUME NEW f \in Source, Call(f) PROVE MutexOK'
  BY <1>3 DEF Call, StartLocked, SetAlarm, WriteRequest, ReadResponse, ReadFails,
              ExtractAlone
<1>4. ASSUME NEW f \in Source, AlarmStep(f) PROVE MutexOK'
  BY <1>4 DEF AlarmStep, AlarmFires, AlarmEnds, CheckCmd, KillLocked
<1>5. ASSUME NEW f \in Source, Panic(f) PROVE MutexOK'
  BY <1>5 DEF Panic
<1>6. CASE Answer \/ Die \/ UNCHANGED runnerVars
  BY <1>6 DEF Answer, Die, runnerVars
<1> QED
  BY <1>1, <1>2, <1>3, <1>4, <1>5, <1>6 DEF RunnerNext

\* Every step keeps the pipes to the call that waits.
LEMMA PipeStep ==
  RunnerTypeOK /\ MutexOK /\ PipeOK /\ [RunnerNext]_runnerVars => PipeOK'
<1> SUFFICES ASSUME RunnerTypeOK, MutexOK, PipeOK, [RunnerNext]_runnerVars
             PROVE  PipeOK'
  OBVIOUS
<1>1. ASSUME NEW f \in Source, ExtractPythonAST(f) \/ Lock(f) PROVE PipeOK'
  <2>1. step[f] # "read" /\ step'[f] # "read" /\ UNCHANGED <<stdin, stdout>>
        /\ \A g \in Source : g # f => step'[g] = step[g]
    BY <1>1 DEF ExtractPythonAST, Lock, Goes, RunnerTypeOK
  <2> QED
    BY <2>1 DEF PipeOK
<1>2. ASSUME NEW f \in Source, StartLocked(f) \/ SetAlarm(f) \/ ExtractAlone(f)
      PROVE  PipeOK'
  <2>1. step[f] # "read" /\ step'[f] # "read" /\ UNCHANGED <<stdin, stdout>>
        /\ \A g \in Source : g # f => step'[g] = step[g]
    BY <1>2 DEF StartLocked, SetAlarm, ExtractAlone, Goes, Fails, RunnerTypeOK
  <2> QED
    BY <2>1 DEF PipeOK
<1>3. ASSUME NEW f \in Source, WriteRequest(f) PROVE PipeOK'
  <2>1. mu = f /\ \A g \in Source : step[g] # "read"
    BY <1>3 DEF WriteRequest, MutexOK
  <2>2. stdin = <<>> /\ stdout = <<>>
    BY <2>1 DEF PipeOK
  <2>3. CASE cmd = "up"
    <3>1. stdin' = <<f>> /\ stdout' = <<>> /\ step'[f] = "read"
      BY <1>3, <2>2, <2>3 DEF WriteRequest, Goes, RunnerTypeOK
    <3> QED
      BY <3>1 DEF PipeOK
  <2>4. CASE cmd # "up"
    BY <1>3, <2>1, <2>4 DEF WriteRequest, ResetLocked, Fails, Goes, RunnerTypeOK, PipeOK
  <2> QED
    BY <2>3, <2>4
<1>4. ASSUME NEW f \in Source, ReadResponse(f) PROVE PipeOK'
  <2>1. step[f] = "read" /\ stdout # <<>>
    BY <1>4 DEF ReadResponse
  <2>2. \A g \in Source : step[g] = "read" => g = f
    BY <2>1, OneReads
  <2>3. stdin = <<>> /\ stdout = <<AnswerTo(f)>>
    BY <2>1, <2>2 DEF PipeOK
  <2>4. stdin' = <<>> /\ stdout' = <<>>
    BY <1>4, <2>3 DEF ReadResponse
  <2>5. step'[f] # "read" /\ \A g \in Source : g # f => step'[g] = step[g]
    BY <1>4 DEF ReadResponse, Fails, Goes, RunnerTypeOK
  <2> QED
    BY <2>2, <2>4, <2>5 DEF PipeOK
<1>5. ASSUME NEW f \in Source, ReadFails(f) PROVE PipeOK'
  <2>1. step[f] = "read" /\ \A g \in Source : step[g] = "read" => g = f
    BY <1>5, OneReads DEF ReadFails
  <2> QED
    BY <1>5, <2>1 DEF ReadFails, ResetLocked, Fails, Goes, RunnerTypeOK, PipeOK
<1>6. ASSUME NEW f \in Source, AlarmStep(f) PROVE PipeOK'
  BY <1>6 DEF AlarmStep, AlarmFires, AlarmEnds, CheckCmd, KillLocked, PipeOK
<1>7. ASSUME NEW f \in Source, Panic(f) PROVE PipeOK'
  BY <1>7 DEF Panic, ResetLocked, PipeOK
<1>8. CASE Answer
  <2>1. PICK f \in Source : step[f] = "read" /\ stdin = <<f>> /\ stdout = <<>>
    BY <1>8 DEF Answer, PipeOK
  <2>2. stdin' = <<>> /\ stdout' = <<AnswerTo(f)>> /\ step' = step
    BY <1>8, <2>1 DEF Answer, AnswerTo
  <2> QED
    BY <2>1, <2>2 DEF PipeOK
<1>9. CASE Die \/ UNCHANGED runnerVars
  BY <1>9 DEF Die, runnerVars, PipeOK
<1> QED
  BY <1>1, <1>2, <1>3, <1>4, <1>5, <1>6, <1>7, <1>8, <1>9 DEF RunnerNext, Call

\* Every step keeps results right.
LEMMA ResultStep ==
  RunnerInv /\ [RunnerNext]_runnerVars => SlowerNeverWrong'
<1> SUFFICES ASSUME RunnerTypeOK, MutexOK, PipeOK, SlowerNeverWrong,
                    [RunnerNext]_runnerVars
             PROVE  SlowerNeverWrong'
  BY DEF RunnerInv
<1>1. ASSUME NEW f \in Source, ExtractPythonAST(f) PROVE SlowerNeverWrong'
  BY <1>1 DEF ExtractPythonAST, SlowerNeverWrong, RunnerTypeOK
<1>2. ASSUME NEW f \in Source, ReadResponse(f) PROVE SlowerNeverWrong'
  <2>1. step[f] = "read" /\ stdout # <<>>
    BY <1>2 DEF ReadResponse
  <2>2. Head(stdout) = AnswerTo(f)
    BY <2>1, OneReads DEF PipeOK
  <2>3. Head(stdout).of = f /\ Head(stdout).good = (f \notin Hard)
    BY <2>2 DEF AnswerTo
  <2>4. \/ result' = result
        \/ f \notin Hard /\ result' = [result EXCEPT ![f] = <<"cpython", f>>]
    BY <1>2, <2>3 DEF ReadResponse, Fails
  <2> QED
    BY <2>4 DEF SlowerNeverWrong, RunnerTypeOK
<1>3. ASSUME NEW f \in Source, ExtractAlone(f) PROVE SlowerNeverWrong'
  BY <1>3 DEF ExtractAlone, SlowerNeverWrong, RunnerTypeOK
<1>4. ASSUME NEW f \in Source, Panic(f) PROVE SlowerNeverWrong'
  BY <1>4 DEF Panic, SlowerNeverWrong
<1>5. ASSUME NEW f \in Source,
             Lock(f) \/ StartLocked(f) \/ SetAlarm(f) \/ WriteRequest(f) \/ ReadFails(f)
      PROVE  SlowerNeverWrong'
  BY <1>5 DEF Lock, StartLocked, SetAlarm, WriteRequest, ReadFails, Fails,
              SlowerNeverWrong
<1>6. ASSUME NEW f \in Source, AlarmStep(f) PROVE SlowerNeverWrong'
  BY <1>6 DEF AlarmStep, AlarmFires, AlarmEnds, CheckCmd, KillLocked, SlowerNeverWrong
<1>7. CASE Answer \/ Die \/ UNCHANGED runnerVars
  BY <1>7 DEF Answer, Die, runnerVars, SlowerNeverWrong
<1> QED
  BY <1>1, <1>2, <1>3, <1>4, <1>5, <1>6, <1>7 DEF RunnerNext, Call

\* RunnerInv is an inductive invariant of the runner.
THEOREM RunnerCorrect == RunnerInit /\ [][RunnerNext]_runnerVars => []RunnerInv
<1>1. RunnerInv /\ [RunnerNext]_runnerVars => RunnerInv'
  BY RunnerTypeStep, MutexStep, PipeStep, ResultStep DEF RunnerInv
<1> QED
  BY RunnerInitInv, <1>1, PTL

\* Whatever happens to the shared interpreter, and whichever call an alarm hits,
\* the symbols a file gets are its own, and CPython's if CPython can parse it.
THEOREM NeverWrong == RunnerInit /\ [][RunnerNext]_runnerVars => []SlowerNeverWrong
BY RunnerCorrect, PTL DEF RunnerInv

-----------------------------------------------------------------------------
(* Both together.                                                          *)

\* A step of the passes is a step of each resource, or leaves it alone.
LEMMA ResourcesStep ==
  [ResourceNext]_resourceVars => [Next]_vars /\ [RunnerNext]_runnerVars
BY DEF ResourceNext, resourceVars, LocksRest, RunnerRests

(***************************************************************************)
(* Whatever passes of however many processes do at once, two are inside a  *)
(* lockfile only if one was robbed of it, a process' own flag is exact,    *)
(* and no file gets the symbols of another or a worse extraction than it   *)
(* had to.                                                                 *)
(***************************************************************************)
THEOREM ResourcesCorrect ==
  ResourceSpec => [](ExclusionUnlessRobbed /\ FlagIsExact /\ SlowerNeverWrong)
<1>1. ResourceSpec => /\ Init /\ [][Next]_vars
                      /\ RunnerInit /\ [][RunnerNext]_runnerVars
  <2>1. ResourceInit => Init /\ RunnerInit
    BY DEF ResourceInit
  <2> QED
    BY <2>1, ResourcesStep, PTL DEF ResourceSpec
<1> QED
  BY <1>1, Exclusion, FlagCorrect, NeverWrong, PTL
=============================================================================
