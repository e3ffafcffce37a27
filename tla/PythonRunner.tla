---------------------------- MODULE PythonRunner ----------------------------
(***************************************************************************)
(* The Python extractor (internal/ast/python_ast.go, python_runner.go and  *)
(* the loop of python_extract.py): the files of a pass are extracted       *)
(* concurrently, and share one interpreter that answers one line for each  *)
(* line it is sent.  A call holds the runner's mutex from its request to   *)
(* its answer.  A goroutine of its own, the alarm, kills the interpreter   *)
(* when the call takes too long; it does not take the mutex.  A call that  *)
(* the shared interpreter does not answer starts one for its file alone,   *)
(* and when that fails too the file is left to the regular expressions.    *)
(*                                                                         *)
(* The ids of requests and answers are left out: nobody compares them.     *)
(* The goroutine of an alarm may be late: it may find the call over and    *)
(* still take the timer's branch of its select, or be stopped between the  *)
(* two reads of r.cmd, which it does without the mutex.                    *)
(***************************************************************************)
EXTENDS Sequences, FiniteSets

CONSTANTS
    Source,     \* the Python files
    Hard,       \* those that ast.parse refuses, or that break or hang CPython
    Unlocked    \* nobody has the mutex

ASSUME RunnerConstantsOK ==
    /\ Hard \subseteq Source
    /\ Unlocked \notin Source

VARIABLES
    step,       \* step[f]: what the extraction of f does next
    mu,         \* who holds pythonRunner.mu
    cmd,        \* r.cmd: "nil", or its process, "up" or "dead"
    stdin,      \* the requests in the pipe
    stdout,     \* the answers in the pipe, [of, good]
    alarm,      \* alarm[f]: the goroutine of the last call for f
    result      \* result[f]: how the last call for f ended, <<by, of>>

runnerVars == <<step, mu, cmd, stdin, stdout, alarm, result>>

RunnerTypeOK ==
    /\ step \in [Source -> {"idle", "lock", "send", "write", "read", "alone"}]
    /\ mu \in Source \cup {Unlocked}
    /\ cmd \in {"nil", "up", "dead"}
    /\ stdin \in Seq(Source) /\ stdout \in Seq([of : Source, good : BOOLEAN])
    /\ alarm \in [Source -> {"none", "set", "fired", "killing"}]
    /\ result \in [Source -> {"none", "cpython", "regex"} \X (Source \cup {Unlocked})]

RunnerInit ==
    /\ step = [f \in Source |-> "idle"]
    /\ mu = Unlocked
    /\ cmd = "nil" /\ stdin = <<>> /\ stdout = <<>>
    /\ alarm = [f \in Source |-> "none"]
    /\ result = [f \in Source |-> <<"none", Unlocked>>]

Goes(f, to) == step' = [step EXCEPT ![f] = to]

InCall(f) == mu = f

-----------------------------------------------------------------------------
(* A call.                                                                 *)

\* Bound: a file is not extracted again before the alarm of its last call has
\* ended.
ExtractPythonAST(f) ==
    /\ step[f] = "idle" /\ alarm[f] = "none"
    /\ Goes(f, "lock")
    /\ result' = [result EXCEPT ![f] = <<"none", Unlocked>>]
    /\ UNCHANGED <<mu, cmd, stdin, stdout, alarm>>

\* Mutant: only the start of the interpreter is exclusive, not the round trip.
LockToStart(f) ==
    /\ step[f] = "lock" /\ (mu = Unlocked \/ cmd # "nil")
    /\ mu' = f /\ Goes(f, "send")
    /\ UNCHANGED <<cmd, stdin, stdout, alarm, result>>

Lock(f) ==
    /\ step[f] = "lock" /\ mu = Unlocked
    /\ mu' = f /\ Goes(f, "send")
    /\ UNCHANGED <<cmd, stdin, stdout, alarm, result>>

ResetLocked == cmd' = "nil" /\ stdin' = <<>> /\ stdout' = <<>>

\* extract returns (nil, false).
Fails(f) == mu' = Unlocked /\ Goes(f, "alone") /\ UNCHANGED result

StartLocked(f) ==
    /\ step[f] = "send" /\ cmd = "nil"
    /\ \/ cmd' = "up" /\ UNCHANGED <<step, mu, result>>
       \/ Fails(f) /\ UNCHANGED cmd
    /\ UNCHANGED <<stdin, stdout, alarm>>

SetAlarm(f) ==
    /\ step[f] = "send" /\ cmd # "nil"
    /\ alarm' = [alarm EXCEPT ![f] = "set"] /\ Goes(f, "write")
    /\ UNCHANGED <<mu, cmd, stdin, stdout, result>>

WriteRequest(f) ==
    /\ step[f] = "write"
    /\ IF cmd = "up"
       THEN /\ stdin' = Append(stdin, f) /\ Goes(f, "read")
            /\ UNCHANGED <<mu, cmd, stdout, result>>
       ELSE ResetLocked /\ Fails(f)
    /\ UNCHANGED alarm

\* A line that was written whole is read even from a process that has died.
ReadResponse(f) ==
    /\ step[f] = "read" /\ stdout # <<>>
    /\ stdout' = Tail(stdout)
    /\ IF Head(stdout).good
       THEN /\ mu' = Unlocked /\ Goes(f, "idle")
            /\ result' = [result EXCEPT ![f] = <<"cpython", Head(stdout).of>>]
       ELSE Fails(f)
    /\ UNCHANGED <<cmd, stdin, alarm>>

\* The end of the pipe, or of a line that was not written whole.
ReadFails(f) ==
    /\ step[f] = "read" /\ stdout = <<>> /\ cmd # "up"
    /\ ResetLocked /\ Fails(f)
    /\ UNCHANGED alarm

\* An interpreter for f alone, within its time, or extractPython.
ExtractAlone(f) ==
    /\ step[f] = "alone" /\ Goes(f, "idle")
    /\ result' = [result EXCEPT ![f] =
                    IF f \in Hard THEN <<"regex", f>> ELSE <<"cpython", f>>]
    /\ UNCHANGED <<mu, cmd, stdin, stdout, alarm>>

-----------------------------------------------------------------------------
(* The alarm of a call.                                                    *)

Alarms(f, to) == alarm' = [alarm EXCEPT ![f] = to]

AlarmFires(f) ==
    /\ alarm[f] = "set" /\ Alarms(f, "fired")
    /\ UNCHANGED <<step, mu, cmd, stdin, stdout, result>>

\* done is closed: the call is over.
AlarmEnds(f) ==
    /\ alarm[f] = "set" /\ ~ InCall(f) /\ Alarms(f, "none")
    /\ UNCHANGED <<step, mu, cmd, stdin, stdout, result>>

\* Mutant: the alarm waits for the mutex, which its call holds.
CheckCmdLocked(f) ==
    /\ alarm[f] = "fired" /\ mu = Unlocked
    /\ Alarms(f, IF cmd = "nil" THEN "none" ELSE "killing")
    /\ UNCHANGED <<step, mu, cmd, stdin, stdout, result>>

\* The first read of r.cmd.
CheckCmd(f) ==
    /\ alarm[f] = "fired"
    /\ Alarms(f, IF cmd = "nil" THEN "none" ELSE "killing")
    /\ UNCHANGED <<step, mu, cmd, stdin, stdout, result>>

\* The second.  Nothing says that it is the process of this call.
KillLocked(f) ==
    /\ alarm[f] = "killing" /\ Alarms(f, "none")
    /\ cmd' = IF cmd = "up" THEN "dead" ELSE cmd
    /\ UNCHANGED <<step, mu, stdin, stdout, result>>

\* The second, after a reset: r.cmd is nil, and pincher dies of it.
Panic(f) ==
    /\ alarm[f] = "killing" /\ cmd = "nil"
    /\ ResetLocked /\ mu' = Unlocked
    /\ step' = [g \in Source |-> "idle"]
    /\ alarm' = [g \in Source |-> "none"]
    /\ result' = [g \in Source |-> <<"none", Unlocked>>]

-----------------------------------------------------------------------------
(* The interpreter.                                                        *)

\* run_daemon: extract_one catches what ast.parse refuses.
Answer ==
    /\ cmd = "up" /\ stdin # <<>>
    /\ stdin' = Tail(stdin)
    /\ stdout' = Append(stdout, [of |-> Head(stdin), good |-> Head(stdin) \notin Hard])
    /\ UNCHANGED <<step, mu, cmd, alarm, result>>

\* An exception of another kind (a NUL byte, a nesting too deep), or the system.
Die ==
    /\ cmd = "up" /\ cmd' = "dead"
    /\ UNCHANGED <<step, mu, stdin, stdout, alarm, result>>

-----------------------------------------------------------------------------
Call(f) ==
    \/ StartLocked(f) \/ SetAlarm(f) \/ WriteRequest(f)
    \/ ReadResponse(f) \/ ReadFails(f) \/ ExtractAlone(f)

AlarmStep(f) == AlarmFires(f) \/ AlarmEnds(f) \/ CheckCmd(f) \/ KillLocked(f)

RunnerNext ==
    \/ \E f \in Source : \/ ExtractPythonAST(f) \/ Lock(f) \/ Call(f)
                         \/ AlarmStep(f) \/ Panic(f)
    \/ Answer \/ Die

-----------------------------------------------------------------------------
(***************************************************************************)
(* "The failure mode is slower, never wrong" (python_ast.go:189): whatever *)
(* happens to the shared interpreter, and whichever call an alarm hits,    *)
(* the symbols a file gets are its own, and CPython's if CPython can parse *)
(* it.                                                                     *)
(***************************************************************************)
SlowerNeverWrong ==
    \A f \in Source : result[f][1] # "none" =>
        result[f] = <<IF f \in Hard THEN "regex" ELSE "cpython", f>>

(***************************************************************************)
(* A file that hangs the interpreter does not hang the pass: every call    *)
(* ends, that of the file and those that wait for the mutex behind it,     *)
(* though an interpreter need not ever answer.                             *)
(***************************************************************************)
EveryCallReturns == \A f \in Source : step[f] # "idle" ~> step[f] = "idle"
=============================================================================
