---------------------------- MODULE SessionStats ----------------------------
(***************************************************************************)
(* What a server counts of its session (internal/server/server.go): the    *)
(* tool calls, the queries that found nothing and those that were retried  *)
(* with success, the next steps that it suggested and that the agent       *)
(* took, and one event per call.  Handlers run concurrently and count with *)
(* separate atomics; flushSession, run by the ticker and once more for the *)
(* first call, loads the counters one after the other, writes them as one  *)
(* row of sessions, and drains the buffered events into                    *)
(* session_tool_calls.  A respawned server resumes from that row when its  *)
(* supervisor gave it the same session id.                                 *)
(*                                                                         *)
(* Tokens, latency and languages are counted like calls and left out.      *)
(***************************************************************************)
EXTENDS Integers, Sequences, FiniteSets

CONSTANTS
    Calls,          \* bound: tool calls, numbered as they are counted
    Request,        \* what a call may be: [query, empty, event]
    Query,          \* queries, the same for the same tool and argument
    EventCap,       \* toolCallEventCap
    RingCap,        \* adherenceRingCap
    MaxRestarts,    \* bound: processes after the first one
    MaxFaults,      \* bound: statements that fail
    None

ASSUME StatsConstantsOK ==
    /\ Request \subseteq [query : Query \cup {None}, empty : BOOLEAN,
                          event : BOOLEAN]
    /\ None \notin Query
    /\ Calls \in Nat /\ None \notin Request
    /\ EventCap \in Nat \ {0} /\ RingCap \in Nat \ {0}
    /\ MaxRestarts \in Nat /\ MaxFaults \in Nat

Call == 1 .. Calls

\* sorted stands for queries_zero_expected and queries_zero_unexpected, of
\* which every miss counts in one; queries_total is left out like tokens.
Field == {"calls", "zero", "retried", "sorted"}

\* The order in which flushSession loads them.
LoadOrder == <<"calls", "zero", "retried", "sorted">>

Flusher == {"ticker", "call"}

VARIABLES
    up,         \* whether the server runs
    count,      \* its counters
    lastZero,   \* the last query-shaped call's query if it found nothing
    ring,       \* suggestions not taken yet
    followed,   \* and how many were made and taken
    buf,        \* toolCallEvents
    pc, req,    \* each call: where its handler is, what it asks
    prev,       \* and the lastZero it swapped out
    fl,         \* each flush: its step, snapshot and batch
    opener,     \* the call that counted one, until it starts a flush
    due,        \* whether that flush was started
    row,        \* the row of sessions, None before the first flush
    table,      \* how often each call's event is in session_tool_calls
    lost,       \* history: calls whose event was dropped
    torn,       \* history: resumed from a row that did not balance
    forgot,     \* history: the row could not be read
    lives, failures     \* bounds

memory == <<count, lastZero, ring, followed, buf>>
handlers == <<pc, req, prev, opener>>
flushing == <<fl, due>>
database == <<row, table>>
history == <<lost, torn, forgot, lives, failures>>
statsVars == <<up, memory, handlers, flushing, database, history>>

Zero == [f \in Field |-> 0]
NoFlush == [at |-> 0, snap |-> Zero, batch |-> {}]

\* The counters agree with one another.
Balanced(c) ==
    /\ c["zero"] = c["sorted"]
    /\ c["retried"] <= c["zero"]
    /\ c["zero"] + c["retried"] <= c["calls"]

StatsInit ==
    /\ up = TRUE /\ count = Zero /\ lastZero = None
    /\ ring = <<>> /\ followed = [emitted |-> 0, taken |-> 0]
    /\ buf = {}
    /\ pc = [c \in Call |-> "idle"]
    /\ req = [c \in Call |-> None] /\ prev = [c \in Call |-> None]
    /\ fl = [f \in Flusher |-> NoFlush] /\ opener = None /\ due = FALSE
    /\ row = None /\ table = [c \in Call |-> 0]
    /\ lost = {} /\ torn = FALSE /\ forgot = FALSE
    /\ lives = 0 /\ failures = 0

-----------------------------------------------------------------------------
(* A call.  jsonResultWithMeta counts it when its handler has an answer.   *)

Goes(c, from, to) == up /\ pc[c] = from /\ pc' = [pc EXCEPT ![c] = to]
Adds(f) == count' = [count EXCEPT ![f] = @ + 1]

\* jsonResultWithMeta, textResultWithMeta: the first call starts a flush.
Counted(c) ==
    /\ \E r \in Request :
        /\ req' = [req EXCEPT ![c] = r]
        /\ Goes(c, "idle", IF r.query # None THEN "query" ELSE "record")
    /\ \A b \in 1 .. (c - 1) : pc[b] # "idle"
    /\ Adds("calls")
    /\ opener' = IF count["calls"] = 0 THEN c ELSE opener
    /\ UNCHANGED <<up, lastZero, ring, followed, buf, prev, flushing,
                   database, history>>

Drop(s, i) == SubSeq(s, 1, i - 1) \o SubSeq(s, i + 1, Len(s))

\* CheckAndConsume, under the tracker's mutex.
Consumes(c) ==
    LET hit == {i \in DOMAIN ring : ring[i] = req[c].query}
    IN
    IF hit = {} THEN UNCHANGED <<ring, followed>>
    ELSE \E first \in hit :
         /\ \A i \in hit : first <= i
         /\ ring' = Drop(ring, first)
         /\ followed' = [followed EXCEPT !.taken = @ + 1]

\* recordQueryMetrics: CheckAndConsume, then lastZero is swapped under its
\* own mutex.  No other step reads both, so the two are one step here.
Swaps(c) ==
    /\ Goes(c, "query", IF req[c].empty THEN "zero" ELSE "credit")
    /\ Consumes(c)
    /\ prev' = [prev EXCEPT ![c] = IF req[c].empty THEN None ELSE lastZero]
    /\ lastZero' = IF req[c].empty THEN req[c].query ELSE None
    /\ UNCHANGED <<up, count, buf, req, opener, flushing, database, history>>

\* ... a miss, then sorted into expected or unexpected,
Missed(c) ==
    /\ Goes(c, "zero", "sort") /\ Adds("zero")
    /\ UNCHANGED <<up, lastZero, ring, followed, buf, req, prev, opener,
                   flushing, database, history>>

Sorted(c) ==
    /\ Goes(c, "sort", "record")
    /\ Adds("sorted")
    /\ UNCHANGED <<up, lastZero, ring, followed, buf, req, prev, opener,
                   flushing, database, history>>

\* Mutant: every find is a recovery.
CreditedAnyway(c) ==
    /\ Goes(c, "credit", "record") /\ Adds("retried")
    /\ prev' = [prev EXCEPT ![c] = None]
    /\ UNCHANGED <<up, lastZero, ring, followed, buf, req, opener,
                   flushing, database, history>>

\* ... or a find, which may be credited as a recovery.
Credited(c) ==
    /\ Goes(c, "credit", "record")
    /\ IF prev[c] = req[c].query THEN Adds("retried") ELSE UNCHANGED count
    /\ prev' = [prev EXCEPT ![c] = None]
    /\ UNCHANGED <<up, lastZero, ring, followed, buf, req, opener,
                   flushing, database, history>>

\* recordToolCallEvent,
Records(c) ==
    IF ~ req[c].event THEN UNCHANGED <<buf, lost>>
    ELSE IF Cardinality(buf) >= EventCap
    THEN lost' = lost \cup {c} /\ UNCHANGED buf
    ELSE buf' = buf \cup {c} /\ UNCHANGED lost

\* and RecordEmitted: a miss comes with the suggestion to ask again.
Emits(c) ==
    LET longer == Append(ring, req[c].query)
        over == Len(longer) - RingCap
    IN
    IF req[c].query # None /\ req[c].empty
    THEN /\ ring' = SubSeq(longer, IF over > 0 THEN over + 1 ELSE 1, Len(longer))
         /\ followed' = [followed EXCEPT !.emitted = @ + 1]
    ELSE UNCHANGED <<ring, followed>>

\* The end of a call; the one that counted one starts a flush.
Answered(c) ==
    /\ Goes(c, "record", "done")
    /\ Records(c) /\ Emits(c)
    /\ due' = (due \/ opener = c)
    /\ opener' = IF opener = c THEN None ELSE opener
    /\ UNCHANGED <<up, count, lastZero, req, prev, fl, database, torn, forgot,
                   lives, failures>>

-----------------------------------------------------------------------------
(* A flush: the ticker's, or the one that the first call started.          *)

Loading(f) == fl[f].at \in DOMAIN LoadOrder
WriteStep == Len(LoadOrder) + 1
DrainStep == WriteStep + 1
InsertStep == DrainStep + 1

\* flushSession returns at once before the first call.
FlushStarts(f) ==
    /\ up /\ fl[f] = NoFlush /\ count["calls"] > 0
    /\ f = "call" => due
    /\ fl' = [fl EXCEPT ![f].at = 1]
    /\ due' = (due /\ f # "call")
    /\ UNCHANGED <<up, memory, handlers, database, history>>

Loads(f) ==
    /\ up /\ Loading(f)
    /\ LET field == LoadOrder[fl[f].at] IN
       fl' = [fl EXCEPT ![f].at = @ + 1, ![f].snap[field] = count[field]]
    /\ UNCHANGED <<up, memory, handlers, due, database, history>>

Fails == failures < MaxFaults /\ failures' = failures + 1

\* RecordSessionWithMetrics replaces the whole row; a failure is logged.
WritesRow(f) ==
    /\ up /\ fl[f].at = WriteStep
    /\ fl' = [fl EXCEPT ![f].at = DrainStep, ![f].snap = Zero]
    /\ \/ row' = fl[f].snap /\ UNCHANGED failures
       \/ Fails /\ UNCHANGED row
    /\ UNCHANGED <<up, memory, handlers, due, table, lost, torn, forgot,
                   lives>>

\* Mutant: the buffer is emptied only when its events are written.
DrainsLate(f) ==
    /\ up /\ fl[f].at = DrainStep
    /\ fl' = [fl EXCEPT ![f] = IF buf = {} THEN NoFlush
                               ELSE [@ EXCEPT !.at = InsertStep, !.batch = buf]]
    /\ UNCHANGED <<up, memory, handlers, due, database, history>>

\* drainToolCallEvents takes the buffer under its mutex,
Drains(f) ==
    /\ up /\ fl[f].at = DrainStep
    /\ fl' = [fl EXCEPT ![f] = IF buf = {} THEN NoFlush
                               ELSE [@ EXCEPT !.at = InsertStep, !.batch = buf]]
    /\ buf' = {}
    /\ UNCHANGED <<up, count, lastZero, ring, followed, handlers, due,
                   database, history>>

\* and RecordToolCalls inserts it in one transaction, or it is dropped.
Inserts(f) ==
    /\ up /\ fl[f].at = InsertStep
    /\ fl' = [fl EXCEPT ![f] = NoFlush]
    /\ \/ /\ table' = [c \in Call |->
                        IF c \in fl[f].batch THEN table[c] + 1 ELSE table[c]]
          /\ UNCHANGED <<lost, failures>>
       \/ /\ Fails /\ lost' = lost \cup fl[f].batch
          /\ UNCHANGED table
    /\ UNCHANGED <<up, memory, handlers, due, row, torn, forgot, lives>>

-----------------------------------------------------------------------------
(* The process may end at any moment: a kill, maybeAutoRestart, the drift  *)
(* watcher, or main returning while the ticker's last flush runs.          *)

Ends ==
    /\ up /\ up' = FALSE
    /\ count' = Zero /\ lastZero' = None /\ ring' = <<>> /\ buf' = {}
    /\ followed' = [emitted |-> 0, taken |-> 0]
    /\ pc' = [c \in Call |-> IF pc[c] \in {"idle", "done"} THEN pc[c] ELSE "dead"]
    /\ prev' = [c \in Call |-> None] /\ opener' = None
    /\ fl' = [f \in Flusher |-> NoFlush] /\ due' = FALSE
    /\ lost' = lost \cup buf \cup UNION {fl[f].batch : f \in Flusher}
    /\ UNCHANGED <<req, database, torn, forgot, lives, failures>>

\* New resumes from the row of its session id, if it can read it.
Resumes ==
    /\ ~ up /\ up' = TRUE
    /\ lives < MaxRestarts /\ lives' = lives + 1
    /\ \/ /\ count' = IF row = None THEN Zero ELSE row
          /\ torn' = ~ Balanced(count') /\ forgot' = FALSE
          /\ UNCHANGED failures
       \/ /\ Fails /\ torn' = FALSE /\ forgot' = (row # None)
          /\ UNCHANGED count
    /\ UNCHANGED <<lastZero, ring, followed, buf, handlers, flushing,
                   database, lost>>

CallStep(c) ==
    \/ Counted(c) \/ Swaps(c) \/ Missed(c) \/ Sorted(c)
    \/ Credited(c) \/ Answered(c)

FlushStep(f) ==
    \/ FlushStarts(f) \/ Loads(f) \/ WritesRow(f) \/ Drains(f) \/ Inserts(f)

StatsNext ==
    \/ \E c \in Call : CallStep(c)
    \/ \E f \in Flusher : FlushStep(f)
    \/ Ends \/ Resumes

-----------------------------------------------------------------------------
Counters == [Field -> 0 .. Calls]

StatsTypeOK ==
    /\ up \in BOOLEAN /\ due \in BOOLEAN
    /\ torn \in BOOLEAN /\ forgot \in BOOLEAN
    /\ count \in Counters /\ row \in Counters \cup {None}
    /\ lastZero \in Query \cup {None}
    /\ ring \in Seq(Query) /\ Len(ring) <= RingCap
    /\ followed \in [emitted : 0 .. Calls,
                      taken : 0 .. Calls]
    /\ buf \subseteq Call /\ Cardinality(buf) <= EventCap
    /\ pc \in [Call -> {"idle", "query", "zero", "sort", "credit",
                        "record", "done",
                        "dead"}]
    /\ req \in [Call -> Request \cup {None}]
    /\ prev \in [Call -> Query \cup {None}] /\ opener \in Call \cup {None}
    /\ fl \in [Flusher -> [at : 0 .. InsertStep, snap : Counters,
                           batch : SUBSET Call]]
    /\ table \in [Call -> 0 .. 2] /\ lost \subseteq Call
    /\ lives \in 0 .. MaxRestarts /\ failures \in 0 .. MaxFaults

Idle(c) == pc[c] \in {"idle", "record", "done", "dead"}

(***************************************************************************)
(* When no handler is between two of its counters, every query that found  *)
(* nothing is sorted, at most one recovery is credited for each of them,   *)
(* and no suggestion is taken twice; and the stored row never runs ahead   *)
(* of the server that writes it, over any number of respawns and however   *)
(* flushes overlap: nothing is counted twice.  Excepted are a server that  *)
(* resumed from a row whose counters were loaded while a handler was       *)
(* counting, which keeps the difference, and one that could not read the   *)
(* row and began at zero, which then overwrites it.                        *)
(***************************************************************************)
BooksBalance ==
    /\ (\A c \in Call : Idle(c)) /\ ~ torn => Balanced(count)
    /\ followed.taken + Len(ring) <= followed.emitted
    /\ up /\ row # None /\ ~ forgot => \A f \in Field : row[f] <= count[f]

(***************************************************************************)
(* Every event of an answered call is in exactly one place: the buffer, a  *)
(* batch that is being written, the table (once), or dropped because the   *)
(* buffer was full, its insert failed or the process ended.  The buffer    *)
(* keeps to its limit.                                                     *)
(***************************************************************************)
EventsAccounted ==
    /\ Cardinality(buf) <= EventCap
    /\ \A c \in Call :
        LET held == {f \in Flusher : c \in fl[f].batch}
            places == Cardinality(held) + table[c]
                      + (IF c \in buf THEN 1 ELSE 0)
                      + (IF c \in lost THEN 1 ELSE 0)
        IN  /\ places <= 1
            /\ pc[c] = "done" /\ req[c].event => places = 1
=============================================================================
