------------------------- MODULE SessionStats_proofs -------------------------
(***************************************************************************)
(* The books of a session, for any number of calls, requests and respawns  *)
(* and any capacities.                                                     *)
(*                                                                         *)
(* BooksBalance speaks of the moments when no handler is between two       *)
(* counters, and is not inductive.  CountOK says at every moment by how    *)
(* much the counters may differ: by the number of handlers that are about  *)
(* to count, and, of the recoveries, by the misses that are still to be    *)
(* credited: one that lastZero holds, and one that each handler at         *)
(* "credit" has swapped out of it.  Because the swap moves a miss and      *)
(* never copies it, no miss is credited twice.  SnapOK says of each flush, *)
(* however far it is, that it has loaded nothing that was not counted: the *)
(* row that it writes is behind the counters even when an older flush      *)
(* writes after a newer one.  EventOK counts the places where an event is  *)
(* in numbers, one for each flush and each set.                            *)
(***************************************************************************)
EXTENDS SessionStats, FiniteSetTheorems, TLAPS

Place == [at : Nat, snap : [Field -> Nat], batch : SUBSET Call]

StatsTyping ==
    /\ up \in BOOLEAN /\ torn \in BOOLEAN /\ forgot \in BOOLEAN
    /\ count \in [Field -> Nat] /\ row \in [Field -> Nat] \cup {None}
    /\ lastZero \in Query \cup {None}
    /\ ring \in Seq(Query) /\ followed \in [emitted : Nat, taken : Nat]
    /\ buf \in SUBSET Call /\ lost \in SUBSET Call
    /\ pc \in [Call -> {"idle", "query", "zero", "sort", "credit", "record", "done",
                        "dead"}]
    /\ req \in [Call -> Request \cup {None}]
    /\ prev \in [Call -> Query \cup {None}]
    /\ fl \in [Flusher -> Place]
    /\ table \in [Call -> Nat]

\* What a handler is at follows from what it was asked.
RequestOK ==
    \A c \in Call :
        /\ pc[c] # "idle" => req[c] \in Request
        /\ pc[c] \in {"query", "zero", "sort", "credit"} => req[c].query # None

\* A process that is gone has nothing in memory.
GoneOK ==
    ~ up => /\ count = Zero /\ lastZero = None
            /\ \A c \in Call : pc[c] \in {"idle", "done", "dead"}

\* Only a flush that has drained the buffer has a batch.
BatchOK == \A f \in Flusher : fl[f].at # InsertStep => fl[f].batch = {}

\* No suggestion is taken twice.
RingOK == followed.taken + Len(ring) <= followed.emitted

\* A flush has loaded nothing that the server has not counted.
SnapOK ==
    /\ \A f \in Flusher, x \in Field : fl[f].snap[x] <= count[x]
    /\ up /\ row # None /\ ~ forgot => \A x \in Field : row[x] <= count[x]

\* Handlers that are at one of these steps, and those that may be credited.
At(steps) == {c \in Call : pc[c] \in steps}
Creditable == {c \in Call : pc[c] = "credit" /\ prev[c] # None}
Waiting == IF lastZero = None THEN 0 ELSE 1

\* The counters agree, but for what handlers are about to count.
CountOK ==
    ~ torn =>
        /\ count["zero"] = count["sorted"] + Cardinality(At({"sort"}))
        /\ count["retried"] + Cardinality(Creditable) + Waiting
              <= count["zero"] + Cardinality(At({"zero"}))
        /\ count["zero"] + count["retried"] + Cardinality(At({"query", "zero", "credit"}))
              <= count["calls"]

One(holds) == IF holds THEN 1 ELSE 0

Places(c) ==
    One(c \in fl["ticker"].batch) + One(c \in fl["call"].batch) + table[c]
    + One(c \in buf) + One(c \in lost)

\* The event of a call is nowhere until it is answered, and in one place then.
EventOK ==
    /\ Cardinality(buf) <= EventCap
    /\ \A c \in Call : Places(c) = One(pc[c] = "done" /\ req[c].event)

StatsInv ==
    /\ StatsTyping /\ RequestOK /\ GoneOK /\ BatchOK
    /\ RingOK /\ SnapOK /\ CountOK /\ EventOK

-----------------------------------------------------------------------------
(* Counting.                                                               *)

\* Sets of calls are finite.
LEMMA CallFinite == \A S \in SUBSET Call : IsFiniteSet(S) /\ Cardinality(S) \in Nat
<1>1. IsFiniteSet(Call)
  BY FS_Interval, StatsConstantsOK DEF Call
<1> QED
  BY <1>1, FS_Subset, FS_CardinalityType

\* Two sets that differ in one call at most.
LEMMA OneMoves ==
  ASSUME NEW S \in SUBSET Call, NEW T \in SUBSET Call, NEW c \in Call,
         \A d \in Call : d # c => (d \in S <=> d \in T)
  PROVE  Cardinality(T) + One(c \in S) = Cardinality(S) + One(c \in T)
<1>1. S \ {c} = T \ {c}
  OBVIOUS
<1>2. /\ Cardinality(S \ {c}) = IF c \in S THEN Cardinality(S) - 1 ELSE Cardinality(S)
      /\ Cardinality(T \ {c}) = IF c \in T THEN Cardinality(T) - 1 ELSE Cardinality(T)
  BY CallFinite, FS_RemoveElement
<1>3. Cardinality(S) \in Nat /\ Cardinality(T) \in Nat
  BY CallFinite
<1> QED
  BY <1>1, <1>2, <1>3 DEF One

Held(c) == {f \in Flusher : c \in fl[f].batch}

\* Flushes that hold an event, counted.
LEMMA HeldByFlushers ==
  ASSUME NEW c
  PROVE  Cardinality(Held(c))
            = One(c \in fl["ticker"].batch) + One(c \in fl["call"].batch)
<1>1. CASE c \in fl["ticker"].batch /\ c \in fl["call"].batch
  <2>1. Held(c) = {"ticker"} \cup {"call"}
    BY <1>1 DEF Flusher, Held
  <2>2. IsFiniteSet({"ticker"}) /\ Cardinality({"ticker"}) = 1 /\ "call" \notin {"ticker"}
    BY FS_Singleton
  <2>3. Cardinality({"ticker"} \cup {"call"}) = 2
    BY <2>2, FS_AddElement
  <2> QED
    BY <1>1, <2>1, <2>3 DEF One
<1>2. CASE c \in fl["ticker"].batch /\ c \notin fl["call"].batch
  <2>1. Held(c) = {"ticker"}
    BY <1>2 DEF Flusher, Held
  <2>2. Cardinality(Held(c)) = 1
    BY <2>1, FS_Singleton
  <2> QED
    BY <1>2, <2>2 DEF One
<1>3. CASE c \notin fl["ticker"].batch /\ c \in fl["call"].batch
  <2>1. Held(c) = {"call"}
    BY <1>3 DEF Flusher, Held
  <2>2. Cardinality(Held(c)) = 1
    BY <2>1, FS_Singleton
  <2> QED
    BY <1>3, <2>2 DEF One
<1>4. CASE c \notin fl["ticker"].batch /\ c \notin fl["call"].batch
  <2>1. Held(c) = {}
    BY <1>4 DEF Flusher, Held
  <2>2. Cardinality(Held(c)) = 0
    BY <2>1, FS_EmptySet
  <2> QED
    BY <1>4, <2>2 DEF One
<1> QED
  BY <1>1, <1>2, <1>3, <1>4

\* What taking one out of a sequence leaves.
LEMMA DropType ==
  ASSUME NEW s \in Seq(Query), NEW i \in DOMAIN s
  PROVE  Drop(s, i) \in Seq(Query) /\ Len(Drop(s, i)) = Len(s) - 1
BY DEF Drop

-----------------------------------------------------------------------------
(* Types.                                                                  *)

\* What a step of a flush makes of it.
Moved(f, at, snap, batch) ==
    fl'[f].at = at /\ fl'[f].snap = snap /\ fl'[f].batch = batch

Shape(f) ==
    \/ fl[f] = NoFlush /\ Moved(f, 1, Zero, {})
    \/ /\ fl[f].at \in 1 .. 4
       /\ Moved(f, fl[f].at + 1,
                [fl[f].snap EXCEPT ![LoadOrder[fl[f].at]] = count[LoadOrder[fl[f].at]]],
                fl[f].batch)
    \/ fl[f].at = 5 /\ Moved(f, 6, Zero, fl[f].batch)
    \/ fl[f].at = 6 /\ buf # {} /\ Moved(f, 7, fl[f].snap, buf)
    \/ fl[f].at = 6 /\ buf = {} /\ fl'[f] = NoFlush
    \/ fl[f].at = 7 /\ fl'[f] = NoFlush

\* The numbers of the steps.
LEMMA Steps ==
  /\ WriteStep = 5 /\ DrainStep = 6 /\ InsertStep = 7 /\ DOMAIN LoadOrder = 1 .. 4
  /\ \A i \in 1 .. 4 : LoadOrder[i] \in Field
BY DEF WriteStep, DrainStep, InsertStep, LoadOrder, Field

\* Every step of a flush moves it alone.
LEMMA FlushMoves ==
  ASSUME StatsTyping, NEW f \in Flusher, FlushStep(f)
  PROVE  /\ fl' \in [Flusher -> Place]
         /\ \A g \in Flusher : g # f => fl'[g] = fl[g]
         /\ Shape(f)
<1> DEFINE Goal == /\ fl' \in [Flusher -> Place]
                   /\ \A g \in Flusher : g # f => fl'[g] = fl[g]
                   /\ Shape(f)
<1>1. fl[f] \in Place /\ fl \in [Flusher -> Place] /\ count \in [Field -> Nat]
      /\ buf \in SUBSET Call
  BY DEF StatsTyping
<1>2. NoFlush \in Place /\ Zero \in [Field -> Nat] /\ NoFlush.snap = Zero
      /\ NoFlush.batch = {}
  BY DEF NoFlush, Zero, Place
<1>3. CASE FlushStarts(f)
  <2>1. fl' = [fl EXCEPT ![f].at = 1] /\ fl[f] = NoFlush
    BY <1>3 DEF FlushStarts
  <2>2. fl' \in [Flusher -> Place] /\ \A g \in Flusher : g # f => fl'[g] = fl[g]
    BY <1>1, <2>1 DEF Place
  <2>3. Moved(f, 1, Zero, {})
    BY <1>1, <1>2, <2>1 DEF Place, Moved
  <2> QED
    BY <2>1, <2>2, <2>3 DEF Shape
<1>4. CASE Loads(f)
  <2> DEFINE x == LoadOrder[fl[f].at]
  <2>1. fl' = [fl EXCEPT ![f].at = @ + 1, ![f].snap[x] = count[x]] /\ fl[f].at \in 1 .. 4
    BY <1>4, Steps DEF Loads, Loading
  <2>2. x \in Field /\ count[x] \in Nat
    BY <1>1, <2>1, Steps
  <2> HIDE DEF x
  <2>3. fl[f].at + 1 \in Nat /\ [fl[f].snap EXCEPT ![x] = count[x]] \in [Field -> Nat]
    BY <1>1, <2>2 DEF Place
  <2>4. fl' = [fl EXCEPT ![f].at = fl[f].at + 1,
                         ![f].snap = [fl[f].snap EXCEPT ![x] = count[x]]]
    BY <1>1, <2>1, <2>2 DEF Place
  <2>5. fl' \in [Flusher -> Place] /\ \A g \in Flusher : g # f => fl'[g] = fl[g]
    BY <1>1, <2>3, <2>4 DEF Place
  <2>6. Moved(f, fl[f].at + 1, [fl[f].snap EXCEPT ![x] = count[x]], fl[f].batch)
    BY <1>1, <2>3, <2>4 DEF Place, Moved
  <2> QED
    BY <2>1, <2>5, <2>6 DEF Shape, x
<1>5. CASE WritesRow(f)
  <2>1. fl' = [fl EXCEPT ![f].at = 6, ![f].snap = Zero] /\ fl[f].at = 5
    BY <1>5, Steps DEF WritesRow
  <2>2. fl' \in [Flusher -> Place] /\ \A g \in Flusher : g # f => fl'[g] = fl[g]
    BY <1>1, <1>2, <2>1 DEF Place
  <2>3. Moved(f, 6, Zero, fl[f].batch)
    BY <1>1, <1>2, <2>1 DEF Place, Moved
  <2> QED
    BY <2>1, <2>2, <2>3 DEF Shape
<1>6. CASE Drains(f)
  <2>1. fl[f].at = 6
        /\ fl' = [fl EXCEPT ![f] = IF buf = {} THEN NoFlush
                                   ELSE [@ EXCEPT !.at = 7, !.batch = buf]]
    BY <1>6, Steps DEF Drains
  <2>2. [fl[f] EXCEPT !.at = 7, !.batch = buf] \in Place
    BY <1>1 DEF Place
  <2>3. fl' \in [Flusher -> Place] /\ \A g \in Flusher : g # f => fl'[g] = fl[g]
    BY <1>1, <1>2, <2>1, <2>2
  <2>4. CASE buf = {}
    <3>1. fl'[f] = NoFlush
      BY <1>1, <2>1, <2>4
    <3> QED
      BY <2>1, <2>3, <2>4, <3>1 DEF Shape
  <2>5. CASE buf # {}
    <3>1. fl'[f] = [fl[f] EXCEPT !.at = 7, !.batch = buf]
      BY <1>1, <2>1, <2>5
    <3>2. Moved(f, 7, fl[f].snap, buf)
      BY <1>1, <3>1 DEF Place, Moved
    <3> QED
      BY <2>1, <2>3, <2>5, <3>2 DEF Shape
  <2> QED
    BY <2>4, <2>5
<1>7. CASE Inserts(f)
  <2>1. fl' = [fl EXCEPT ![f] = NoFlush] /\ fl[f].at = 7
    BY <1>7, Steps DEF Inserts
  <2>2. fl' \in [Flusher -> Place] /\ \A g \in Flusher : g # f => fl'[g] = fl[g]
    BY <1>1, <1>2, <2>1
  <2>3. fl'[f] = NoFlush
    BY <1>1, <2>1
  <2> QED
    BY <2>1, <2>2, <2>3 DEF Shape
<1> QED
  BY <1>3, <1>4, <1>5, <1>6, <1>7 DEF FlushStep

\* Every step keeps the types.
LEMMA StatsTypeStep ==
  StatsTyping /\ RequestOK /\ [StatsNext]_statsVars => StatsTyping'
<1> SUFFICES ASSUME StatsTyping, RequestOK, [StatsNext]_statsVars PROVE StatsTyping'
  OBVIOUS
<1> USE DEF memory, handlers, flushing, database, history
<1>1. ASSUME NEW c \in Call, Counted(c) PROVE StatsTyping'
  BY <1>1, StatsConstantsOK DEF Counted, Goes, Adds, StatsTyping, Field
<1>2. ASSUME NEW c \in Call, Swaps(c) PROVE StatsTyping'
  <2>1. req[c] \in Request /\ req[c].query \in Query
    BY <1>2, StatsConstantsOK DEF Swaps, Goes, RequestOK
  <2>2. ring' \in Seq(Query) /\ followed' \in [emitted : Nat, taken : Nat]
    <3>1. CASE UNCHANGED <<ring, followed>>
      BY <3>1 DEF StatsTyping
    <3>2. CASE \E i \in DOMAIN ring : ring' = Drop(ring, i)
                    /\ followed' = [followed EXCEPT !.taken = @ + 1]
      <4>1. PICK i \in DOMAIN ring : ring' = Drop(ring, i)
        BY <3>2
      <4>2. ring' \in Seq(Query)
        BY <4>1, DropType DEF StatsTyping
      <4>3. followed' = [followed EXCEPT !.taken = @ + 1]
        BY <3>2
      <4>4. followed \in [emitted : Nat, taken : Nat]
        BY DEF StatsTyping
      <4>5. followed' \in [emitted : Nat, taken : Nat]
        BY <4>3, <4>4
      <4> QED
        BY <4>2, <4>5
    <3> QED
      BY <1>2, <3>1, <3>2 DEF Swaps, Consumes
  <2>3. /\ UNCHANGED <<up, count, buf, req, flushing, database, history>>
        /\ \E s \in {"zero", "credit"} : pc' = [pc EXCEPT ![c] = s]
        /\ \E q \in Query \cup {None} : prev' = [prev EXCEPT ![c] = q]
        /\ lastZero' \in Query \cup {None}
    BY <1>2, <2>1 DEF Swaps, Goes, StatsTyping
  <2> QED
    BY <2>2, <2>3 DEF StatsTyping
<1>3. ASSUME NEW c \in Call, Missed(c) \/ Sorted(c) \/ Credited(c) PROVE StatsTyping'
  <2>1. /\ UNCHANGED <<up, lastZero, ring, followed, buf, req, flushing, database, history>>
        /\ \E s \in {"sort", "record"} : pc' = [pc EXCEPT ![c] = s]
        /\ prev' = prev \/ prev' = [prev EXCEPT ![c] = None]
    BY <1>3 DEF Missed, Sorted, Credited, Goes
  <2>2. UNCHANGED count \/ \E x \in Field : count' = [count EXCEPT ![x] = @ + 1]
    BY <1>3 DEF Missed, Sorted, Credited, Adds, Field
  <2>3. count' \in [Field -> Nat]
    <3>1. count \in [Field -> Nat]
      BY DEF StatsTyping
    <3> QED
      BY <2>2, <3>1
  <2> QED
    BY <2>1, <2>3 DEF StatsTyping
<1>4. ASSUME NEW c \in Call, Answered(c) PROVE StatsTyping'
  <2>1. req[c] \in Request
    BY <1>4 DEF Answered, Goes, RequestOK
  <2>2. ring' \in Seq(Query) /\ followed' \in [emitted : Nat, taken : Nat]
    <3>1. CASE UNCHANGED <<ring, followed>>
      BY <3>1 DEF StatsTyping
    <3>2. CASE /\ req[c].query # None
               /\ \E i \in 1 .. Len(Append(ring, req[c].query)) :
                    ring' = SubSeq(Append(ring, req[c].query), i,
                                   Len(Append(ring, req[c].query)))
               /\ followed' = [followed EXCEPT !.emitted = @ + 1]
      <4>1. req[c].query \in Query
        BY <2>1, <3>2, StatsConstantsOK
      <4>2. Append(ring, req[c].query) \in Seq(Query)
        BY <4>1 DEF StatsTyping
      <4> QED
        BY SMTT(60), <3>2, <4>2 DEF StatsTyping
    <3>3. ASSUME req[c].query # None /\ req[c].empty
          PROVE  \E i \in 1 .. Len(Append(ring, req[c].query)) :
                    ring' = SubSeq(Append(ring, req[c].query), i,
                                   Len(Append(ring, req[c].query)))
      <4> DEFINE n == Len(Append(ring, req[c].query))
      <4>1. n \in Nat /\ n >= 1 /\ RingCap \in Nat /\ RingCap >= 1
        BY StatsConstantsOK DEF StatsTyping
      <4>2. ring' = SubSeq(Append(ring, req[c].query),
                           IF n - RingCap > 0 THEN n - RingCap + 1 ELSE 1, n)
        BY <1>4, <3>3 DEF Answered, Emits
      <4>3. (IF n - RingCap > 0 THEN n - RingCap + 1 ELSE 1) \in 1 .. n
        BY <4>1
      <4> QED
        BY <4>2, <4>3
    <3>4. ASSUME req[c].query # None /\ req[c].empty
          PROVE  followed' = [followed EXCEPT !.emitted = @ + 1]
      BY <1>4, <3>4 DEF Answered, Emits
    <3>5. ASSUME ~ (req[c].query # None /\ req[c].empty)
          PROVE  UNCHANGED <<ring, followed>>
      BY <1>4, <3>5 DEF Answered, Emits
    <3> QED
      BY <3>1, <3>2, <3>3, <3>4, <3>5
  <2>3. buf' \in SUBSET Call /\ lost' \in SUBSET Call
    BY <1>4 DEF Answered, Records, StatsTyping
  <2>4. /\ UNCHANGED <<up, count, lastZero, req, prev, fl, row, table, torn, forgot>>
        /\ pc' = [pc EXCEPT ![c] = "done"]
    BY <1>4 DEF Answered, Goes
  <2> QED
    BY <2>2, <2>3, <2>4 DEF StatsTyping
<1>5. ASSUME NEW f \in Flusher, FlushStep(f) PROVE StatsTyping'
  <2>1. fl[f] \in Place
    BY DEF StatsTyping
  <2>2. /\ UNCHANGED <<up, count, lastZero, ring, followed, pc, req, prev, torn, forgot>>
        /\ buf' \in SUBSET Call
    BY <1>5 DEF FlushStep, FlushStarts, Loads, WritesRow, Drains, Inserts, StatsTyping
  <2>3. fl' \in [Flusher -> Place]
    BY <1>5, FlushMoves
  <2>4. row' \in [Field -> Nat] \cup {None}
    <3>1. fl[f].snap \in [Field -> Nat]
      BY <2>1 DEF Place
    <3>2. row' = row \/ row' = fl[f].snap
      BY <1>5 DEF FlushStep, FlushStarts, Loads, WritesRow, Drains, Inserts
    <3> QED
      BY <3>1, <3>2 DEF StatsTyping
  <2>5. table' \in [Call -> Nat]
    <3>1. \/ table' = table
          \/ table' = [c \in Call |-> IF c \in fl[f].batch THEN table[c] + 1 ELSE table[c]]
      BY <1>5 DEF FlushStep, FlushStarts, Loads, WritesRow, Drains, Inserts
    <3> QED
      BY <3>1 DEF StatsTyping
  <2>6. lost' \in SUBSET Call
    <3>1. fl[f].batch \in SUBSET Call
      BY <2>1 DEF Place
    <3>2. lost' = lost \/ lost' = lost \cup fl[f].batch
      BY <1>5 DEF FlushStep, FlushStarts, Loads, WritesRow, Drains, Inserts
    <3> QED
      BY <3>1, <3>2 DEF StatsTyping
  <2> QED
    BY <2>2, <2>3, <2>4, <2>5, <2>6 DEF StatsTyping
<1>6. CASE Ends
  <2>1. \A f \in Flusher : fl[f].batch \in SUBSET Call
    BY DEF StatsTyping, Place
  <2>2. NoFlush \in Place /\ Zero \in [Field -> Nat]
    BY DEF NoFlush, Zero, Place
  <2>3. /\ count' = Zero /\ ring' = <<>> /\ buf' = {} /\ up' = FALSE /\ lastZero' = None
        /\ followed' = [emitted |-> 0, taken |-> 0]
    BY <1>6 DEF Ends
  <2>4. lost' \in SUBSET Call
    BY <1>6, <2>1 DEF Ends, StatsTyping
  <2>5. pc' \in [Call -> {"idle", "query", "zero", "sort", "credit", "record", "done",
                          "dead"}]
    BY <1>6 DEF Ends, StatsTyping
  <2>6. fl' \in [Flusher -> Place] /\ prev' \in [Call -> Query \cup {None}]
    BY <1>6, <2>2 DEF Ends
  <2>7. UNCHANGED <<req, row, table, torn, forgot>>
    BY <1>6 DEF Ends
  <2>8. followed' \in [emitted : Nat, taken : Nat]
    BY <2>3
  <2>9. ring' \in Seq(Query)
    BY <2>3
  <2>10. /\ count' \in [Field -> Nat] /\ buf' \in SUBSET Call
         /\ up' \in BOOLEAN /\ lastZero' \in Query \cup {None}
    BY <2>2, <2>3
  <2> QED
    BY <2>4, <2>5, <2>6, <2>7, <2>8, <2>9, <2>10 DEF StatsTyping
<1>7. CASE Resumes
  <2>1. count' \in [Field -> Nat]
    BY <1>7 DEF Resumes, StatsTyping, Zero
  <2>2. up' \in BOOLEAN /\ torn' \in BOOLEAN /\ forgot' \in BOOLEAN
    BY <1>7 DEF Resumes, Balanced
  <2> QED
    BY <1>7, <2>1, <2>2 DEF Resumes, StatsTyping
<1>8. CASE UNCHANGED statsVars
  BY <1>8 DEF statsVars, StatsTyping
<1> QED
  BY <1>1, <1>2, <1>3, <1>4, <1>5, <1>6, <1>7, <1>8 DEF StatsNext, CallStep

-----------------------------------------------------------------------------
(* The small invariants.                                                   *)

\* Only Counted asks, and no other step brings a handler among its counters.
LEMMA OthersAsk ==
  ASSUME StatsTyping, [StatsNext]_statsVars, ~ \E c \in Call : Counted(c)
  PROVE  /\ req' = req
         /\ \A c \in Call :
               /\ pc'[c] = "idle" <=> pc[c] = "idle"
               /\ pc'[c] \in {"query", "zero", "sort", "credit"} =>
                    pc[c] \in {"query", "zero", "sort", "credit"}
<1> USE DEF memory, handlers, flushing, database, history
<1>1. ASSUME NEW c \in Call,
             Swaps(c) \/ Missed(c) \/ Sorted(c) \/ Credited(c) \/ Answered(c)
      PROVE  /\ req' = req
             /\ \E t \in {"zero", "credit", "sort", "record", "done"} :
                    pc' = [pc EXCEPT ![c] = t]
             /\ pc[c] \in {"query", "zero", "sort", "credit", "record"}
             /\ pc[c] = "record" => pc' = [pc EXCEPT ![c] = "done"]
  BY <1>1 DEF Swaps, Missed, Sorted, Credited, Answered, Goes
<1>2. ASSUME NEW f \in Flusher, FlushStep(f) PROVE req' = req /\ pc' = pc
  BY <1>2 DEF FlushStep, FlushStarts, Loads, WritesRow, Drains, Inserts
<1>3. ASSUME Ends
      PROVE  /\ req' = req
             /\ pc' = [c \in Call |-> IF pc[c] \in {"idle", "done"} THEN pc[c] ELSE "dead"]
  BY <1>3 DEF Ends
<1>4. ASSUME Resumes \/ UNCHANGED statsVars PROVE req' = req /\ pc' = pc
  BY <1>4 DEF Resumes, statsVars
<1>5. CASE \E c \in Call : Swaps(c) \/ Missed(c) \/ Sorted(c) \/ Credited(c) \/ Answered(c)
  BY <1>1, <1>5 DEF StatsTyping
<1>6. CASE \E f \in Flusher : FlushStep(f)
  BY <1>2, <1>6
<1>7. CASE Ends
  BY <1>3, <1>7 DEF StatsTyping
<1> QED
  BY <1>4, <1>5, <1>6, <1>7 DEF StatsNext, CallStep

\* Every step keeps what handlers were asked.
LEMMA RequestStep ==
  StatsTyping /\ RequestOK /\ [StatsNext]_statsVars => RequestOK'
<1> SUFFICES ASSUME StatsTyping, RequestOK, [StatsNext]_statsVars PROVE RequestOK'
  OBVIOUS
<1>1. ASSUME NEW c \in Call, Counted(c) PROVE RequestOK'
  <2>1. PICK r \in Request :
            /\ req' = [req EXCEPT ![c] = r]
            /\ pc' = [pc EXCEPT ![c] = IF r.query # None THEN "query" ELSE "record"]
    BY <1>1 DEF Counted, Goes
  <2> QED
    BY <2>1 DEF RequestOK, StatsTyping
<1>2. CASE ~ \E c \in Call : Counted(c)
  BY <1>2, OthersAsk DEF RequestOK
<1> QED
  BY <1>1, <1>2

\* Every step keeps a process that is gone empty.
LEMMA GoneStep == GoneOK /\ [StatsNext]_statsVars => GoneOK'
<1> SUFFICES ASSUME GoneOK, [StatsNext]_statsVars PROVE GoneOK'
  OBVIOUS
<1> USE DEF memory, handlers, flushing, database, history
<1>1. ASSUME NEW c \in Call, CallStep(c) PROVE up'
  BY <1>1 DEF CallStep, Counted, Swaps, Missed, Sorted, Credited, Answered, Goes
<1>2. ASSUME NEW f \in Flusher, FlushStep(f) PROVE up'
  BY <1>2 DEF FlushStep, FlushStarts, Loads, WritesRow, Drains, Inserts
<1>3. ASSUME Ends PROVE GoneOK'
  BY <1>3 DEF Ends, GoneOK
<1>4. ASSUME Resumes PROVE up'
  BY <1>4 DEF Resumes
<1>5. CASE UNCHANGED statsVars
  BY <1>5 DEF statsVars, GoneOK
<1> QED
  BY <1>1, <1>2, <1>3, <1>4, <1>5 DEF StatsNext, GoneOK

\* Steps that are no flush's leave the flushes alone, or end them all.
LEMMA OthersFlush ==
  ASSUME [StatsNext]_statsVars, ~ Ends, ~ \E f \in Flusher : FlushStep(f)
  PROVE  fl' = fl /\ row' = row /\ table' = table
<1> USE DEF memory, handlers, flushing, database, history
<1>1. ASSUME NEW c \in Call, CallStep(c) PROVE fl' = fl /\ row' = row /\ table' = table
  BY <1>1 DEF CallStep, Counted, Swaps, Missed, Sorted, Credited, Answered
<1>2. ASSUME Resumes \/ UNCHANGED statsVars PROVE fl' = fl /\ row' = row /\ table' = table
  BY <1>2 DEF Resumes, statsVars
<1> QED
  BY <1>1, <1>2 DEF StatsNext

\* Every step keeps batches to flushes that have drained the buffer.
LEMMA BatchStep == StatsTyping /\ BatchOK /\ [StatsNext]_statsVars => BatchOK'
<1> SUFFICES ASSUME StatsTyping, BatchOK, [StatsNext]_statsVars PROVE BatchOK'
  OBVIOUS
<1>1. ASSUME NEW f \in Flusher, FlushStep(f) PROVE BatchOK'
  <2>1. Shape(f) /\ \A g \in Flusher : g # f => fl'[g] = fl[g]
    BY <1>1, FlushMoves
  <2>2. fl'[f].at # 7 => fl'[f].batch = {}
    BY <2>1, Steps DEF Shape, Moved, BatchOK, NoFlush
  <2> QED
    BY <2>1, <2>2, Steps DEF BatchOK
<1>2. CASE ~ Ends /\ ~ \E f \in Flusher : FlushStep(f)
  <2>1. fl' = fl
    BY <1>2, OthersFlush
  <2> QED
    BY <2>1 DEF BatchOK
<1>3. CASE Ends
  <2>1. \A f \in Flusher : fl'[f].batch = {}
    BY <1>3 DEF Ends, NoFlush, flushing
  <2> QED
    BY <2>1 DEF BatchOK
<1> QED
  BY <1>1, <1>2, <1>3

\* Every step keeps suggestions from being taken twice.
LEMMA RingStep == StatsTyping /\ RequestOK /\ RingOK /\ [StatsNext]_statsVars => RingOK'
<1> SUFFICES ASSUME StatsTyping, RequestOK, RingOK, [StatsNext]_statsVars PROVE RingOK'
  OBVIOUS
<1> USE DEF memory, handlers, flushing, database, history
<1>1. CASE UNCHANGED <<ring, followed>>
  BY <1>1 DEF RingOK
<1>2. ASSUME NEW c \in Call, Swaps(c), ~ UNCHANGED <<ring, followed>> PROVE RingOK'
  <2>1. PICK i \in DOMAIN ring : ring' = Drop(ring, i)
            /\ followed' = [followed EXCEPT !.taken = @ + 1]
    BY <1>2 DEF Swaps, Consumes
  <2>2. ring \in Seq(Query) /\ followed \in [emitted : Nat, taken : Nat]
    BY DEF StatsTyping
  <2>3. Len(ring') = Len(ring) - 1 /\ Len(ring) \in Nat
    BY <2>1, <2>2, DropType
  <2>4. followed'.taken = followed.taken + 1 /\ followed'.emitted = followed.emitted
    BY <2>1, <2>2
  <2> QED
    BY <2>2, <2>3, <2>4 DEF RingOK
<1>3. ASSUME NEW c \in Call, Answered(c), ~ UNCHANGED <<ring, followed>> PROVE RingOK'
  <2> DEFINE longer == Append(ring, req[c].query)
  <2> DEFINE over == Len(longer) - RingCap
  <2>1. /\ req[c].query # None
        /\ ring' = SubSeq(longer, IF over > 0 THEN over + 1 ELSE 1, Len(longer))
        /\ followed' = [followed EXCEPT !.emitted = @ + 1]
    BY <1>3 DEF Answered, Emits
  <2>2. ring \in Seq(Query) /\ followed \in [emitted : Nat, taken : Nat]
    BY DEF StatsTyping
  <2>3. req[c].query \in Query
    BY <1>3, <2>1, StatsConstantsOK DEF Answered, Goes, RequestOK
  <2>4. longer \in Seq(Query) /\ Len(longer) = Len(ring) + 1 /\ Len(ring) \in Nat
    BY <2>2, <2>3
  <2>5. Len(ring') <= Len(longer) /\ Len(ring') \in Nat
    <3> HIDE DEF longer
    <3>1. RingCap \in Nat /\ RingCap >= 1
      BY StatsConstantsOK
    <3>2. CASE over > 0
      BY <2>1, <2>4, <3>1, <3>2
    <3>3. CASE ~ over > 0
      BY <2>1, <2>4, <3>1, <3>3
    <3> QED
      BY <3>2, <3>3
  <2>6. followed'.emitted = followed.emitted + 1 /\ followed'.taken = followed.taken
    BY <2>1, <2>2
  <2> QED
    BY <2>2, <2>4, <2>5, <2>6 DEF RingOK
<1>4. ASSUME NEW c \in Call, Counted(c) \/ Missed(c) \/ Sorted(c) \/ Credited(c)
      PROVE  UNCHANGED <<ring, followed>>
  BY <1>4 DEF Counted, Missed, Sorted, Credited
<1>5. ASSUME NEW f \in Flusher, FlushStep(f) PROVE UNCHANGED <<ring, followed>>
  BY <1>5 DEF FlushStep, FlushStarts, Loads, WritesRow, Drains, Inserts
<1>6. ASSUME Ends PROVE RingOK'
  <2>1. ring' = <<>> /\ followed' = [emitted |-> 0, taken |-> 0]
    BY <1>6 DEF Ends
  <2>2. Len(ring') = 0 /\ followed'.taken = 0 /\ followed'.emitted = 0
    BY <2>1
  <2> QED
    BY <2>2 DEF RingOK
<1>7. ASSUME Resumes \/ UNCHANGED statsVars PROVE UNCHANGED <<ring, followed>>
  BY <1>7 DEF Resumes, statsVars
<1> QED
  BY <1>1, <1>2, <1>3, <1>4, <1>5, <1>6, <1>7 DEF StatsNext, CallStep

-----------------------------------------------------------------------------
(* The row never runs ahead.                                               *)

\* A process' counters only grow.
LEMMA CountGrows ==
  ASSUME StatsTyping, GoneOK, [StatsNext]_statsVars, ~ Ends
  PROVE  /\ \A x \in Field : count[x] <= count'[x]
         /\ up \/ count = Zero
<1> USE DEF memory, handlers, flushing, database, history
<1>1. ASSUME NEW c \in Call, CallStep(c)
      PROVE  count' = count \/ \E x \in Field : count' = [count EXCEPT ![x] = @ + 1]
  BY <1>1 DEF CallStep, Counted, Swaps, Missed, Sorted, Credited, Answered, Adds, Field
<1>2. ASSUME NEW f \in Flusher, FlushStep(f) PROVE count' = count
  BY <1>2 DEF FlushStep, FlushStarts, Loads, WritesRow, Drains, Inserts
<1>3. count \in [Field -> Nat]
  BY DEF StatsTyping
<1>4. CASE Resumes
  <2>1. \A x \in Field : count[x] = 0
    BY <1>4 DEF Resumes, GoneOK, Zero
  <2>2. count' \in [Field -> Nat]
    BY <1>3, <1>4 DEF Resumes, StatsTyping, Zero
  <2> QED
    BY <2>1, <2>2 DEF GoneOK
<1>5. CASE UNCHANGED statsVars
  BY <1>3, <1>5 DEF statsVars, GoneOK
<1>6. CASE \E c \in Call : CallStep(c)
  BY <1>1, <1>3, <1>6 DEF GoneOK
<1>7. CASE \E f \in Flusher : FlushStep(f)
  BY <1>2, <1>3, <1>7 DEF GoneOK
<1> QED
  BY <1>4, <1>5, <1>6, <1>7 DEF StatsNext

\* What a flush has loaded, and the row, stay behind the counters.
LEMMA SnapStep ==
  StatsTyping /\ StatsTyping' /\ GoneOK /\ SnapOK /\ [StatsNext]_statsVars => SnapOK'
<1> SUFFICES ASSUME StatsTyping, StatsTyping', GoneOK, SnapOK, [StatsNext]_statsVars
             PROVE  SnapOK'
  OBVIOUS
<1> USE DEF memory, handlers, flushing, database, history
<1>1. count \in [Field -> Nat] /\ \A f \in Flusher : fl[f].snap \in [Field -> Nat]
  BY DEF StatsTyping, Place
<1>2. ASSUME NEW f \in Flusher, FlushStep(f) PROVE SnapOK'
  <2>1. Shape(f) /\ \A g \in Flusher : g # f => fl'[g] = fl[g]
    BY <1>2, FlushMoves
  <2>2. count' = count /\ up' = up /\ forgot' = forgot /\ (row' = row \/ row' = fl[f].snap)
    BY <1>2 DEF FlushStep, FlushStarts, Loads, WritesRow, Drains, Inserts
  <2>3. \A x \in Field : fl[f].snap[x] <= count[x] /\ fl[f].snap[x] \in Nat /\ count[x] \in Nat
    BY <1>1 DEF SnapOK
  <2>4. ASSUME NEW x \in Field PROVE fl'[f].snap[x] <= count[x]
    <3>1. CASE fl'[f].snap = Zero \/ fl'[f].snap = fl[f].snap
      BY <2>3, <3>1 DEF Zero
    <3>2. CASE \E y \in Field : fl'[f].snap = [fl[f].snap EXCEPT ![y] = count[y]]
      BY <1>1, <2>3, <3>2
    <3>3. \/ fl'[f].snap = Zero \/ fl'[f].snap = fl[f].snap
          \/ \E i \in 1 .. 4 :
                fl'[f].snap = [fl[f].snap EXCEPT ![LoadOrder[i]] = count[LoadOrder[i]]]
      <4>1. NoFlush.snap = Zero
        BY DEF NoFlush
      <4> QED
        BY <2>1, <4>1 DEF Shape, Moved
    <3> QED
      BY <3>1, <3>2, <3>3, Steps
  <2> QED
    BY <2>1, <2>2, <2>3, <2>4 DEF SnapOK
<1>3. ASSUME ~ Ends, ~ \E f \in Flusher : FlushStep(f) PROVE SnapOK'
  <2>1. fl' = fl /\ row' = row /\ \A x \in Field : count[x] <= count'[x]
    BY <1>3, OthersFlush, CountGrows
  <2>2. \A f \in Flusher, x \in Field : fl'[f].snap[x] <= count'[x]
    <3>1. count' \in [Field -> Nat]
      BY DEF StatsTyping
    <3> QED
      BY <1>1, <2>1, <3>1 DEF SnapOK
  <2>3. CASE Resumes
    <3>1. row # None /\ ~ forgot' => count' = row
      BY <2>3 DEF Resumes
    <3>2. row # None => row \in [Field -> Nat]
      BY DEF StatsTyping
    <3> QED
      BY <2>1, <2>2, <3>1, <3>2 DEF SnapOK
  <2>4. CASE ~ Resumes
    <3>1. up' = up /\ forgot' = forgot
      <4>1. ASSUME NEW c \in Call, CallStep(c) PROVE up' = up /\ forgot' = forgot
        BY <4>1 DEF CallStep, Counted, Swaps, Missed, Sorted, Credited, Answered
      <4> QED
        BY <1>3, <2>4, <4>1 DEF StatsNext, statsVars
    <3>2. row # None => row \in [Field -> Nat]
      BY DEF StatsTyping
    <3>3. up /\ row # None /\ ~ forgot => \A x \in Field : row[x] <= count'[x]
      <4>1. count' \in [Field -> Nat]
        BY DEF StatsTyping
      <4> QED
        BY <1>1, <2>1, <3>2, <4>1 DEF SnapOK
    <3> QED
      BY <2>1, <2>2, <3>1, <3>3 DEF SnapOK
  <2> QED
    BY <2>3, <2>4
<1>4. CASE Ends
  <2>1. ~ up' /\ count' = Zero /\ fl' = [f \in Flusher |-> NoFlush]
    BY <1>4 DEF Ends
  <2> QED
    BY <2>1 DEF SnapOK, NoFlush, Zero
<1> QED
  BY <1>2, <1>3, <1>4

-----------------------------------------------------------------------------
(* The counters agree.                                                     *)

\* One handler goes on: how many are at some steps, and may be credited.
LEMMA AtMoves ==
  ASSUME StatsTyping, NEW c \in Call, NEW s, pc' = [pc EXCEPT ![c] = s], NEW steps
  PROVE  /\ Cardinality(At(steps)') + One(pc[c] \in steps)
                = Cardinality(At(steps)) + One(s \in steps)
         /\ Cardinality(At(steps)) \in Nat /\ Cardinality(At(steps)') \in Nat
<1>1. At(steps) \in SUBSET Call /\ At(steps)' \in SUBSET Call
  BY DEF At
<1>2. \A d \in Call : d # c => (d \in At(steps) <=> d \in At(steps)')
  BY DEF At, StatsTyping
<1>3. (c \in At(steps) <=> pc[c] \in steps) /\ (c \in At(steps)' <=> s \in steps)
  BY DEF At, StatsTyping
<1>4. One(c \in At(steps)) = One(pc[c] \in steps) /\ One(c \in At(steps)') = One(s \in steps)
  BY <1>3 DEF One
<1> QED
  BY <1>1, <1>2, <1>4, OneMoves, CallFinite

\* And how many may be credited.
LEMMA CreditMoves ==
  ASSUME StatsTyping, NEW c \in Call, NEW s, pc' = [pc EXCEPT ![c] = s],
         \A d \in Call : d # c => prev'[d] = prev[d]
  PROVE  /\ Cardinality(Creditable') + One(pc[c] = "credit" /\ prev[c] # None)
                = Cardinality(Creditable) + One(s = "credit" /\ prev'[c] # None)
         /\ Cardinality(Creditable) \in Nat /\ Cardinality(Creditable') \in Nat
<1>1. Creditable \in SUBSET Call /\ Creditable' \in SUBSET Call
  BY DEF Creditable
<1>2. \A d \in Call : d # c => (d \in Creditable <=> d \in Creditable')
  BY DEF Creditable, StatsTyping
<1>3. /\ c \in Creditable <=> pc[c] = "credit" /\ prev[c] # None
      /\ c \in Creditable' <=> s = "credit" /\ prev'[c] # None
  BY DEF Creditable, StatsTyping
<1>4. /\ One(c \in Creditable) = One(pc[c] = "credit" /\ prev[c] # None)
      /\ One(c \in Creditable') = One(s = "credit" /\ prev'[c] # None)
  BY <1>3 DEF One
<1> QED
  BY <1>1, <1>2, <1>4, OneMoves, CallFinite

\* When no handler is under way there is nothing to wait for.
LEMMA NobodyCounts ==
  ASSUME \A c \in Call : pc[c] \in {"idle", "record", "done", "dead"}
  PROVE  /\ Cardinality(At({"sort"})) = 0 /\ Cardinality(At({"zero"})) = 0
         /\ Cardinality(At({"query", "zero", "credit"})) = 0
         /\ Cardinality(Creditable) = 0
<1>1. /\ At({"sort"}) = {} /\ At({"zero"}) = {} /\ At({"query", "zero", "credit"}) = {}
      /\ Creditable = {}
  BY DEF At, Creditable
<1> QED
  BY <1>1, FS_EmptySet

\* Every step of a handler keeps the counters in agreement.
LEMMA CountStep ==
  /\ StatsTyping /\ StatsTyping' /\ RequestOK /\ GoneOK /\ CountOK
  /\ [StatsNext]_statsVars
  => CountOK'
<1> SUFFICES ASSUME StatsTyping, StatsTyping', RequestOK, GoneOK, CountOK,
                    [StatsNext]_statsVars
             PROVE  CountOK'
  OBVIOUS
<1> USE DEF memory, handlers, flushing, database, history
<1> DEFINE zero == {"zero"}  sort == {"sort"}  asked == {"query", "zero", "credit"}
<1>1. /\ count["zero"] \in Nat /\ count["sorted"] \in Nat
      /\ count["retried"] \in Nat /\ count["calls"] \in Nat
  BY DEF StatsTyping, Field
<1>2. CASE torn'
  BY <1>2 DEF CountOK
<1>3. ASSUME ~ torn', NEW c \in Call, CallStep(c) PROVE CountOK'
  <2>1. ~ torn
    BY <1>3 DEF CallStep, Counted, Swaps, Missed, Sorted, Credited, Answered
  <2>2. /\ count["zero"] = count["sorted"] + Cardinality(At(sort))
        /\ count["retried"] + Cardinality(Creditable) + Waiting
              <= count["zero"] + Cardinality(At(zero))
        /\ count["zero"] + count["retried"] + Cardinality(At(asked)) <= count["calls"]
    BY <2>1 DEF CountOK
  <2>3. PICK s : pc' = [pc EXCEPT ![c] = s]
    BY <1>3 DEF CallStep, Counted, Swaps, Missed, Sorted, Credited, Answered, Goes
  <2>4. pc'[c] = s
    BY <2>3 DEF StatsTyping
  <2>5. \A d \in Call : d # c => prev'[d] = prev[d]
    BY <1>3 DEF CallStep, Counted, Swaps, Missed, Sorted, Credited, Answered, StatsTyping
  <2>6. /\ Cardinality(At(zero)') + One(pc[c] \in zero)
              = Cardinality(At(zero)) + One(s \in zero)
        /\ Cardinality(At(zero)) \in Nat /\ Cardinality(At(zero)') \in Nat
    BY <2>3, AtMoves
  <2>7. /\ Cardinality(At(sort)') + One(pc[c] \in sort)
              = Cardinality(At(sort)) + One(s \in sort)
        /\ Cardinality(At(sort)) \in Nat /\ Cardinality(At(sort)') \in Nat
    BY <2>3, AtMoves
  <2>8. /\ Cardinality(At(asked)') + One(pc[c] \in asked)
              = Cardinality(At(asked)) + One(s \in asked)
        /\ Cardinality(At(asked)) \in Nat /\ Cardinality(At(asked)') \in Nat
    BY <2>3, AtMoves
  <2>9. /\ Cardinality(Creditable') + One(pc[c] = "credit" /\ prev[c] # None)
              = Cardinality(Creditable) + One(s = "credit" /\ prev'[c] # None)
        /\ Cardinality(Creditable) \in Nat /\ Cardinality(Creditable') \in Nat
    BY <2>3, <2>5, CreditMoves
  <2>10. Waiting \in {0, 1} /\ Waiting' \in {0, 1}
    BY DEF Waiting
  <2> DEFINE Agree ==
        /\ count'["zero"] = count'["sorted"] + Cardinality(At(sort)')
        /\ count'["retried"] + Cardinality(Creditable') + Waiting'
              <= count'["zero"] + Cardinality(At(zero)')
        /\ count'["zero"] + count'["retried"] + Cardinality(At(asked)') <= count'["calls"]
  <2>17. Agree => CountOK'
    BY DEF CountOK
  <2> HIDE DEF zero, sort, asked
  <2>11. CASE Counted(c)
    <3>1. /\ pc[c] = "idle" /\ s \in {"query", "record"} /\ Waiting' = Waiting
          /\ count' = [count EXCEPT !["calls"] = @ + 1]
      BY <2>4, <2>11 DEF Counted, Goes, Adds, Waiting, StatsTyping
    <3>2. /\ count'["calls"] = count["calls"] + 1 /\ count'["zero"] = count["zero"]
          /\ count'["retried"] = count["retried"] /\ count'["sorted"] = count["sorted"]
      BY <3>1 DEF StatsTyping, Field
    <3>3. /\ One(pc[c] \in zero) = 0 /\ One(s \in zero) = 0
          /\ One(pc[c] \in sort) = 0 /\ One(s \in sort) = 0
          /\ One(pc[c] \in asked) = 0 /\ One(s \in asked) \in {0, 1}
          /\ One(pc[c] = "credit" /\ prev[c] # None) = 0
          /\ One(s = "credit" /\ prev'[c] # None) = 0
      BY <3>1 DEF One, zero, sort, asked
    <3>4. Agree
      BY <1>1, <2>2, <2>6, <2>7, <2>8, <2>9, <2>10, <3>1, <3>2, <3>3
    <3> QED
      BY <2>17, <3>4
  <2>12. CASE Swaps(c)
    <3>1. /\ pc[c] = "query" /\ count' = count
          /\ \/ s = "zero"
             \/ s = "credit" /\ prev'[c] = lastZero /\ lastZero' = None
      BY <2>4, <2>12 DEF Swaps, Goes, StatsTyping
    <3>2. /\ One(pc[c] \in zero) = 0 /\ One(pc[c] \in sort) = 0 /\ One(s \in sort) = 0
          /\ One(pc[c] \in asked) = 1 /\ One(s \in asked) = 1
          /\ One(pc[c] = "credit" /\ prev[c] # None) = 0
      BY <3>1 DEF One, zero, sort, asked
    <3>3. \/ One(s \in zero) = 1 /\ One(s = "credit" /\ prev'[c] # None) = 0
          \/ /\ One(s \in zero) = 0 /\ Waiting' = 0
             /\ One(s = "credit" /\ prev'[c] # None) = Waiting
      BY <3>1 DEF One, Waiting, zero
    <3>4. Agree
      BY <1>1, <2>2, <2>6, <2>7, <2>8, <2>9, <2>10, <3>1, <3>2, <3>3
    <3> QED
      BY <2>17, <3>4
  <2>13. CASE Missed(c)
    <3>1. /\ pc[c] = "zero" /\ s = "sort" /\ Waiting' = Waiting
          /\ count' = [count EXCEPT !["zero"] = @ + 1]
      BY <2>4, <2>13 DEF Missed, Goes, Adds, Waiting, StatsTyping
    <3>2. /\ count'["calls"] = count["calls"] /\ count'["zero"] = count["zero"] + 1
          /\ count'["retried"] = count["retried"] /\ count'["sorted"] = count["sorted"]
      BY <3>1 DEF StatsTyping, Field
    <3>3. /\ One(pc[c] \in zero) = 1 /\ One(s \in zero) = 0
          /\ One(pc[c] \in sort) = 0 /\ One(s \in sort) = 1
          /\ One(pc[c] \in asked) = 1 /\ One(s \in asked) = 0
          /\ One(pc[c] = "credit" /\ prev[c] # None) = 0
          /\ One(s = "credit" /\ prev'[c] # None) = 0
      BY <3>1 DEF One, zero, sort, asked
    <3>4. Agree
      BY <1>1, <2>2, <2>6, <2>7, <2>8, <2>9, <2>10, <3>1, <3>2, <3>3
    <3> QED
      BY <2>17, <3>4
  <2>14. CASE Sorted(c)
    <3>1. /\ pc[c] = "sort" /\ s = "record" /\ Waiting' = Waiting
          /\ count' = [count EXCEPT !["sorted"] = @ + 1]
      BY <2>4, <2>14 DEF Sorted, Goes, Adds, Waiting, StatsTyping
    <3>2. /\ count'["calls"] = count["calls"] /\ count'["zero"] = count["zero"]
          /\ count'["retried"] = count["retried"] /\ count'["sorted"] = count["sorted"] + 1
      BY <3>1 DEF StatsTyping, Field
    <3>3. /\ One(pc[c] \in zero) = 0 /\ One(s \in zero) = 0
          /\ One(pc[c] \in sort) = 1 /\ One(s \in sort) = 0
          /\ One(pc[c] \in asked) = 0 /\ One(s \in asked) = 0
          /\ One(pc[c] = "credit" /\ prev[c] # None) = 0
          /\ One(s = "credit" /\ prev'[c] # None) = 0
      BY <3>1 DEF One, zero, sort, asked
    <3>4. Agree
      BY <1>1, <2>2, <2>6, <2>7, <2>8, <2>9, <2>10, <3>1, <3>2, <3>3
    <3> QED
      BY <2>17, <3>4
  <2>15. CASE Credited(c)
    <3>1. /\ pc[c] = "credit" /\ s = "record" /\ Waiting' = Waiting
          /\ req[c].query # None
          /\ IF prev[c] = req[c].query THEN count' = [count EXCEPT !["retried"] = @ + 1]
             ELSE count' = count
      BY <2>4, <2>15 DEF Credited, Goes, Adds, Waiting, StatsTyping, RequestOK
    <3>2. /\ count'["calls"] = count["calls"] /\ count'["zero"] = count["zero"]
          /\ count'["sorted"] = count["sorted"]
          /\ \/ count'["retried"] = count["retried"]
             \/ count'["retried"] = count["retried"] + 1 /\ prev[c] # None
      BY <3>1 DEF StatsTyping, Field
    <3>3. /\ One(pc[c] \in zero) = 0 /\ One(s \in zero) = 0
          /\ One(pc[c] \in sort) = 0 /\ One(s \in sort) = 0
          /\ One(pc[c] \in asked) = 1 /\ One(s \in asked) = 0
          /\ One(pc[c] = "credit" /\ prev[c] # None) = IF prev[c] # None THEN 1 ELSE 0
          /\ One(s = "credit" /\ prev'[c] # None) = 0
      BY <3>1 DEF One, zero, sort, asked
    <3>4. Agree
      BY <1>1, <2>2, <2>6, <2>7, <2>8, <2>9, <2>10, <3>1, <3>2, <3>3
    <3> QED
      BY <2>17, <3>4
  <2>16. CASE Answered(c)
    <3>1. pc[c] = "record" /\ s = "done" /\ Waiting' = Waiting /\ count' = count
      BY <2>4, <2>16 DEF Answered, Goes, Waiting, StatsTyping
    <3>2. /\ One(pc[c] \in zero) = 0 /\ One(s \in zero) = 0
          /\ One(pc[c] \in sort) = 0 /\ One(s \in sort) = 0
          /\ One(pc[c] \in asked) = 0 /\ One(s \in asked) = 0
          /\ One(pc[c] = "credit" /\ prev[c] # None) = 0
          /\ One(s = "credit" /\ prev'[c] # None) = 0
      BY <3>1 DEF One, zero, sort, asked
    <3>3. Agree
      BY <1>1, <2>2, <2>6, <2>7, <2>8, <2>9, <2>10, <3>1, <3>2
    <3> QED
      BY <2>17, <3>3
  <2> QED
    BY <1>3, <2>11, <2>12, <2>13, <2>14, <2>15, <2>16 DEF CallStep
<1>4. ASSUME NEW f \in Flusher, FlushStep(f) PROVE CountOK'
  <2>1. UNCHANGED <<count, pc, prev, lastZero, torn>>
    BY <1>4 DEF FlushStep, FlushStarts, Loads, WritesRow, Drains, Inserts
  <2> QED
    BY <2>1 DEF CountOK, At, Creditable, Waiting
<1>8. ASSUME At({"sort"})' = {}, At({"zero"})' = {},
             At({"query", "zero", "credit"})' = {}, Creditable' = {}, Waiting' = 0,
             torn' \/ Balanced(count')
      PROVE  CountOK'
  <2>1. Cardinality({}) = 0
    BY FS_EmptySet
  <2>2. /\ count'["zero"] \in Nat /\ count'["sorted"] \in Nat
        /\ count'["retried"] \in Nat /\ count'["calls"] \in Nat
    BY DEF StatsTyping, Field
  <2>3. /\ Cardinality(At({"sort"})') = 0 /\ Cardinality(At({"zero"})') = 0
        /\ Cardinality(At({"query", "zero", "credit"})') = 0
        /\ Cardinality(Creditable') = 0
    BY <1>8, <2>1
  <2>4. CASE torn'
    BY <2>4 DEF CountOK
  <2>5. CASE Balanced(count')
    <3>1. /\ count'["zero"] = count'["sorted"] /\ count'["retried"] <= count'["zero"]
          /\ count'["zero"] + count'["retried"] <= count'["calls"]
      BY <2>5 DEF Balanced
    <3>2. /\ count'["zero"] = count'["sorted"] + Cardinality(At({"sort"})')
          /\ count'["retried"] + Cardinality(Creditable') + Waiting'
                <= count'["zero"] + Cardinality(At({"zero"})')
          /\ count'["zero"] + count'["retried"]
               + Cardinality(At({"query", "zero", "credit"})') <= count'["calls"]
      BY <1>8, <2>2, <2>3, <3>1
    <3> QED
      BY <3>2 DEF CountOK
  <2> QED
    BY <1>8, <2>4, <2>5
<1>5. CASE Ends
  <2>1. \A c \in Call : pc'[c] \in {"idle", "done", "dead"}
    BY <1>5 DEF Ends
  <2>2. count' = Zero /\ Waiting' = 0
    BY <1>5 DEF Ends, Waiting
  <2>3. /\ At({"sort"})' = {} /\ At({"zero"})' = {}
        /\ At({"query", "zero", "credit"})' = {} /\ Creditable' = {}
    BY <2>1 DEF At, Creditable
  <2>4. Balanced(count')
    BY <2>2 DEF Balanced, Zero, Field
  <2> QED
    BY <2>2, <2>3, <2>4, <1>8
<1>6. CASE Resumes
  <2>1. \A c \in Call : pc'[c] \in {"idle", "done", "dead"}
    BY <1>6 DEF Resumes, GoneOK
  <2>2. Waiting' = 0
    BY <1>6 DEF Resumes, GoneOK, Waiting
  <2>3. /\ At({"sort"})' = {} /\ At({"zero"})' = {}
        /\ At({"query", "zero", "credit"})' = {} /\ Creditable' = {}
    BY <2>1 DEF At, Creditable
  <2>4. torn' \/ Balanced(count')
    <3>1. Balanced(Zero)
      BY DEF Balanced, Zero, Field
    <3>2. torn' = ~ Balanced(count') \/ count' = Zero
      BY <1>6 DEF Resumes, GoneOK
    <3> QED
      BY <3>1, <3>2
  <2> QED
    BY <2>2, <2>3, <2>4, <1>8
<1>7. CASE UNCHANGED statsVars
  BY <1>7 DEF statsVars, CountOK, At, Creditable, Waiting
<1> QED
  BY <1>2, <1>3, <1>4, <1>5, <1>6, <1>7 DEF StatsNext

-----------------------------------------------------------------------------
(* The events.                                                             *)

\* Where an event is, seen from one flush and the other.
LEMMA PlacesSeen ==
  ASSUME StatsTyping, NEW f \in Flusher, NEW g \in Flusher, f # g, NEW d \in Call
  PROVE  Places(d) = One(d \in fl[f].batch) + One(d \in fl[g].batch) + table[d]
                     + One(d \in buf) + One(d \in lost)
<1>1. table[d] \in Nat
  BY DEF StatsTyping
<1>2. \/ f = "ticker" /\ g = "call"
      \/ f = "call" /\ g = "ticker"
  BY DEF Flusher
<1> QED
  BY <1>1, <1>2 DEF Places, One

\* A flush takes what is in the buffer, and stores it or drops it.
LEMMA EventFlushStep ==
  ASSUME StatsTyping, StatsTyping', BatchOK, EventOK, NEW f \in Flusher, FlushStep(f)
  PROVE  EventOK'
<1> USE DEF memory, handlers, flushing, database, history
<1>1. PICK g \in Flusher : g # f
  BY DEF Flusher
<1>2. Shape(f) /\ fl'[g] = fl[g]
  BY <1>1, FlushMoves
<1>3. pc' = pc /\ req' = req /\ fl[f] \in Place /\ buf \in SUBSET Call
  BY DEF FlushStep, FlushStarts, Loads, WritesRow, Drains, Inserts, StatsTyping
<1>4. Cardinality(buf') <= EventCap
  <2>1. buf' = buf \/ buf' = {}
    BY DEF FlushStep, FlushStarts, Loads, WritesRow, Drains, Inserts
  <2>2. Cardinality({}) = 0 /\ EventCap \in Nat
    BY FS_EmptySet, StatsConstantsOK
  <2> QED
    BY <2>1, <2>2 DEF EventOK
<1>5. ASSUME NEW d \in Call PROVE Places(d)' = Places(d)
  <2>1. Places(d) = One(d \in fl[f].batch) + One(d \in fl[g].batch) + table[d]
                    + One(d \in buf) + One(d \in lost)
    BY <1>1, PlacesSeen
  <2>2. Places(d)' = One(d \in fl'[f].batch) + One(d \in fl'[g].batch) + table'[d]
                     + One(d \in buf') + One(d \in lost')
    <3>1. table'[d] \in Nat
      BY DEF StatsTyping
    <3>2. \/ f = "ticker" /\ g = "call"
          \/ f = "call" /\ g = "ticker"
      BY <1>1 DEF Flusher
    <3> QED
      BY <3>1, <3>2 DEF Places, One
  <2>3. table[d] \in Nat
    BY DEF StatsTyping
  <2>4. One(d \in {}) = 0
    BY DEF One
  <2>5. /\ One(d \in fl[f].batch) \in {0, 1} /\ One(d \in fl[g].batch) \in {0, 1}
        /\ One(d \in buf) \in {0, 1} /\ One(d \in lost) \in {0, 1}
    BY DEF One
  <2>6. Places(d) <= 1
    BY DEF EventOK, One
  <2>7. CASE FlushStarts(f) \/ Loads(f) \/ WritesRow(f)
    <3>1. buf' = buf /\ table' = table /\ lost' = lost
      BY <2>7 DEF FlushStarts, Loads, WritesRow
    <3>2. fl[f].at # 6 /\ fl[f].at # 7
      BY <2>7, Steps DEF FlushStarts, Loads, Loading, WritesRow, NoFlush
    <3>3. fl'[f].batch = fl[f].batch
      BY <1>2, <3>2 DEF Shape, Moved, NoFlush
    <3> QED
      BY <1>2, <2>1, <2>2, <3>1, <3>3
  <2>8. CASE Drains(f)
    <3>1. buf' = {} /\ table' = table /\ lost' = lost /\ fl[f].at = 6
      BY <2>8, Steps DEF Drains
    <3>2. fl[f].batch = {}
      BY <3>1, Steps DEF BatchOK
    <3>3. fl'[f].batch = buf
      BY <1>2, <3>1 DEF Shape, Moved, NoFlush
    <3> QED
      BY <1>2, <2>1, <2>2, <2>3, <2>4, <2>5, <3>1, <3>2, <3>3
  <2>9. CASE Inserts(f)
    <3>1. buf' = buf /\ fl[f].at = 7
      BY <2>9, Steps DEF Inserts
    <3>2. fl'[f].batch = {}
      BY <1>2, <3>1 DEF Shape, Moved, NoFlush
    <3>3. CASE /\ table' = [c \in Call |->
                                IF c \in fl[f].batch THEN table[c] + 1 ELSE table[c]]
               /\ lost' = lost
      <4>1. table'[d] = table[d] + One(d \in fl[f].batch)
        BY <2>3, <3>3 DEF One
      <4> QED
        BY <1>2, <2>1, <2>2, <2>3, <2>4, <2>5, <3>1, <3>2, <3>3, <4>1
    <3>4. CASE lost' = lost \cup fl[f].batch /\ table' = table
      <4>1. One(d \in lost') = One(d \in lost) + One(d \in fl[f].batch)
        <5>1. CASE d \in lost
          <6>1. One(d \in lost) = 1 /\ One(d \in lost') = 1
            BY <3>4, <5>1 DEF One
          <6>2. One(d \in fl[f].batch) = 0
            BY <2>1, <2>3, <2>5, <2>6, <6>1
          <6> QED
            BY <6>1, <6>2
        <5>2. CASE d \notin lost
          BY <3>4, <5>2 DEF One
        <5> QED
          BY <5>1, <5>2
      <4> QED
        BY <1>2, <2>1, <2>2, <2>3, <2>4, <2>5, <3>1, <3>2, <3>4, <4>1
    <3> QED
      BY <2>9, <3>3, <3>4 DEF Inserts
  <2> QED
    BY <2>7, <2>8, <2>9 DEF FlushStep
<1> QED
  BY <1>3, <1>4, <1>5 DEF EventOK

\* Every step keeps each event in its one place.
LEMMA EventStep ==
  /\ StatsTyping /\ StatsTyping' /\ BatchOK /\ EventOK /\ [StatsNext]_statsVars
  => EventOK'
<1> SUFFICES ASSUME StatsTyping, StatsTyping', BatchOK, EventOK, [StatsNext]_statsVars
             PROVE  EventOK'
  OBVIOUS
<1> USE DEF memory, handlers, flushing, database, history
<1>1. Cardinality(buf) <= EventCap /\ IsFiniteSet(buf) /\ Cardinality(buf) \in Nat
      /\ EventCap \in Nat
  BY CallFinite, StatsConstantsOK DEF EventOK, StatsTyping
<1>2. ASSUME NEW c \in Call, CallStep(c), ~ Answered(c) PROVE EventOK'
  <2>1. UNCHANGED <<fl, table, buf, lost>>
    BY <1>2 DEF CallStep, Counted, Swaps, Missed, Sorted, Credited
  <2>2. /\ \E s : s # "done" /\ pc' = [pc EXCEPT ![c] = s]
        /\ pc[c] # "done"
        /\ \A d \in Call : d # c => req'[d] = req[d]
    BY <1>2 DEF CallStep, Counted, Swaps, Missed, Sorted, Credited, Goes, StatsTyping
  <2>3. \A d \in Call : /\ Places(d)' = Places(d)
                        /\ pc'[d] = "done" <=> pc[d] = "done"
                        /\ pc[d] = "done" => req'[d] = req[d]
    BY <2>1, <2>2 DEF Places, StatsTyping
  <2>4. \A d \in Call : One(pc'[d] = "done" /\ req'[d].event)
                           = One(pc[d] = "done" /\ req[d].event)
    BY <2>3 DEF One
  <2> QED
    BY <2>1, <2>3, <2>4 DEF EventOK
<1>3. ASSUME NEW c \in Call, Answered(c) PROVE EventOK'
  <2>1. /\ UNCHANGED <<fl, table, req>> /\ pc[c] = "record"
        /\ pc'[c] = "done" /\ \A d \in Call : d # c => pc'[d] = pc[d]
    BY <1>3 DEF Answered, Goes, StatsTyping
  <2>2. Places(c) = 0
    BY <2>1 DEF EventOK, One
  <2>3. /\ c \notin buf /\ c \notin lost
    BY SMTT(60), <2>2 DEF Places, One, StatsTyping
  <2>4. \/ ~ req[c].event /\ buf' = buf /\ lost' = lost
        \/ req[c].event /\ buf' = buf /\ lost' = lost \cup {c}
        \/ req[c].event /\ Cardinality(buf) < EventCap /\ buf' = buf \cup {c} /\ lost' = lost
    BY <1>1, <1>3 DEF Answered, Records
  <2>5. Cardinality(buf') <= EventCap
    <3>1. Cardinality(buf \cup {c}) = Cardinality(buf) + 1
      BY <1>1, <2>3, FS_AddElement
    <3> QED
      BY <1>1, <2>4, <3>1
  <2>6. ASSUME NEW d \in Call, d # c
        PROVE  /\ Places(d)' = Places(d)
               /\ One(pc'[d] = "done" /\ req'[d].event) = One(pc[d] = "done" /\ req[d].event)
    <3>1. (d \in buf' <=> d \in buf) /\ (d \in lost' <=> d \in lost)
      BY <2>4, <2>6
    <3>2. One(d \in buf') = One(d \in buf) /\ One(d \in lost') = One(d \in lost)
      BY <3>1 DEF One
    <3> QED
      BY <2>1, <2>6, <3>2 DEF Places
  <2>7. Places(c)' = One(pc'[c] = "done" /\ req'[c].event)
    <3>1. One(c \in buf') + One(c \in lost') = One(pc'[c] = "done" /\ req'[c].event)
      BY <2>1, <2>3, <2>4 DEF One
    <3>2. One(c \in fl["ticker"].batch) = 0 /\ One(c \in fl["call"].batch) = 0
          /\ table[c] = 0
      BY SMTT(60), <2>2 DEF Places, One, StatsTyping
    <3>3. One(c \in buf') \in Nat /\ One(c \in lost') \in Nat
      BY DEF One
    <3>4. Places(c)' = One(c \in fl["ticker"].batch) + One(c \in fl["call"].batch)
                       + table[c] + One(c \in buf') + One(c \in lost')
      BY <2>1 DEF Places
    <3> QED
      BY <3>1, <3>2, <3>3, <3>4
  <2> QED
    BY <2>5, <2>6, <2>7 DEF EventOK
<1>4. ASSUME NEW f \in Flusher, FlushStep(f) PROVE EventOK'
  BY <1>4, EventFlushStep
<1>5. CASE Ends
  <2>1. /\ buf' = {} /\ table' = table /\ req' = req
        /\ lost' = lost \cup buf \cup fl["ticker"].batch \cup fl["call"].batch
        /\ fl'["ticker"].batch = {} /\ fl'["call"].batch = {}
        /\ \A d \in Call : pc'[d] = "done" <=> pc[d] = "done"
    <3>1. UNION {fl[f].batch : f \in Flusher} = fl["ticker"].batch \cup fl["call"].batch
      BY DEF Flusher
    <3> QED
      BY <1>5, <3>1 DEF Ends, NoFlush, Flusher
  <2>2. Cardinality(buf') <= EventCap
    BY <1>1, <2>1, FS_EmptySet
  <2>3. ASSUME NEW d \in Call
        PROVE  Places(d)' = One(pc'[d] = "done" /\ req'[d].event)
    <3>1. table[d] \in Nat /\ Places(d) = One(pc[d] = "done" /\ req[d].event)
      BY DEF StatsTyping, EventOK
    <3>2. One(pc'[d] = "done" /\ req'[d].event) = Places(d)
      BY <2>1, <3>1 DEF One
    <3>3. Places(d) <= 1
      BY <3>1 DEF One
    <3>4. /\ One(d \in fl'["ticker"].batch) = 0 /\ One(d \in fl'["call"].batch) = 0
          /\ One(d \in buf') = 0
      BY <2>1 DEF One
    <3>5. One(d \in lost') = One(d \in fl["ticker"].batch) + One(d \in fl["call"].batch)
                             + One(d \in buf) + One(d \in lost)
      <4>1. d \in lost' <=> \/ d \in lost \/ d \in buf
                            \/ d \in fl["ticker"].batch \/ d \in fl["call"].batch
        BY <2>1
      <4> QED
        BY <3>1, <3>3, <4>1 DEF Places, One
    <3>6. Places(d)' = table[d] + One(d \in lost')
      BY <2>1, <3>1, <3>4 DEF Places, One
    <3> QED
      BY <3>1, <3>2, <3>5, <3>6 DEF Places, One
  <2> QED
    BY <2>2, <2>3 DEF EventOK
<1>6. CASE Resumes \/ UNCHANGED statsVars
  <2>1. UNCHANGED <<fl, table, buf, lost, pc, req>>
    BY <1>6 DEF Resumes, statsVars
  <2> QED
    BY <2>1 DEF EventOK, Places
<1> QED
  BY <1>2, <1>3, <1>4, <1>5, <1>6 DEF StatsNext

-----------------------------------------------------------------------------
(* The theorems.                                                           *)

\* At the start nothing is counted.
LEMMA StatsStarts == StatsInit => StatsInv
<1> SUFFICES ASSUME StatsInit PROVE StatsInv
  OBVIOUS
<1> USE DEF StatsInit
<1>1. NoFlush \in Place /\ NoFlush.snap = Zero /\ NoFlush.batch = {} /\ Zero \in [Field -> Nat]
  BY DEF NoFlush, Zero, Place
<1>2. StatsTyping
  <2>1. /\ lastZero \in Query \cup {None} /\ row \in [Field -> Nat] \cup {None}
        /\ count \in [Field -> Nat]
    BY <1>1
  <2>2. ring \in Seq(Query) /\ followed \in [emitted : Nat, taken : Nat]
    OBVIOUS
  <2>3. fl \in [Flusher -> Place] /\ table \in [Call -> Nat]
    BY <1>1
  <2>4. /\ req \in [Call -> Request \cup {None}] /\ prev \in [Call -> Query \cup {None}]
        /\ pc \in [Call -> {"idle", "query", "zero", "sort", "credit", "record", "done",
                            "dead"}]
    OBVIOUS
  <2> QED
    BY <2>1, <2>2, <2>3, <2>4 DEF StatsTyping
<1>3. RequestOK /\ GoneOK
  BY DEF RequestOK, GoneOK
<1>4. BatchOK /\ SnapOK
  BY <1>1 DEF BatchOK, SnapOK, Zero
<1>5. RingOK
  BY DEF RingOK
<1>6. CountOK
  <2>1. /\ At({"sort"}) = {} /\ At({"zero"}) = {} /\ At({"query", "zero", "credit"}) = {}
        /\ Creditable = {} /\ Waiting = 0
    BY DEF At, Creditable, Waiting
  <2>2. /\ Cardinality(At({"sort"})) = 0 /\ Cardinality(At({"zero"})) = 0
        /\ Cardinality(At({"query", "zero", "credit"})) = 0
        /\ Cardinality(Creditable) = 0
    BY <2>1, FS_EmptySet
  <2>3. /\ count["zero"] = 0 /\ count["sorted"] = 0 /\ count["retried"] = 0
        /\ count["calls"] = 0
    BY DEF Zero, Field
  <2> QED
    BY <2>1, <2>2, <2>3 DEF CountOK
<1>7. EventOK
  <2>1. Cardinality(buf) <= EventCap
    BY FS_EmptySet, StatsConstantsOK
  <2>2. ASSUME NEW c \in Call PROVE Places(c) = One(pc[c] = "done" /\ req[c].event)
    BY <1>1 DEF Places, One, Flusher
  <2> QED
    BY <2>1, <2>2 DEF EventOK
<1> QED
  BY <1>2, <1>3, <1>4, <1>5, <1>6, <1>7 DEF StatsInv

(***************************************************************************)
(* The counters of a session and the events of its calls, however many     *)
(* calls, handlers, flushes and respawns there are: the invariant that the *)
(* two results below are read off.                                         *)
(***************************************************************************)
THEOREM StatsCorrect == StatsInit /\ [][StatsNext]_statsVars => []StatsInv
<1>1. StatsInit => StatsInv
  BY StatsStarts
<1>2. StatsInv /\ [StatsNext]_statsVars => StatsInv'
  <2> SUFFICES ASSUME StatsInv, [StatsNext]_statsVars PROVE StatsInv'
    OBVIOUS
  <2> USE DEF StatsInv
  <2>1. StatsTyping'
    BY StatsTypeStep
  <2>2. RequestOK' /\ GoneOK' /\ BatchOK' /\ RingOK'
    BY RequestStep, GoneStep, BatchStep, RingStep
  <2>3. SnapOK' /\ CountOK' /\ EventOK'
    BY <2>1, SnapStep, CountStep, EventStep
  <2> QED
    BY <2>1, <2>2, <2>3
<1> QED
  BY <1>1, <1>2, PTL

(***************************************************************************)
(* BooksBalance: a server whose handlers are between calls has counters    *)
(* that agree, takes no suggestion twice, and is never behind its row.     *)
(***************************************************************************)
THEOREM BooksCorrect == StatsInit /\ [][StatsNext]_statsVars => []BooksBalance
<1>1. StatsInv => BooksBalance
  <2> SUFFICES ASSUME StatsInv PROVE BooksBalance
    OBVIOUS
  <2>1. ASSUME \A c \in Call : Idle(c), ~ torn PROVE Balanced(count)
    <3>1. \A c \in Call : pc[c] \in {"idle", "record", "done", "dead"}
      BY <2>1 DEF Idle
    <3>2. /\ Cardinality(At({"sort"})) = 0 /\ Cardinality(At({"zero"})) = 0
          /\ Cardinality(At({"query", "zero", "credit"})) = 0
          /\ Cardinality(Creditable) = 0
      BY <3>1, NobodyCounts
    <3>3. /\ count["zero"] \in Nat /\ count["sorted"] \in Nat
          /\ count["retried"] \in Nat /\ count["calls"] \in Nat
      BY DEF StatsInv, StatsTyping, Field
    <3>4. Waiting \in {0, 1}
      BY DEF Waiting
    <3>5. /\ count["zero"] = count["sorted"] + Cardinality(At({"sort"}))
          /\ count["retried"] + Cardinality(Creditable) + Waiting
                <= count["zero"] + Cardinality(At({"zero"}))
          /\ count["zero"] + count["retried"] + Cardinality(At({"query", "zero", "credit"}))
                <= count["calls"]
      BY <2>1 DEF StatsInv, CountOK
    <3>6. /\ count["zero"] = count["sorted"] /\ count["retried"] <= count["zero"]
          /\ count["zero"] + count["retried"] <= count["calls"]
      BY <3>2, <3>3, <3>4, <3>5
    <3> QED
      BY <3>6 DEF Balanced
  <2> QED
    BY <2>1 DEF BooksBalance, StatsInv, RingOK, SnapOK
<1> QED
  BY <1>1, StatsCorrect, PTL

(***************************************************************************)
(* EventsAccounted: the event of every answered call is in the buffer, in  *)
(* one batch, in the table once or dropped, and nowhere else.              *)
(***************************************************************************)
THEOREM EventsCorrect == StatsInit /\ [][StatsNext]_statsVars => []EventsAccounted
<1>1. StatsInv => EventsAccounted
  <2> SUFFICES ASSUME StatsInv PROVE EventsAccounted
    OBVIOUS
  <2>1. ASSUME NEW c \in Call
        PROVE  LET places == Cardinality({f \in Flusher : c \in fl[f].batch}) + table[c]
                             + (IF c \in buf THEN 1 ELSE 0)
                             + (IF c \in lost THEN 1 ELSE 0)
               IN  /\ places <= 1
                   /\ pc[c] = "done" /\ req[c].event => places = 1
    <3>1. Cardinality({f \in Flusher : c \in fl[f].batch})
            = One(c \in fl["ticker"].batch) + One(c \in fl["call"].batch)
      BY HeldByFlushers DEF Held
    <3>2. Places(c) = One(pc[c] = "done" /\ req[c].event) /\ table[c] \in Nat
      BY DEF StatsInv, EventOK, StatsTyping
    <3> QED
      BY <3>1, <3>2 DEF Places, One
  <2>2. Cardinality(buf) <= EventCap
    BY DEF StatsInv, EventOK
  <2> QED
    BY <2>1, <2>2 DEF EventsAccounted
<1> QED
  BY <1>1, StatsCorrect, PTL
=============================================================================
