---------------------------- MODULE Server_proofs ----------------------------
(***************************************************************************)
(* The server's parts that are proved for any constants: its stream of     *)
(* events, the project of a call and, from SessionStats_proofs and         *)
(* Gateway_proofs, the counters of a session, the rate limit and the       *)
(* gateway's replies; and then that what holds of each part alone holds of *)
(* the server that is composed of them.                                    *)
(***************************************************************************)
EXTENDS Server, SessionStats_proofs, Gateway_proofs

-----------------------------------------------------------------------------
(* The stream: what a client of /v1/events believes (ToldIsTrue), for any  *)
(* projects, clients, filters and buffer.  ToldIsTrue speaks of a client   *)
(* that has had its snapshot; before that the inductive invariant says     *)
(* that no completion is in its buffer of a project that the snapshot will *)
(* still name, which is why handleEvents may subscribe first and look at   *)
(* the table afterwards.                                                   *)

StreamEvent == [type : {"index_started", "index_complete"}, project : Watched]

StreamTypeOK ==
    /\ binary \in [Watched -> {"own", "other", "none"}]
    /\ passing \in [Watched -> {"no", "started", "stamped"}]
    /\ link \in [Client -> {"away", "connected", "streaming"}]
    /\ channel \in [Client -> Seq(StreamEvent)]
    /\ told \in [Client -> SUBSET Watched]
    /\ excusedOf \in [Client -> SUBSET Watched]

\* Nobody but a subscriber has anything in its buffer, nor more than fits.
ChannelOK ==
    \A c \in Client : /\ Len(channel[c]) <= BufferCap
                      /\ link[c] = "away" => channel[c] = <<>>

BelievesOK(c, p) ==
    /\ link[c] = "connected" => (binary[p] = "other" => p \notin Completed(c))
    /\ link[c] = "streaming" =>
        /\ binary[p] = "other" => p \in told[c] \ Completed(c)
        /\ p \in told[c] \ Completed(c) => binary[p] = "other" \/ passing[p] = "stamped"

ToldOK == \A c \in Client : \A p \in Wanted(c, Watched \ excusedOf[c]) : BelievesOK(c, p)

StreamInv == StreamTypeOK /\ ChannelOK /\ ToldOK

-----------------------------------------------------------------------------
(* Buffers.                                                                *)

\* The projects whose completion is among some events.
CompletedIn(events) ==
    {events[i].project : i \in {j \in DOMAIN events : events[j].type = "index_complete"}}

\* An event more.
LEMMA CompletedAppend ==
  ASSUME NEW s \in Seq(StreamEvent), NEW ev \in StreamEvent
  PROVE  CompletedIn(Append(s, ev)) =
            CompletedIn(s) \cup (IF ev.type = "index_complete" THEN {ev.project} ELSE {})
<1> DEFINE t == Append(s, ev)
<1>1. DOMAIN s = 1 .. Len(s) /\ DOMAIN t = 1 .. Len(s) + 1 /\ Len(s) \in Nat
  OBVIOUS
<1>2. t[Len(s) + 1] = ev /\ \A i \in 1 .. Len(s) : t[i] = s[i]
  OBVIOUS
<1> HIDE DEF t
<1>3. \A p : p \in CompletedIn(t) <=>
        \E i \in 1 .. Len(s) + 1 : t[i].type = "index_complete" /\ t[i].project = p
  BY <1>1 DEF CompletedIn
<1>4. \A p : p \in CompletedIn(s) <=>
        \E i \in 1 .. Len(s) : s[i].type = "index_complete" /\ s[i].project = p
  BY <1>1 DEF CompletedIn
<1>5. \A i : i \in 1 .. Len(s) + 1 <=> i \in 1 .. Len(s) \/ i = Len(s) + 1
  BY <1>1
<1>6. \A p : p \in CompletedIn(t) <=>
        p \in CompletedIn(s) \/ (ev.type = "index_complete" /\ ev.project = p)
  BY <1>2, <1>3, <1>4, <1>5
<1> QED
  BY <1>6 DEF t

\* The first event less.
LEMMA CompletedTail ==
  ASSUME NEW s \in Seq(StreamEvent), s # <<>>
  PROVE  CompletedIn(s) =
            CompletedIn(Tail(s))
              \cup (IF Head(s).type = "index_complete" THEN {Head(s).project} ELSE {})
<1> DEFINE t == Tail(s)
<1>1. /\ DOMAIN s = 1 .. Len(s) /\ DOMAIN t = 1 .. Len(s) - 1
      /\ Len(s) \in Nat /\ Len(s) > 0
  OBVIOUS
<1>2. Head(s) = s[1] /\ \A i \in 1 .. Len(s) - 1 : t[i] = s[i + 1]
  OBVIOUS
<1> HIDE DEF t
<1>3. \A p : p \in CompletedIn(t) <=>
        \E i \in 1 .. Len(s) - 1 : t[i].type = "index_complete" /\ t[i].project = p
  BY <1>1 DEF CompletedIn
<1>4. \A p : p \in CompletedIn(s) <=>
        \E i \in 1 .. Len(s) : s[i].type = "index_complete" /\ s[i].project = p
  BY <1>1 DEF CompletedIn
<1>5. /\ \A i \in 1 .. Len(s) : i = 1 \/ (i - 1 \in 1 .. Len(s) - 1 /\ t[i - 1] = s[i])
      /\ \A i \in 1 .. Len(s) - 1 : i + 1 \in 1 .. Len(s)
      /\ 1 \in 1 .. Len(s)
  BY <1>1, <1>2
<1>6. ASSUME NEW p, p \in CompletedIn(s)
      PROVE  p \in CompletedIn(t) \/ (Head(s).type = "index_complete" /\ Head(s).project = p)
  BY <1>2, <1>3, <1>4, <1>5, <1>6
<1>7. ASSUME NEW p, p \in CompletedIn(t) \/ (Head(s).type = "index_complete" /\ Head(s).project = p)
      PROVE  p \in CompletedIn(s)
  BY <1>2, <1>3, <1>4, <1>5, <1>7
<1> QED
  BY <1>6, <1>7 DEF t

-----------------------------------------------------------------------------
(* Publishing.                                                             *)

\* A subscriber with room gets the event, one without is excused.
LEMMA Published ==
  ASSUME StreamTypeOK, ChannelOK, NEW ev \in StreamEvent, Publish(ev), UNCHANGED link
  PROVE  /\ channel' \in [Client -> Seq(StreamEvent)]
         /\ excusedOf' \in [Client -> SUBSET Watched]
         /\ ChannelOK'
         /\ \A c \in Client :
               /\ excusedOf[c] \subseteq excusedOf'[c]
               /\ \/ channel'[c] = Append(channel[c], ev)
                     /\ (Untrue(ev) => ev.project \in excusedOf'[c])
                  \/ channel'[c] = channel[c] /\ (link[c] = "away" \/ ev.project \in excusedOf'[c])
<1>1. ASSUME NEW c \in Client
      PROVE  /\ channel'[c] \in Seq(StreamEvent) /\ Len(channel'[c]) <= BufferCap
             /\ link[c] = "away" => channel'[c] = <<>>
             /\ excusedOf[c] \subseteq excusedOf'[c]
             /\ \/ channel'[c] = Append(channel[c], ev)
                   /\ (Untrue(ev) => ev.project \in excusedOf'[c])
                \/ channel'[c] = channel[c] /\ (link[c] = "away" \/ ev.project \in excusedOf'[c])
  <2>1. /\ channel[c] \in Seq(StreamEvent) /\ Len(channel[c]) \in Nat
        /\ Len(channel[c]) <= BufferCap /\ BufferCap \in Nat
        /\ link[c] = "away" => channel[c] = <<>>
    BY StreamConstantsOK DEF StreamTypeOK, ChannelOK
  <2>2. CASE c \in Subs /\ Len(channel[c]) < BufferCap
    <3>1. channel'[c] = Append(channel[c], ev) /\ link[c] # "away"
          /\ (Untrue(ev) => excusedOf'[c] = excusedOf[c] \cup {ev.project})
          /\ excusedOf[c] \subseteq excusedOf'[c]
      BY <2>2 DEF Publish, Subs
    <3>2. Len(Append(channel[c], ev)) = Len(channel[c]) + 1
          /\ Append(channel[c], ev) \in Seq(StreamEvent)
      BY <2>1
    <3> QED
      BY <2>1, <2>2, <3>1, <3>2
  <2>3. CASE ~ (c \in Subs /\ Len(channel[c]) < BufferCap)
    <3>1. channel'[c] = channel[c] /\ excusedOf[c] \subseteq excusedOf'[c]
      BY <2>3 DEF Publish
    <3>2. link[c] # "away" => ev.project \in excusedOf'[c]
      BY <2>1, <2>3 DEF Publish, Subs
    <3> QED
      BY <2>1, <3>1, <3>2
  <2> QED
    BY <2>2, <2>3
<1>2. channel' \in [Client -> Seq(StreamEvent)]
  BY <1>1 DEF Publish
<1>3. excusedOf' \in [Client -> SUBSET Watched]
  BY DEF Publish, StreamTypeOK, StreamEvent
<1> QED
  BY <1>1, <1>2, <1>3 DEF ChannelOK
-----------------------------------------------------------------------------
(* Steps.                                                                  *)

\* Where neither a client's buffer nor what it believes changes, and a project's
\* row says of it what it said before.
LEMMA BeliefKept ==
  ASSUME NEW c \in Client, NEW p \in Watched, BelievesOK(c, p),
         channel'[c] = channel[c], told'[c] = told[c], link'[c] = link[c],
         binary'[p] = "other" <=> binary[p] = "other",
         passing[p] = "stamped" => passing'[p] = "stamped" 
  PROVE  BelievesOK(c, p)'
BY DEF BelievesOK, Completed

\* What a published event does to what a client may believe.
LEMMA PublishedBelief ==
  ASSUME StreamTypeOK, ChannelOK, NEW ev \in StreamEvent, Publish(ev),
         UNCHANGED <<binary, link, told>>,
         NEW c \in Client, NEW p \in Watched, BelievesOK(c, p),
         p \notin excusedOf'[c], link[c] # "away",
         \/ ev.type = "index_started" /\ (passing[p] = "stamped" => passing'[p] = "stamped")
         \/ ev.type = "index_complete"
                /\ (p # ev.project /\ passing[p] = "stamped" => passing'[p] = "stamped")
  PROVE  BelievesOK(c, p)'
<1>1. \/ channel'[c] = Append(channel[c], ev) /\ (Untrue(ev) => ev.project # p)
      \/ channel'[c] = channel[c] /\ ev.project # p
  BY Published
<1>2. Completed(c)' = Completed(c)
      \/ Completed(c)' = Completed(c) \cup (IF ev.type = "index_complete" THEN {ev.project} ELSE {})
  <2>1. channel[c] \in Seq(StreamEvent)
    BY DEF StreamTypeOK
  <2>2. Completed(c) = CompletedIn(channel[c]) /\ Completed(c)' = CompletedIn(channel'[c])
    BY DEF Completed, CompletedIn
  <2>3. CASE channel'[c] = channel[c]
    BY <2>2, <2>3
  <2>4. CASE channel'[c] = Append(channel[c], ev)
    BY <2>1, <2>2, <2>4, CompletedAppend
  <2> QED
    BY <1>1, <2>3, <2>4
<1>3. CASE ev.project # p \/ ev.type = "index_started"
  <2>1. p \in Completed(c)' <=> p \in Completed(c)
    BY <1>2, <1>3
  <2> QED
    BY <1>3, <2>1 DEF BelievesOK
<1>4. CASE ev.project = p /\ ev.type = "index_complete"
  <2>1. binary[p] # "other"
    BY <1>1, <1>4 DEF Untrue
  <2>2. channel'[c] = Append(channel[c], ev) /\ channel[c] \in Seq(StreamEvent)
    BY <1>1, <1>4 DEF StreamTypeOK
  <2>3. p \in Completed(c)'
    BY <1>4, <2>2, CompletedAppend DEF Completed, CompletedIn
  <2> QED
    BY <2>1, <2>3 DEF BelievesOK
<1> QED
  BY <1>3, <1>4 DEF StreamEvent

\* Every step keeps what a client believes true.
LEMMA StreamStep == StreamInv /\ [StreamNext]_streamVars => StreamInv'
<1> SUFFICES ASSUME StreamTypeOK, ChannelOK, ToldOK, [StreamNext]_streamVars
             PROVE  StreamTypeOK' /\ ChannelOK' /\ ToldOK'
  BY DEF StreamInv
<1>1. ASSUME NEW p \in Watched, PassStarts(p)
      PROVE  StreamTypeOK' /\ ChannelOK' /\ ToldOK'
  <2>1. Event("index_started", p) \in StreamEvent /\ Event("index_started", p).type = "index_started"
    BY DEF Event, StreamEvent
  <2>2. /\ Publish(Event("index_started", p)) /\ UNCHANGED <<binary, link, told>>
        /\ passing' = [passing EXCEPT ![p] = "started"] /\ passing[p] = "no"
    BY <1>1 DEF PassStarts
  <2>3. StreamTypeOK' /\ ChannelOK'
    BY <2>1, <2>2, Published DEF StreamTypeOK
  <2>4. ASSUME NEW c \in Client, NEW q \in Wanted(c, Watched \ excusedOf'[c])
        PROVE  BelievesOK(c, q)'
    <3>1. q \in Wanted(c, Watched \ excusedOf[c]) /\ q \in Watched /\ q \notin excusedOf'[c]
      BY <2>1, <2>2, Published DEF Wanted
    <3>2. BelievesOK(c, q)
      BY <3>1 DEF ToldOK
    <3>3. passing[q] = "stamped" => passing'[q] = "stamped"
      BY <2>2, <3>1 DEF StreamTypeOK
    <3>4. CASE link[c] = "away"
      BY <2>2, <3>4 DEF BelievesOK
    <3> QED
      BY <2>1, <2>2, <3>1, <3>2, <3>3, <3>4, PublishedBelief
  <2> QED
    BY <2>3, <2>4 DEF ToldOK
<1>2. ASSUME NEW p \in Watched, PassCompletes(p)
      PROVE  StreamTypeOK' /\ ChannelOK' /\ ToldOK'
  <2> DEFINE ev == Event("index_complete", p)
  <2>1. ev \in StreamEvent /\ ev.type = "index_complete" /\ ev.project = p
    BY DEF Event, StreamEvent
  <2>2. /\ Publish(ev) /\ UNCHANGED <<binary, link, told>>
        /\ passing' = [passing EXCEPT ![p] = "no"] /\ passing[p] = "stamped"
    BY <1>2 DEF PassCompletes
  <2> HIDE DEF ev
  <2>3. StreamTypeOK' /\ ChannelOK'
    BY <2>1, <2>2, Published DEF StreamTypeOK
  <2>4. ASSUME NEW c \in Client, NEW q \in Wanted(c, Watched \ excusedOf'[c])
        PROVE  BelievesOK(c, q)'
    <3>1. q \in Wanted(c, Watched \ excusedOf[c]) /\ q \in Watched /\ q \notin excusedOf'[c]
      BY <2>1, <2>2, Published DEF Wanted
    <3>2. BelievesOK(c, q)
      BY <3>1 DEF ToldOK
    <3>3. q # p /\ passing[q] = "stamped" => passing'[q] = "stamped"
      BY <2>2, <3>1 DEF StreamTypeOK
    <3>4. CASE link[c] = "away"
      BY <2>2, <3>4 DEF BelievesOK
    <3> QED
      BY <2>1, <2>2, <3>1, <3>2, <3>3, <3>4, PublishedBelief
  <2> QED
    BY <2>3, <2>4 DEF ToldOK
<1>3. ASSUME NEW p \in Watched, PassFails(p)
      PROVE  StreamTypeOK' /\ ChannelOK' /\ ToldOK'
  <2>1. /\ passing' = [passing EXCEPT ![p] = "no"] /\ passing[p] = "started"
        /\ UNCHANGED <<binary, link, channel, told, excusedOf>>
    BY <1>3 DEF PassFails
  <2>2. \A q \in Watched : passing[q] = "stamped" => passing'[q] = "stamped"
    BY <2>1 DEF StreamTypeOK
  <2> QED
    BY <2>1, <2>2, BeliefKept DEF StreamTypeOK, ChannelOK, ToldOK, Wanted
<1>4. ASSUME NEW p \in Watched, PassStamps(p)
      PROVE  StreamTypeOK' /\ ChannelOK' /\ ToldOK'
  <2>1. /\ passing' = [passing EXCEPT ![p] = "stamped"]
        /\ binary' = [binary EXCEPT ![p] = "own"] \/ binary' = binary
        /\ UNCHANGED <<link, channel, told, excusedOf>>
    BY <1>4 DEF PassStamps
  <2>2. \A q \in Watched : binary'[q] = "other" => binary[q] = "other"
    BY <2>1 DEF StreamTypeOK
  <2>3. \A q \in Watched : binary[q] = "other" \/ passing[q] = "stamped"
                            => binary'[q] = "other" \/ passing'[q] = "stamped"
    BY <2>1 DEF StreamTypeOK
  <2> QED
    BY <2>1, <2>2, <2>3 DEF StreamTypeOK, ChannelOK, ToldOK, BelievesOK, Completed, Wanted
<1>5. ASSUME NEW p \in Watched, OtherPass(p)
      PROVE  StreamTypeOK' /\ ChannelOK' /\ ToldOK'
  <2>1. /\ binary' = [binary EXCEPT ![p] = "other"]
        /\ UNCHANGED <<passing, link, channel, told>>
    BY <1>5 DEF OtherPass
  <2>2. \A c \in Client : excusedOf'[c] =
            IF link[c] = "streaming" \/ p \in Completed(c) THEN excusedOf[c] \cup {p}
            ELSE excusedOf[c]
    BY <1>5 DEF OtherPass
  <2>3. excusedOf' \in [Client -> SUBSET Watched]
    BY <1>5 DEF OtherPass, StreamTypeOK
  <2>4. ASSUME NEW c \in Client, NEW q \in Wanted(c, Watched \ excusedOf'[c])
        PROVE  BelievesOK(c, q)'
    <3>1. q \in Wanted(c, Watched \ excusedOf[c]) /\ q \in Watched
      BY <2>2 DEF Wanted
    <3>2. BelievesOK(c, q)
      BY <3>1 DEF ToldOK
    <3>3. CASE q # p
      BY <2>1, <3>1, <3>2, <3>3, BeliefKept DEF StreamTypeOK
    <3>4. CASE q = p
      <4>1. link[c] # "streaming" /\ p \notin Completed(c)
        BY <2>2, <3>4 DEF Wanted
      <4> QED
        BY <2>1, <3>4, <4>1 DEF BelievesOK, Completed
    <3> QED
      BY <3>3, <3>4
  <2> QED
    BY <2>1, <2>3, <2>4 DEF StreamTypeOK, ChannelOK, ToldOK
<1>6. ASSUME NEW c \in Client, Subscribes(c)
      PROVE  StreamTypeOK' /\ ChannelOK' /\ ToldOK'
  <2>1. /\ link[c] = "away" /\ link' = [link EXCEPT ![c] = "connected"]
        /\ UNCHANGED <<binary, passing, channel, told, excusedOf>>
    BY <1>6 DEF Subscribes
  <2>2. Completed(c) = {}
    BY <2>1 DEF ChannelOK, Completed
  <2>3. \A d \in Client : d # c => link'[d] = link[d]
    BY <2>1 DEF StreamTypeOK
  <2>4. StreamTypeOK' /\ ChannelOK' /\ link'[c] = "connected"
    BY <2>1, <2>3 DEF StreamTypeOK, ChannelOK
  <2> QED
    BY <2>1, <2>2, <2>3, <2>4 DEF ToldOK, BelievesOK, Completed, Wanted
<1>7. ASSUME NEW c \in Client, Snapshots(c)
      PROVE  StreamTypeOK' /\ ChannelOK' /\ ToldOK'
  <2>1. /\ link[c] = "connected" /\ link' = [link EXCEPT ![c] = "streaming"]
        /\ UNCHANGED <<binary, passing, channel>>
    BY <1>7 DEF Snapshots
  <2>2. Wanted(c, DriftSnapshot) \in SUBSET Watched
    BY DEF Wanted, DriftSnapshot
  <2>3. \/ told' = [told EXCEPT ![c] = Wanted(c, DriftSnapshot)] /\ excusedOf' = excusedOf
        \/ told' = told /\ excusedOf' = [excusedOf EXCEPT ![c] = Watched]
    BY <1>7 DEF Snapshots
  <2>4. StreamTypeOK' /\ ChannelOK'
    BY <2>1, <2>2, <2>3 DEF StreamTypeOK, ChannelOK
  <2>5. \A d \in Client : d # c => link'[d] = link[d] /\ told'[d] = told[d]
                                  /\ excusedOf'[d] = excusedOf[d]
    BY <2>1, <2>3 DEF StreamTypeOK
  <2>6. ASSUME NEW p \in Wanted(c, Watched \ excusedOf'[c]) PROVE BelievesOK(c, p)'
    <3>1. told' = [told EXCEPT ![c] = Wanted(c, DriftSnapshot)] /\ excusedOf' = excusedOf
      BY <2>3 DEF Wanted, StreamTypeOK
    <3>2. told'[c] = Wanted(c, DriftSnapshot)
      BY <3>1 DEF StreamTypeOK
    <3>3. p \in told'[c] <=> binary[p] = "other"
      BY <3>2 DEF Wanted, DriftSnapshot
    <3>4. binary[p] = "other" => p \notin Completed(c)
      BY <2>1, <3>1 DEF ToldOK, BelievesOK
    <3> QED
      BY <2>1, <3>3, <3>4 DEF BelievesOK, Completed, StreamTypeOK
  <2> QED
    BY <2>1, <2>4, <2>5, <2>6 DEF ToldOK, BelievesOK, Completed
<1>8. ASSUME NEW c \in Client, WritesSSE(c)
      PROVE  StreamTypeOK' /\ ChannelOK' /\ ToldOK'
  <2> DEFINE ev == Head(channel[c])
  <2>1. /\ channel[c] # <<>> /\ channel[c] \in Seq(StreamEvent)
        /\ channel' = [channel EXCEPT ![c] = Tail(channel[c])]
        /\ link[c] = "streaming" /\ UNCHANGED <<binary, passing, link, excusedOf>>
    BY <1>8 DEF WritesSSE, StreamTypeOK
  <2>2. ev \in StreamEvent /\ Tail(channel[c]) \in Seq(StreamEvent)
        /\ Len(Tail(channel[c])) <= Len(channel[c])
    BY <2>1
  <2>3. told'[c] = IF Wanted(c, {ev.project}) = {} THEN told[c] ELSE Believes(told[c], ev)
    BY <1>8 DEF WritesSSE, StreamTypeOK
  <2>4. \A d \in Client : d # c => channel'[d] = channel[d] /\ told'[d] = told[d]
    BY <1>8 DEF WritesSSE, StreamTypeOK
  <2>5. told' \in [Client -> SUBSET Watched]
    BY <1>8 DEF WritesSSE, StreamTypeOK, Believes
  <2>6. StreamTypeOK'
    BY <2>1, <2>2, <2>5 DEF StreamTypeOK
  <2>7. ChannelOK'
    <3>1. channel'[c] = Tail(channel[c]) /\ Len(channel[c]) \in Nat /\ BufferCap \in Nat
          /\ Len(Tail(channel[c])) \in Nat
      BY <2>1, <2>2, StreamConstantsOK DEF StreamTypeOK
    <3> QED
      BY <2>1, <2>2, <2>4, <3>1 DEF ChannelOK
  <2>8. ASSUME NEW p \in Wanted(c, Watched \ excusedOf[c]) PROVE BelievesOK(c, p)'
    <3>1. channel'[c] = Tail(channel[c])
      BY <2>1 DEF StreamTypeOK
    <3>2. Completed(c) = Completed(c)'
              \cup (IF ev.type = "index_complete" THEN {ev.project} ELSE {})
      <4>1. Completed(c) = CompletedIn(channel[c])
        BY DEF Completed, CompletedIn
      <4>2. Completed(c)' = CompletedIn(Tail(channel[c]))
        BY <3>1 DEF Completed, CompletedIn
      <4> QED
        BY <2>1, <4>1, <4>2, CompletedTail
    <3>3. ev.project = p => Wanted(c, {ev.project}) # {}
      BY DEF Wanted
    <3>4. p \in told[c] \ Completed(c) <=> p \in told'[c] \ Completed(c)'
      BY <2>3, <3>2, <3>3 DEF Believes
    <3> QED
      BY <2>1, <3>4 DEF ToldOK, BelievesOK
  <2>9. ASSUME NEW d \in Client, NEW p \in Wanted(d, Watched \ excusedOf'[d])
        PROVE  BelievesOK(d, p)'
    <3>1. CASE d = c
      BY <2>1, <2>8, <3>1
    <3>2. CASE d # c
      <4>1. p \in Wanted(d, Watched \ excusedOf[d])
        BY <2>1
      <4>2. p \in Watched /\ BelievesOK(d, p)
        BY <4>1 DEF ToldOK, Wanted
      <4> QED
        BY <2>1, <2>4, <3>2, <4>2, BeliefKept
    <3> QED
      BY <3>1, <3>2
  <2> QED
    BY <2>6, <2>7, <2>9 DEF ToldOK
<1>9. ASSUME NEW c \in Client, Unsubscribes(c)
      PROVE  StreamTypeOK' /\ ChannelOK' /\ ToldOK'
  <2>1. /\ link' = [link EXCEPT ![c] = "away"] /\ channel' = [channel EXCEPT ![c] = <<>>]
        /\ told' = [told EXCEPT ![c] = {}] /\ excusedOf' = [excusedOf EXCEPT ![c] = {}]
        /\ UNCHANGED <<binary, passing>>
    BY <1>9 DEF Unsubscribes
  <2>2. \A d \in Client : d # c => link'[d] = link[d] /\ channel'[d] = channel[d]
                            /\ told'[d] = told[d] /\ excusedOf'[d] = excusedOf[d]
    BY <2>1 DEF StreamTypeOK
  <2>3. link'[c] = "away" /\ channel'[c] = <<>> /\ Len(<<>>) = 0 /\ BufferCap \in Nat
    BY <2>1, StreamConstantsOK DEF StreamTypeOK
  <2>4. <<>> \in Seq(StreamEvent)
    OBVIOUS
  <2>5. StreamTypeOK'
    BY <2>1, <2>4 DEF StreamTypeOK
  <2>6. ChannelOK'
    BY <2>2, <2>3 DEF ChannelOK
  <2> QED
    BY <2>1, <2>2, <2>3, <2>5, <2>6 DEF ToldOK, BelievesOK, Completed
<1>10. CASE UNCHANGED streamVars
  BY <1>10 DEF streamVars, StreamTypeOK, ChannelOK, ToldOK, BelievesOK, Completed, Wanted
<1> QED
  BY <1>1, <1>2, <1>3, <1>4, <1>5, <1>6, <1>7, <1>8, <1>9, <1>10 DEF StreamNext

-----------------------------------------------------------------------------
\* StreamInv is an inductive invariant of the stream.
THEOREM StreamCorrect == StreamInit /\ [][StreamNext]_streamVars => []StreamInv
<1>1. StreamInit => StreamInv
  <2> SUFFICES ASSUME StreamInit PROVE StreamInv
    OBVIOUS
  <2>1. StreamTypeOK
    BY DEF StreamInit, StreamTypeOK
  <2>2. ChannelOK
    BY StreamConstantsOK DEF StreamInit, ChannelOK
  <2>3. ToldOK
    BY DEF StreamInit, ToldOK, BelievesOK
  <2> QED
    BY <2>1, <2>2, <2>3 DEF StreamInv
<1> QED
  BY <1>1, StreamStep, PTL

\* What a client of /v1/events was told agrees with the projects table once it
\* has read its buffer, whenever it subscribed and however many others did, with
\* the exceptions that ToldIsTrue names.
THEOREM ToldCorrect == StreamInit /\ [][StreamNext]_streamVars => []ToldIsTrue
<1>1. StreamInv => ToldIsTrue
  BY DEF StreamInv, ToldOK, BelievesOK, ToldIsTrue
<1> QED
  BY StreamCorrect, <1>1, PTL

-----------------------------------------------------------------------------
(* The project of a call: what resolveProjectID caches (CacheIsFresh) and  *)
(* the row that the session's project must have by the time a handler      *)
(* answers about it (SessionIsStored).  CacheIsFresh is not inductive: an   *)
(* answer is found before it is cached, so the invariant says the same of  *)
(* the answers that handlers carry to the cache; and each step that stores *)
(* or removes a project, or moves a directory, excuses what it must.       *)

\* The variables that the answers depend on.
SessionTypeOK ==
    /\ rows \in [Project -> Stamp \cup {Unset}]
    /\ root \in Project \cup {Unset} /\ sid = root
    /\ cache \in [Arg -> Project \cup {Unset}]
    /\ stage \in [Caller -> {"idle", "auto", "first", "store", "answer", "index",
                          "pass", "invalidate", "prune"}]
    /\ arg \in [Caller -> Arg \cup {Session, Unset}]
    /\ found \in [Caller -> Project \cup {Unset}]

\* A handler that indexes the session's project has found it; one that is about
\* to cache an answer has asked for something.
HandlingOK ==
    \A k \in Caller :
        /\ stage[k] \in {"auto", "first"} => found[k] \in Project /\ arg[k] = Session
        /\ stage[k] = "store" => arg[k] \in Arg /\ found[k] \in Project

\* Answers that are cached, and those on their way to the cache, are fresh.
FreshOK ==
    /\ CacheIsFresh
    /\ \A k \in Caller : stage[k] = "store" /\ arg[k] \notin excused =>
            found[k] \in Resolution(arg[k])

SessionInv == SessionTypeOK /\ HandlingOK /\ FreshOK

\* The answer to an argument depends on which projects are stored, not on what
\* their rows say, and on the directories that exist.
LEMMA ResolutionSame ==
  ASSUME NEW a, \A p \in Project : Stored(p) <=> rows'[p] # Unset, disk' = disk,
         Path[a] \in Project \cup {Unset}
  PROVE  Resolution(a)' = Resolution(a)
<1>1. \A n : ByName(n)' = ByName(n)
  BY DEF ByName, Stored
<1> QED
  BY <1>1 DEF Resolution, Stored

\* What the resolution finds is a project.
LEMMA ResolutionType == ASSUME NEW a \in Arg PROVE Resolution(a) \subseteq Project
BY ProjectConstantsOK DEF Resolution, ByName

\* A step that puts no answer on its way to the cache, nor into it, keeps what
\* is there fresh: it leaves the stored projects as they are, or excuses all.
LEMMA Announced ==
  ASSUME SessionTypeOK, HandlingOK, FreshOK, Unannounced, UNCHANGED <<disk, cache>>,
         \A k \in Caller : stage'[k] = "store" =>
            stage[k] = "store" /\ arg'[k] = arg[k] /\ found'[k] = found[k]
  PROVE  FreshOK'
<1>1. CASE \A p \in Project : Stored(p) <=> rows'[p] # Unset
  <2>1. excused' = excused
    BY <1>1 DEF Unannounced
  <2>2. \A a \in Arg : Resolution(a)' = Resolution(a)
    BY <1>1, ResolutionSame, ProjectConstantsOK
  <2> QED
    BY <2>1, <2>2 DEF FreshOK, CacheIsFresh, HandlingOK
<1>2. CASE ~ \A p \in Project : Stored(p) <=> rows'[p] # Unset
  <2>1. excused' = excused \cup Given
    BY <1>2 DEF Unannounced, Stored
  <2>2. \A a \in Arg : cache[a] # Unset => a \in excused'
    BY <2>1 DEF Given
  <2>3. \A k \in Caller : stage[k] = "store" => arg[k] \in excused'
    BY <2>1 DEF Given
  <2> QED
    BY <2>2, <2>3 DEF FreshOK, CacheIsFresh
<1> QED
  BY <1>1, <1>2

\* The same of a step that leaves the table as it is.
LEMMA NothingNew ==
  ASSUME SessionTypeOK, HandlingOK, FreshOK, UNCHANGED <<rows, disk, cache, excused>>,
         \A k \in Caller : stage'[k] = "store" =>
            stage[k] = "store" /\ arg'[k] = arg[k] /\ found'[k] = found[k]
  PROVE  FreshOK'
BY Announced DEF Unannounced

\* Passes keep the table well typed.
LEMMA PassTypes ==
  ASSUME SessionTypeOK, NEW who, NEW p,
         Holding(who, p) \/ \E w \in BOOLEAN : Releasing(who, p, w)
  PROVE  rows' \in [Project -> Stamp \cup {Unset}]
BY DEF SessionTypeOK, Holding, Releasing, Stamp

\* The invariant holds at the start.
LEMMA SessionInitInv == ProjectInit => SessionInv
<1> SUFFICES ASSUME ProjectInit PROVE SessionInv
  OBVIOUS
<1>1. SessionTypeOK
  BY ProjectConstantsOK DEF ProjectInit, SessionTypeOK
<1>2. HandlingOK /\ FreshOK
  BY DEF ProjectInit, HandlingOK, FreshOK, CacheIsFresh
<1> QED
  BY <1>1, <1>2 DEF SessionInv

\* Every step keeps the types, and what handlers have found.
LEMMA SessionTypeStep ==
  SessionTypeOK /\ HandlingOK /\ [ProjectNext]_projectVars => SessionTypeOK' /\ HandlingOK'
<1> SUFFICES ASSUME SessionTypeOK, HandlingOK, [ProjectNext]_projectVars
             PROVE  SessionTypeOK' /\ HandlingOK'
  OBVIOUS
<1> USE DEF Turns, Finds, stored, detection, handling, bounds
<1>1. ASSUME DetectStarts \/ DetectEnds \/ Moves PROVE SessionTypeOK' /\ HandlingOK'
  BY <1>1 DEF DetectStarts, DetectEnds, Moves, SessionTypeOK, HandlingOK
<1>2. ASSUME RootSet PROVE SessionTypeOK' /\ HandlingOK'
  <2>1. root' \in Project /\ sid' = root'
    BY <1>2, ProjectConstantsOK DEF RootSet
  <2> QED
    BY <1>2, <2>1 DEF RootSet, SessionTypeOK, HandlingOK
<1>3. ASSUME NEW i \in DOMAIN later, LaterStarts(i) \/ \E w \in BOOLEAN : LaterEnds(i, w)
      PROVE  SessionTypeOK' /\ HandlingOK'
  <2>1. UNCHANGED rows => rows' \in [Project -> Stamp \cup {Unset}]
    BY DEF SessionTypeOK
  <2>2. Holding(i, later[i].project)
           \/ (\E w \in BOOLEAN : Releasing(i, later[i].project, w))
        => rows' \in [Project -> Stamp \cup {Unset}]
    BY PassTypes
  <2>3. rows' \in [Project -> Stamp \cup {Unset}]
    <3>1. ASSUME LaterStarts(i)
          PROVE  UNCHANGED rows \/ Holding(i, later[i].project)
      BY <3>1 DEF LaterStarts
    <3>2. ASSUME NEW w \in BOOLEAN, LaterEnds(i, w)
          PROVE  Releasing(i, later[i].project, w)
      BY <3>2 DEF LaterEnds
    <3> QED
      BY <1>3, <2>1, <2>2, <3>1, <3>2
  <2>4. UNCHANGED <<root, sid, cache, stage, arg, found>>
    BY <1>3 DEF LaterStarts, LaterEnds
  <2> QED
    BY <2>3, <2>4 DEF SessionTypeOK, HandlingOK
<1>4. ASSUME NEW a \in Arg, Expire(a) PROVE SessionTypeOK' /\ HandlingOK'
  BY <1>4 DEF Expire, SessionTypeOK, HandlingOK
<1>5. ASSUME NEW a \in Arg, NEW k \in Caller, Resolve(k, a)
      PROVE  SessionTypeOK' /\ HandlingOK'
  <2>1. cache[a] \in Project \cup {Unset} /\ Resolution(a) \subseteq Project
    BY ResolutionType DEF SessionTypeOK
  <2>2. CASE UNCHANGED <<stage, found, arg>>
    BY <1>5, <2>2 DEF Resolve, SessionTypeOK, HandlingOK
  <2>3. CASE \E p \in Project, s \in {"answer", "store"} :
                Finds(k, p) /\ Turns(k, s) /\ arg' = [arg EXCEPT ![k] = a]
    BY <1>5, <2>3 DEF Resolve, SessionTypeOK, HandlingOK
  <2> QED
    BY <1>5, <2>1, <2>2, <2>3 DEF Resolve
<1>6. ASSUME NEW k \in Caller, ResolveSession(k) PROVE SessionTypeOK' /\ HandlingOK'
  <2>1. UNCHANGED <<rows, root, sid, cache>>
    BY <1>6 DEF ResolveSession
  <2>2. CASE UNCHANGED <<stage, found, arg>>
    BY <2>1, <2>2 DEF SessionTypeOK, HandlingOK
  <2>3. CASE \E p \in Project, s \in {"answer", "auto"} :
                Finds(k, p) /\ Turns(k, s) /\ arg' = [arg EXCEPT ![k] = Session]
    BY <2>1, <2>3 DEF SessionTypeOK, HandlingOK
  <2>4. Read(sid) \subseteq Project \cup {Unset}
    BY DEF Read, SessionTypeOK
  <2> QED
    BY <1>6, <2>2, <2>3, <2>4 DEF ResolveSession
<1>7. ASSUME NEW k \in Caller, AutoIndexes(k) PROVE SessionTypeOK' /\ HandlingOK'
  <2>1. rows' \in [Project -> Stamp \cup {Unset}]
    BY <1>7, PassTypes DEF AutoIndexes, SessionTypeOK
  <2> QED
    BY <1>7, <2>1 DEF AutoIndexes, SessionTypeOK, HandlingOK
<1>8. ASSUME NEW k \in Caller, NEW w \in BOOLEAN, AutoIndexed(k, w)
      PROVE  SessionTypeOK' /\ HandlingOK'
  <2>1. rows' \in [Project -> Stamp \cup {Unset}]
    BY <1>8, PassTypes DEF AutoIndexed
  <2> QED
    BY <1>8, <2>1 DEF AutoIndexed, SessionTypeOK, HandlingOK
<1>9. ASSUME NEW k \in Caller, StoreFound(k) PROVE SessionTypeOK' /\ HandlingOK'
  BY <1>9 DEF StoreFound, SessionTypeOK, HandlingOK
<1>10. ASSUME NEW k \in Caller, Answer(k) PROVE SessionTypeOK' /\ HandlingOK'
  BY <1>10 DEF Answer, SessionTypeOK, HandlingOK
<1>11. ASSUME NEW k \in Caller, IndexTool(k) PROVE SessionTypeOK' /\ HandlingOK'
  <2>1. Read(root) \subseteq Project \cup {Unset}
    BY DEF Read, SessionTypeOK
  <2>2. \/ UNCHANGED <<stage, found>>
        \/ \E p \in Project : Finds(k, p) /\ Turns(k, "index")
    BY <1>11, <2>1 DEF IndexTool
  <2> QED
    BY <1>11, <2>2 DEF IndexTool, SessionTypeOK, HandlingOK
<1>12. ASSUME NEW k \in Caller, IndexStarts(k) PROVE SessionTypeOK' /\ HandlingOK'
  <2>1. rows' \in [Project -> Stamp \cup {Unset}]
    BY <1>12, PassTypes DEF IndexStarts, SessionTypeOK
  <2> QED
    BY <1>12, <2>1 DEF IndexStarts, SessionTypeOK, HandlingOK
<1>13. ASSUME NEW k \in Caller, NEW w \in BOOLEAN, IndexEnds(k, w)
       PROVE  SessionTypeOK' /\ HandlingOK'
  <2>1. rows' \in [Project -> Stamp \cup {Unset}]
    BY <1>13, PassTypes DEF IndexEnds
  <2> QED
    BY <1>13, <2>1 DEF IndexEnds, SessionTypeOK, HandlingOK
<1>14. ASSUME NEW k \in Caller, Invalidate(k) PROVE SessionTypeOK' /\ HandlingOK'
  BY <1>14 DEF Invalidate, SessionTypeOK, HandlingOK
<1>15. ASSUME NEW k \in Caller, PruneStarts(k) PROVE SessionTypeOK' /\ HandlingOK'
  BY <1>15 DEF PruneStarts, Begins, SessionTypeOK, HandlingOK
<1>16. ASSUME NEW k \in Caller, Prune(k) PROVE SessionTypeOK' /\ HandlingOK'
  <2>1. rows' \in [Project -> Stamp \cup {Unset}]
    BY <1>16 DEF Prune, SessionTypeOK
  <2> QED
    BY <1>16, <2>1 DEF Prune, SessionTypeOK, HandlingOK
<1>17. CASE UNCHANGED projectVars
  BY <1>17 DEF projectVars, SessionTypeOK, HandlingOK
<1> QED
  BY <1>1, <1>2, <1>3, <1>4, <1>5, <1>6, <1>7, <1>8, <1>9, <1>10, <1>11, <1>12, <1>13,
     <1>14, <1>15, <1>16, <1>17 DEF ProjectNext

\* Every step keeps the answers fresh.
LEMMA FreshStep == SessionInv /\ [ProjectNext]_projectVars => FreshOK'
<1> SUFFICES ASSUME SessionTypeOK, HandlingOK, FreshOK, [ProjectNext]_projectVars
             PROVE  FreshOK'
  BY DEF SessionInv
<1> USE DEF Turns, Finds, stored, detection, handling, bounds
<1>1. ASSUME DetectStarts \/ RootSet \/ DetectEnds \/ UNCHANGED projectVars PROVE FreshOK'
  BY <1>1, NothingNew DEF DetectStarts, RootSet, DetectEnds, projectVars
<1>2. ASSUME Moves PROVE FreshOK'
  <2>1. /\ excused' = excused \cup Given /\ UNCHANGED <<cache, stage, arg, found>>
    BY <1>2 DEF Moves
  <2>2. \A a \in Arg : cache[a] # Unset => a \in excused'
    BY <2>1 DEF Given
  <2>3. \A k \in Caller : stage[k] = "store" => arg[k] \in excused'
    BY <2>1 DEF Given
  <2> QED
    BY <2>1, <2>2, <2>3 DEF FreshOK, CacheIsFresh
<1>3. ASSUME NEW i \in DOMAIN later, LaterStarts(i) \/ \E w \in BOOLEAN : LaterEnds(i, w)
      PROVE  FreshOK'
  BY <1>3, Announced DEF LaterStarts, LaterEnds
<1>4. ASSUME NEW a \in Arg, Expire(a) PROVE FreshOK'
  <2>1. /\ cache' = [cache EXCEPT ![a] = Unset]
        /\ UNCHANGED <<rows, disk, stage, arg, found>>
        /\ \/ excused' = excused
           \/ excused' = excused \ {a} /\ \A k \in Caller : stage[k] = "store" => arg[k] # a
    <3>1. CASE \E k \in Caller : stage[k] = "store" /\ arg[k] = a
      BY <1>4, <3>1 DEF Expire
    <3>2. CASE ~ \E k \in Caller : stage[k] = "store" /\ arg[k] = a
      BY <1>4, <3>2 DEF Expire
    <3> QED
      BY <3>1, <3>2
  <2>2. \A b \in Arg : Resolution(b)' = Resolution(b)
    BY <2>1, ResolutionSame, ProjectConstantsOK DEF Stored
  <2>3. \A b \in Arg : cache'[b] # Unset => b # a /\ cache'[b] = cache[b]
    BY <2>1 DEF SessionTypeOK
  <2> QED
    BY <2>1, <2>2, <2>3 DEF FreshOK, CacheIsFresh, HandlingOK
<1>5. ASSUME NEW a \in Arg, NEW k \in Caller, Resolve(k, a) PROVE FreshOK'
  <2>1. UNCHANGED <<rows, disk, cache, excused>>
    BY <1>5 DEF Resolve
  <2>2. \A b \in Arg : Resolution(b)' = Resolution(b)
    BY <2>1, ResolutionSame, ProjectConstantsOK DEF Stored
  <2>3. \A h \in Caller : h # k => stage'[h] = stage[h] /\ arg'[h] = arg[h] /\ found'[h] = found[h]
    BY <1>5 DEF Resolve, SessionTypeOK
  <2>4. stage'[k] = "store" => arg'[k] = a /\ found'[k] \in Resolution(a)
    BY <1>5 DEF Resolve, Begins, SessionTypeOK
  <2> QED
    BY <2>1, <2>2, <2>3, <2>4 DEF FreshOK, CacheIsFresh, HandlingOK
<1>6. ASSUME NEW k \in Caller, StoreFound(k) PROVE FreshOK'
  <2>1. /\ cache' = [cache EXCEPT ![arg[k]] = found[k]] /\ stage[k] = "store"
        /\ stage' = [stage EXCEPT ![k] = "answer"]
        /\ UNCHANGED <<rows, disk, arg, found, excused>>
    BY <1>6 DEF StoreFound
  <2>2. \A b \in Arg : Resolution(b)' = Resolution(b)
    BY <2>1, ResolutionSame, ProjectConstantsOK DEF Stored
  <2>3. arg[k] \in Arg /\ (arg[k] \notin excused => found[k] \in Resolution(arg[k]))
    BY <2>1 DEF HandlingOK, FreshOK
  <2>4. CacheIsFresh'
    BY <2>1, <2>2, <2>3 DEF FreshOK, CacheIsFresh, SessionTypeOK
  <2>5. \A h \in Caller : stage'[h] = "store" => stage[h] = "store"
    BY <2>1 DEF SessionTypeOK
  <2> QED
    BY <2>1, <2>2, <2>4, <2>5 DEF FreshOK, HandlingOK
<1>7. ASSUME NEW k \in Caller, Invalidate(k) PROVE FreshOK'
  <2>1. /\ cache' = [a \in Arg |-> Unset] /\ stage' = [stage EXCEPT ![k] = "idle"]
        /\ excused' = OnTheWay /\ UNCHANGED arg
    BY <1>7 DEF Invalidate
  <2>2. \A h \in Caller : stage'[h] = "store" => arg'[h] \in excused'
    BY <2>1 DEF OnTheWay, SessionTypeOK
  <2> QED
    BY <2>1, <2>2 DEF FreshOK, CacheIsFresh
<1>8. ASSUME NEW k \in Caller,
             ResolveSession(k) \/ Answer(k) \/ IndexTool(k) \/ PruneStarts(k)
      PROVE  FreshOK'
  <2>1. UNCHANGED <<rows, disk, cache, excused>>
    BY <1>8 DEF ResolveSession, Answer, IndexTool, PruneStarts
  <2>2. stage'[k] # "store" \/ (stage' = stage /\ arg' = arg /\ found' = found)
    <3>1. ASSUME ResolveSession(k)
          PROVE  stage'[k] # "store" \/ (stage' = stage /\ arg' = arg /\ found' = found)
      <4>1. \/ UNCHANGED <<stage, arg, found>>
            \/ \E s \in {"answer", "auto"} : stage' = [stage EXCEPT ![k] = s]
        BY <3>1 DEF ResolveSession
      <4> QED
        BY <4>1 DEF SessionTypeOK
    <3>2. ASSUME Answer(k) PROVE stage'[k] # "store"
      BY <3>2 DEF Answer, SessionTypeOK
    <3>3. ASSUME IndexTool(k) PROVE stage'[k] # "store"
      BY <3>3 DEF IndexTool, Begins, SessionTypeOK
    <3>4. ASSUME PruneStarts(k) PROVE stage'[k] # "store"
      BY <3>4 DEF PruneStarts, SessionTypeOK
    <3> QED
      BY <1>8, <3>1, <3>2, <3>3, <3>4
  <2>3. \A h \in Caller : h # k => stage'[h] = stage[h] /\ arg'[h] = arg[h] /\ found'[h] = found[h]
    BY <1>8 DEF ResolveSession, Answer, IndexTool, PruneStarts, SessionTypeOK
  <2> QED
    BY <2>1, <2>2, <2>3, NothingNew
<1>9. ASSUME NEW k \in Caller,
             \/ AutoIndexes(k) \/ IndexStarts(k) \/ Prune(k)
             \/ \E w \in BOOLEAN : AutoIndexed(k, w) \/ IndexEnds(k, w)
      PROVE  FreshOK'
  <2>1. Unannounced /\ UNCHANGED <<disk, cache, arg>>
    BY <1>9 DEF AutoIndexes, IndexStarts, Prune, AutoIndexed, IndexEnds
  <2>2. stage[k] # "store" /\ stage'[k] # "store"
    BY <1>9 DEF AutoIndexes, IndexStarts, Prune, AutoIndexed, IndexEnds, SessionTypeOK
  <2>3. \A h \in Caller : h # k => stage'[h] = stage[h] /\ found'[h] = found[h]
    BY <1>9 DEF AutoIndexes, IndexStarts, Prune, AutoIndexed, IndexEnds, SessionTypeOK
  <2> QED
    BY <2>1, <2>2, <2>3, Announced
<1> QED
  BY <1>1, <1>2, <1>3, <1>4, <1>5, <1>6, <1>7, <1>8, <1>9 DEF ProjectNext

\* SessionInv is an inductive invariant.
THEOREM SessionCorrect == ProjectInit /\ [][ProjectNext]_projectVars => []SessionInv
<1>1. SessionInv /\ [ProjectNext]_projectVars => SessionInv'
  BY SessionTypeStep, FreshStep DEF SessionInv
<1> QED
  BY SessionInitInv, <1>1, PTL

\* A cached answer is what resolveProjectID would find now, with the exceptions
\* that CacheIsFresh names.
THEOREM CacheFresh == ProjectInit /\ [][ProjectNext]_projectVars => []CacheIsFresh
BY SessionCorrect, PTL DEF SessionInv, FreshOK

-----------------------------------------------------------------------------
(* The session's project.                                                  *)

\* A handler that turns to answer about the session's project has its row.
TakesStored ==
    \A k \in Caller :
        stage'[k] = "answer" /\ stage[k] # "answer" /\ arg'[k] = Session
        /\ once # "setting" => rows'[found'[k]] # Unset

\* A step that sends nobody to answer.
LEMMA NobodyAnswers ==
  ASSUME \A k \in Caller : stage'[k] = "answer" => stage[k] = "answer"
  PROVE  TakesStored
BY DEF TakesStored

\* A step of one handler.
LEMMA OneAnswers ==
  ASSUME SessionTypeOK, NEW k \in Caller, NEW s, stage' = [stage EXCEPT ![k] = s],
         s = "answer" /\ once # "setting" /\ arg'[k] = Session
            => rows'[found'[k]] # Unset
  PROVE  TakesStored
BY DEF TakesStored, SessionTypeOK

\* Every step of a handler takes up a stored project.
LEMMA TakesStoredStep ==
  SessionInv /\ [ProjectNext]_projectVars => TakesStored
<1> SUFFICES ASSUME SessionTypeOK, HandlingOK, [ProjectNext]_projectVars
             PROVE  TakesStored
  BY DEF SessionInv
<1> USE DEF Turns, Finds, stored, detection, handling, bounds
<1>1. ASSUME \/ DetectStarts \/ RootSet \/ DetectEnds \/ Moves \/ UNCHANGED projectVars
             \/ \E a \in Arg : Expire(a)
      PROVE  TakesStored
  <2>1. stage' = stage
    BY <1>1 DEF DetectStarts, RootSet, DetectEnds, Moves, Expire, projectVars
  <2> QED
    BY <2>1, NobodyAnswers
<1>2. ASSUME NEW i \in DOMAIN later, LaterStarts(i) \/ \E w \in BOOLEAN : LaterEnds(i, w)
      PROVE  TakesStored
  <2>1. stage' = stage
    BY <1>2 DEF LaterStarts, LaterEnds
  <2> QED
    BY <2>1, NobodyAnswers
<1>3. ASSUME NEW a \in Arg, NEW k \in Caller, Resolve(k, a) PROVE TakesStored
  <2>1. CASE stage' = stage
    BY <2>1, NobodyAnswers
  <2>2. CASE stage' # stage
    <3>1. arg' = [arg EXCEPT ![k] = a] /\ \E s : stage' = [stage EXCEPT ![k] = s]
      BY <1>3, <2>2 DEF Resolve
    <3>2. arg'[k] # Session
      BY <3>1, ProjectConstantsOK DEF SessionTypeOK
    <3> QED
      BY <3>1, <3>2, OneAnswers
  <2> QED
    BY <2>1, <2>2
<1>4. ASSUME NEW k \in Caller, ResolveSession(k) PROVE TakesStored
  <2>1. CASE stage' = stage
    BY <2>1, NobodyAnswers
  <2>2. CASE stage' # stage
    <3>1. PICK id \in Read(sid), r \in Read(root) :
            /\ id # Unset /\ found' = [found EXCEPT ![k] = id]
            /\ \/ (r = Unset \/ Stored(id)) /\ stage' = [stage EXCEPT ![k] = "answer"]
               \/ stage' = [stage EXCEPT ![k] = "auto"]
      BY <1>4, <2>2 DEF ResolveSession
    <3>2. rows' = rows /\ found'[k] = id
      BY <1>4, <3>1 DEF ResolveSession, SessionTypeOK
    <3>3. once # "setting" => id = sid /\ r = root
      BY DEF Read
    <3>4. CASE stage' = [stage EXCEPT ![k] = "auto"]
      BY <3>4, OneAnswers
    <3>5. CASE (r = Unset \/ Stored(id)) /\ stage' = [stage EXCEPT ![k] = "answer"]
      <4>1. once # "setting" => rows'[found'[k]] # Unset
        BY <3>1, <3>2, <3>3, <3>5 DEF SessionTypeOK, Stored
      <4> QED
        BY <3>5, <4>1, OneAnswers
    <3> QED
      BY <3>1, <3>4, <3>5
  <2> QED
    BY <2>1, <2>2
<1>5. ASSUME NEW k \in Caller, NEW w \in BOOLEAN, AutoIndexed(k, w) PROVE TakesStored
  <2>1. CASE w
    <3>1. /\ stage' = [stage EXCEPT ![k] = "answer"] /\ found' = found
          /\ rows' = IF rows[found[k]] # "newer"
                     THEN [rows EXCEPT ![found[k]] = "own"] ELSE rows
      BY <1>5, <2>1 DEF AutoIndexed, Releasing
    <3>2. found[k] \in Project
      BY <1>5 DEF AutoIndexed, HandlingOK
    <3>3. rows'[found'[k]] # Unset
      BY <3>1, <3>2, ProjectConstantsOK DEF SessionTypeOK, Stamp
    <3> QED
      BY <3>1, <3>3, OneAnswers
  <2>2. CASE ~ w
    <3>1. stage' = [stage EXCEPT ![k] = "idle"]
      BY <1>5, <2>2 DEF AutoIndexed
    <3> QED
      BY <3>1, OneAnswers
  <2> QED
    BY <2>1, <2>2
<1>6. ASSUME NEW k \in Caller, StoreFound(k) PROVE TakesStored
  <2>1. arg'[k] # Session /\ stage' = [stage EXCEPT ![k] = "answer"]
    BY <1>6, ProjectConstantsOK DEF StoreFound, HandlingOK
  <2> QED
    BY <2>1, OneAnswers
<1>7. ASSUME NEW k \in Caller,
             \/ AutoIndexes(k) \/ IndexStarts(k) \/ Prune(k) \/ Answer(k) \/ IndexTool(k)
             \/ Invalidate(k) \/ PruneStarts(k) \/ \E w \in BOOLEAN : IndexEnds(k, w)
      PROVE  TakesStored
  <2>1. \/ stage' = stage
        \/ \E s \in {"first", "idle", "pass", "index", "invalidate", "prune"} :
                stage' = [stage EXCEPT ![k] = s]
    BY <1>7 DEF AutoIndexes, IndexStarts, Prune, Answer, IndexTool, Invalidate,
                PruneStarts, IndexEnds
  <2> QED
    BY <2>1, NobodyAnswers, OneAnswers
<1> QED
  BY <1>1, <1>2, <1>3, <1>4, <1>5, <1>6, <1>7 DEF ProjectNext

\* A handler takes up the session's project only if it is stored, unless it
\* read the session while setRoot was writing it.
THEOREM SessionStored == ProjectInit /\ [][ProjectNext]_projectVars => SessionIsStored
<1>1. SessionInv /\ [ProjectNext]_projectVars => [TakesStored]_projectVars
  BY TakesStoredStep
<1> QED
  BY SessionCorrect, <1>1, PTL DEF SessionIsStored, TakesStored

-----------------------------------------------------------------------------
(* The symbols and their full-text index, for any tree, any words, and any *)
(* cut of a pass' symbols into batches.  HitsAreHonest joins two tables by *)
(* rowid.  That no two rows have one (TableRowsOK) is what keeps a delete  *)
(* from taking the text of another row out of the index, and an insert     *)
(* from getting the row that an old text still points at.                  *)

TableRowsOK ==
    /\ symbols = [id \in DOMAIN symbols |-> symbols[id]]
    /\ \A id \in DOMAIN symbols : symbols[id].rowid \in Nat
    /\ \E n \in Nat : \A id \in DOMAIN symbols : symbols[id].rowid <= n
    /\ \A i, j \in DOMAIN symbols : symbols[i].rowid = symbols[j].rowid => i = j

PostedOK ==
    /\ \A id \in DOMAIN symbols : symbols[id].lang # "HTML" =>
        Posting(symbols[id]) \in postings[ClassifyCorpus(symbols[id].lang)]
    /\ ~ replaced => \A c \in Corpora : \A x \in postings[c] : \E id \in DOMAIN symbols :
        x = Posting(symbols[id]) /\ ClassifyCorpus(symbols[id].lang) = c

\* A batch is a sequence, because a pass finds finitely many symbols.
BatchesOK ==
    /\ tree = [p \in Paths |-> tree[p]]
    /\ \A p \in Paths : tree[p] = NoText \/ IsText(tree[p])
    /\ pass = [at |-> pass.at, left |-> pass.left, seen |-> pass.seen,
               buffer |-> pass.buffer, imports |-> pass.imports]
    /\ pass.left \in Seq(Paths) /\ IsFiniteSet(pass.buffer)

TableInv == TableRowsOK /\ PostedOK /\ BatchesOK

\* Of some numbers with a bound one is the greatest.
LEMMA GreatestExists ==
  ASSUME NEW T \in SUBSET Nat, T # {}, NEW n \in Nat, \A x \in T : x <= n
  PROVE  Max(T) \in T /\ \A y \in T : Max(T) >= y
<1> DEFINE uppers == {u \in Nat : \A y \in T : y <= u}
<1>1. n \in uppers
  OBVIOUS
<1>2. PICK m \in uppers : \A u \in uppers : m <= u
  <2>1. uppers \in SUBSET Nat /\ uppers # {}
    BY <1>1
  <2> HIDE DEF uppers
  <2> QED
    BY <2>1, LeastExists
<1>3. m \in T
  <2> SUFFICES ASSUME m \notin T PROVE FALSE
    OBVIOUS
  <2>1. \A y \in T : y <= m - 1
    BY <1>2
  <2>2. PICK y \in T : y \in Nat /\ y <= m - 1
    BY <2>1
  <2>3. m - 1 \in uppers
    BY <1>2, <2>1, <2>2
  <2> QED
    BY <1>2, <2>3
<1>4. \E x \in T : \A y \in T : x >= y
  BY <1>2, <1>3
<1> QED
  BY <1>4 DEF Max

\* The next rowid is of no row.
LEMMA NextIsNew ==
  ASSUME TableRowsOK
  PROVE  /\ NextRowid(symbols) \in Nat
         /\ \A id \in DOMAIN symbols : symbols[id].rowid < NextRowid(symbols)
<1> DEFINE T == {0} \cup {symbols[id].rowid : id \in DOMAIN symbols}
<1>1. PICK n \in Nat : \A id \in DOMAIN symbols : symbols[id].rowid <= n
  BY DEF TableRowsOK
<1>2. \A id \in DOMAIN symbols : symbols[id].rowid \in Nat /\ symbols[id].rowid \in T
  BY DEF TableRowsOK
<1>3. T \in SUBSET Nat /\ T # {} /\ \A x \in T : x <= n
  BY <1>1, <1>2
<1>4. NextRowid(symbols) = 1 + Max(T)
  BY DEF NextRowid
<1> HIDE DEF T
<1>5. Max(T) \in T /\ \A y \in T : Max(T) >= y
  BY <1>3, GreatestExists
<1>6. PICK m : m = Max(T)
  OBVIOUS
<1>7. m \in Nat /\ NextRowid(symbols) = 1 + m /\ \A y \in T : m >= y
  BY <1>3, <1>4, <1>5, <1>6
<1>8. ASSUME NEW id \in DOMAIN symbols PROVE symbols[id].rowid < 1 + m
  BY <1>2, <1>7
<1> QED
  BY <1>7, <1>8

LEMMA CorpusOfLang == \A lang : ClassifyCorpus(lang) \in Corpora
BY DEF ClassifyCorpus, Corpora

\* The ids of n rows.
IdsOf(syms, n) == {syms[i].id : i \in 1 .. n}

\* What an upsert of n rows leaves in the table.
LastRowsIn(syms, n) ==
    /\ DOMAIN symbols' = IdsOf(syms, n) \cup DOMAIN symbols
    /\ \A id \in IdsOf(syms, n) : \E i \in 1 .. n :
            /\ syms[i].id = id /\ symbols'[id] = Inserted(syms, i)
            /\ \A j \in 1 .. n : syms[j].id = id => j <= i
    /\ \A id \in DOMAIN symbols \ IdsOf(syms, n) : symbols'[id] = symbols[id]

\* An upsert leaves the last of the rows of each id, and the other rows as they are.
LEMMA Upserted ==
  ASSUME TableRowsOK, NEW syms, NEW n \in Nat, DOMAIN syms = 1 .. n,
         BulkUpsertSymbols(syms)
  PROVE  LastRowsIn(syms, n)
<1>0. PICK new : new = IdsOf(syms, n)
  OBVIOUS
<1> DEFINE at(id) == {i \in 1 .. n : syms[i].id = id}
<1>1. symbols' = [id \in new \cup DOMAIN symbols |->
                    IF id \in new THEN Inserted(syms, Max(at(id))) ELSE symbols[id]]
  BY <1>0 DEF BulkUpsertSymbols, IdsOf
<1>2. \A id \in new : Max(at(id)) \in at(id) /\ \A j \in at(id) : Max(at(id)) >= j
  <2> SUFFICES ASSUME NEW id \in new
               PROVE  Max(at(id)) \in at(id) /\ \A j \in at(id) : Max(at(id)) >= j
    OBVIOUS
  <2>1. at(id) \in SUBSET Nat /\ at(id) # {} /\ \A x \in at(id) : x <= n
    BY <1>0 DEF IdsOf
  <2> HIDE DEF at
  <2> QED
    BY <2>1, GreatestExists
<1>3. \A id \in new : \E i \in 1 .. n :
        /\ syms[i].id = id /\ symbols'[id] = Inserted(syms, i)
        /\ \A j \in 1 .. n : syms[j].id = id => j <= i
  <2> SUFFICES ASSUME NEW id \in new
               PROVE  \E i \in 1 .. n :
                        /\ syms[i].id = id /\ symbols'[id] = Inserted(syms, i)
                        /\ \A j \in 1 .. n : syms[j].id = id => j <= i
    OBVIOUS
  <2>1. PICK i : i = Max(at(id))
    OBVIOUS
  <2>2. i \in at(id) /\ \A j \in at(id) : i >= j
    BY <1>2, <2>1
  <2>3. symbols'[id] = Inserted(syms, i)
    BY <1>1, <2>1
  <2>4. i \in 1 .. n /\ syms[i].id = id
    BY <2>2
  <2>5. \A j \in 1 .. n : syms[j].id = id => j <= i
    BY <2>2
  <2> QED
    BY <2>3, <2>4, <2>5
<1>4. DOMAIN symbols' = new \cup DOMAIN symbols
  BY <1>1
<1>5. \A id \in DOMAIN symbols \ new : symbols'[id] = symbols[id]
  BY <1>1
<1> QED
  BY <1>0, <1>3, <1>4, <1>5 DEF LastRowsIn

\* An upsert keeps rows and texts together.
LEMMA UpsertStep ==
  ASSUME TableRowsOK, PostedOK, NEW syms, NEW n \in Nat, DOMAIN syms = 1 .. n,
         BulkUpsertSymbols(syms)
  PROVE  TableRowsOK' /\ PostedOK'
<1>0. PICK new : new = IdsOf(syms, n)
  OBVIOUS
<1> DEFINE base == NextRowid(symbols)
           inserted == {Inserted(syms, i) : i \in 1 .. n}
<1>1. /\ DOMAIN symbols' = new \cup DOMAIN symbols
      /\ symbols' = [id \in DOMAIN symbols' |-> symbols'[id]]
      /\ \A id \in new : \E i \in 1 .. n :
            /\ syms[i].id = id /\ symbols'[id] = Inserted(syms, i)
            /\ \A j \in 1 .. n : syms[j].id = id => j <= i
      /\ \A id \in DOMAIN symbols \ new : symbols'[id] = symbols[id]
  <2>1. LastRowsIn(syms, n)
    BY Upserted
  <2>2. symbols' = [id \in DOMAIN symbols' |-> symbols'[id]]
    BY DEF BulkUpsertSymbols
  <2> QED
    BY <1>0, <2>1, <2>2 DEF LastRowsIn
<1>2. base \in Nat /\ \A id \in DOMAIN symbols : symbols[id].rowid < base
  BY NextIsNew
<1>3. \A i \in 1 .. n : Inserted(syms, i).rowid = base + i - 1
  BY DEF Inserted
<1>4. \A id \in DOMAIN symbols : symbols[id].rowid \in Nat
  BY DEF TableRowsOK
<1>5. postings' = AfterInsert(postings, inserted)
  BY DEF BulkUpsertSymbols
<1>6. replaced' = (replaced \/ \E i \in 1 .. n :
                        \/ syms[i].id \in DOMAIN symbols
                        \/ \E j \in 1 .. n : j < i /\ syms[j].id = syms[i].id)
  BY DEF BulkUpsertSymbols
<1>7. \A c \in Corpora : postings'[c] = postings[c] \cup PostingsOf(inserted, c)
  BY <1>5 DEF AfterInsert
<1> HIDE DEF base, inserted
<1>8. TableRowsOK'
  <2>1. \A id \in new : symbols'[id].rowid \in base .. base + n - 1
    <3> SUFFICES ASSUME NEW id \in new PROVE symbols'[id].rowid \in base .. base + n - 1
      OBVIOUS
    <3>1. PICK i \in 1 .. n : symbols'[id] = Inserted(syms, i)
      BY <1>1
    <3>2. symbols'[id].rowid = base + i - 1
      BY <1>3, <3>1
    <3> QED
      BY <1>2, <3>2
  <2>2. \A id \in DOMAIN symbols \ new : symbols'[id].rowid \in 0 .. base - 1
    BY <1>1, <1>2, <1>4
  <2>3. \A id \in DOMAIN symbols' : symbols'[id].rowid \in Nat
                                    /\ symbols'[id].rowid <= base + n
    <3> SUFFICES ASSUME NEW id \in DOMAIN symbols'
                 PROVE  symbols'[id].rowid \in Nat /\ symbols'[id].rowid <= base + n
      OBVIOUS
    <3>1. id \in new \/ id \in DOMAIN symbols \ new
      BY <1>1
    <3> QED
      BY <1>2, <2>1, <2>2, <3>1
  <2>4. ASSUME NEW i \in DOMAIN symbols', NEW j \in DOMAIN symbols',
               symbols'[i].rowid = symbols'[j].rowid
        PROVE  i = j
    <3>1. CASE i \in new /\ j \in new
      <4>1. PICK a \in 1 .. n : syms[a].id = i /\ symbols'[i] = Inserted(syms, a)
        BY <1>1, <3>1
      <4>2. PICK b \in 1 .. n : syms[b].id = j /\ symbols'[j] = Inserted(syms, b)
        BY <1>1, <3>1
      <4>3. base + a - 1 = base + b - 1
        BY <1>3, <2>4, <4>1, <4>2
      <4>4. a = b
        BY <1>2, <4>3
      <4> QED
        BY <4>1, <4>2, <4>4
    <3>2. CASE i \in DOMAIN symbols \ new /\ j \in DOMAIN symbols \ new
      BY <1>1, <2>4, <3>2 DEF TableRowsOK
    <3>3. ~ (i \in new /\ j \in DOMAIN symbols \ new)
      <4> QED
        BY <1>2, <2>1, <2>2, <2>4
    <3>4. ~ (j \in new /\ i \in DOMAIN symbols \ new)
      <4> QED
        BY <1>2, <2>1, <2>2, <2>4
    <3> QED
      BY <1>1, <3>1, <3>2, <3>3, <3>4
  <2>5. \E m \in Nat : \A id \in DOMAIN symbols' : symbols'[id].rowid <= m
    <3>1. base + n \in Nat
      BY <1>2
    <3> QED
      BY <2>3, <3>1
  <2> QED
    BY <1>1, <2>3, <2>4, <2>5 DEF TableRowsOK
<1>9. ASSUME NEW id \in DOMAIN symbols', symbols'[id].lang # "HTML"
      PROVE  Posting(symbols'[id]) \in postings'[ClassifyCorpus(symbols'[id].lang)]
  <2> DEFINE c == ClassifyCorpus(symbols'[id].lang)
  <2>1. c \in Corpora
    BY CorpusOfLang
  <2>2. CASE id \in new
    <3>1. symbols'[id] \in inserted
      BY <1>1, <2>2 DEF inserted
    <3>2. Posting(symbols'[id]) \in PostingsOf(inserted, c)
      BY <3>1 DEF PostingsOf
    <3> QED
      BY <1>7, <2>1, <3>2
  <2>3. CASE id \in DOMAIN symbols \ new
    <3>1. Posting(symbols'[id]) \in postings[c]
      BY <1>1, <1>9, <2>3 DEF PostedOK
    <3> QED
      BY <1>7, <2>1, <3>1
  <2> QED
    BY <1>1, <2>2, <2>3
<1>10. ASSUME ~ replaced', NEW c \in Corpora, NEW x \in postings'[c]
       PROVE  \E id \in DOMAIN symbols' :
                x = Posting(symbols'[id]) /\ ClassifyCorpus(symbols'[id].lang) = c
  <2>1. /\ ~ replaced
        /\ \A i \in 1 .. n : syms[i].id \notin DOMAIN symbols
        /\ \A i, j \in 1 .. n : j < i => syms[j].id # syms[i].id
    BY <1>6, <1>10
  <2>2. CASE x \in postings[c]
    <3>1. PICK id \in DOMAIN symbols :
            x = Posting(symbols[id]) /\ ClassifyCorpus(symbols[id].lang) = c
      BY <2>1, <2>2 DEF PostedOK
    <3>2. id \notin new
      BY <1>0, <2>1 DEF IdsOf
    <3>3. id \in DOMAIN symbols' /\ symbols'[id] = symbols[id]
      BY <1>1, <3>2
    <3> QED
      BY <3>1, <3>3
  <2>3. CASE x \in PostingsOf(inserted, c)
    <3>1. PICK i \in 1 .. n : /\ x = Posting(Inserted(syms, i))
                              /\ ClassifyCorpus(Inserted(syms, i).lang) = c
      BY <2>3 DEF PostingsOf, inserted
    <3> DEFINE id == syms[i].id
    <3>2. id \in new
      BY <1>0 DEF IdsOf
    <3>3. PICK k \in 1 .. n : /\ syms[k].id = id /\ symbols'[id] = Inserted(syms, k)
                              /\ \A j \in 1 .. n : syms[j].id = id => j <= k
      BY <1>1, <3>2
    <3>4. k = i
      BY <2>1, <3>3
    <3> QED
      BY <1>1, <3>1, <3>2, <3>3, <3>4
  <2> QED
    BY <1>7, <1>10, <2>2, <2>3
<1> QED
  BY <1>8, <1>9, <1>10 DEF PostedOK

\* A delete takes rows and their texts away, and no other text.
LEMMA DeleteStep ==
  ASSUME TableRowsOK, PostedOK, NEW gone, DeleteSymbolsForFiles(gone)
  PROVE  TableRowsOK' /\ PostedOK'
<1> DEFINE ids == {id \in DOMAIN symbols : id[1] \in gone}
           dropped == {symbols[id] : id \in ids}
<1>1. /\ symbols' = [id \in DOMAIN symbols \ ids |-> symbols[id]]
      /\ postings' = AfterDelete(postings, dropped)
      /\ replaced' = replaced
  BY DEF DeleteSymbolsForFiles, Restrict
<1>2. \A c \in Corpora : postings'[c] = postings[c] \ PostingsOf(dropped, c)
  BY <1>1 DEF AfterDelete
<1> HIDE DEF ids
<1>3. DOMAIN symbols' = DOMAIN symbols \ ids
      /\ \A id \in DOMAIN symbols \ ids : symbols'[id] = symbols[id]
  BY <1>1
<1>4. TableRowsOK'
  BY <1>1, <1>3 DEF TableRowsOK
<1>5. ASSUME NEW id \in DOMAIN symbols', symbols'[id].lang # "HTML"
      PROVE  Posting(symbols'[id]) \in postings'[ClassifyCorpus(symbols'[id].lang)]
  <2> DEFINE c == ClassifyCorpus(symbols'[id].lang)
  <2>1. c \in Corpora /\ id \in DOMAIN symbols /\ id \notin ids /\ symbols'[id] = symbols[id]
    BY <1>3, CorpusOfLang
  <2>2. Posting(symbols[id]) \in postings[c]
    BY <1>5, <2>1 DEF PostedOK
  <2>3. ASSUME Posting(symbols[id]) \in PostingsOf(dropped, c) PROVE FALSE
    <3>1. PICK other \in ids \cap DOMAIN symbols : Posting(symbols[other]) = Posting(symbols[id])
      BY <2>3 DEF PostingsOf, ids
    <3>2. symbols[other].rowid = symbols[id].rowid
      BY <3>1 DEF Posting
    <3> QED
      BY <2>1, <3>1, <3>2 DEF TableRowsOK
  <2> QED
    BY <1>2, <2>1, <2>2, <2>3
<1>6. ASSUME ~ replaced', NEW c \in Corpora, NEW x \in postings'[c]
      PROVE  \E id \in DOMAIN symbols' :
                x = Posting(symbols'[id]) /\ ClassifyCorpus(symbols'[id].lang) = c
  <2>1. x \in postings[c] /\ x \notin PostingsOf(dropped, c)
    BY <1>2, <1>6
  <2>2. PICK id \in DOMAIN symbols :
            x = Posting(symbols[id]) /\ ClassifyCorpus(symbols[id].lang) = c
    BY <1>1, <1>6, <2>1 DEF PostedOK
  <2>3. id \notin ids
    BY <2>1, <2>2 DEF PostingsOf
  <2> QED
    BY <1>3, <2>2, <2>3
<1> QED
  BY <1>4, <1>5, <1>6 DEF PostedOK

\* A pass' symbols stay finitely many.
LEMMA SymbolsFinite ==
  ASSUME BatchesOK, NEW p \in Paths, tree[p] # NoText
  PROVE  IsFiniteSet(SymbolsIn(p))
<1> DEFINE D == DOMAIN tree[p].words
           madeOf == [n \in D |-> [id |-> <<p, n>>, lang |-> tree[p].lang,
                                 word |-> tree[p].words[n]]]
<1>1. IsFiniteSet(D)
  BY DEF BatchesOK, IsText
<1>2. madeOf \in Surjection(D, SymbolsIn(p))
  BY DEF SymbolsIn, Surjection
<1> HIDE DEF D, madeOf
<1> QED
  BY <1>1, <1>2, FS_Surjection

\* A step keeps the texts whole and the buffered symbols finitely many.
LEMMA BatchesStep == BatchesOK /\ [TableNext]_tableVars => BatchesOK'
<1> SUFFICES ASSUME BatchesOK, [TableNext]_tableVars PROVE BatchesOK'
  OBVIOUS
<1> USE TableConstantsOK
<1>1. /\ tree = [p \in Paths |-> tree[p]]
      /\ \A p \in Paths : tree[p] = NoText \/ IsText(tree[p])
      /\ pass.left \in Seq(Paths) /\ IsFiniteSet(pass.buffer)
  BY DEF BatchesOK
<1>2. ASSUME UNCHANGED <<tree, pass>> PROVE BatchesOK'
  BY <1>2 DEF BatchesOK, IsText
<1>3. CASE BeginPass
  BY ZenonT(60), <1>1, <1>3, FS_EmptySet DEF BeginPass, NoPass, BatchesOK, IsText
<1>4. CASE Walk
  <2> DEFINE path == Head(pass.left)
  <2>1. path \in Paths /\ Tail(pass.left) \in Seq(Paths)
    BY <1>1, <1>4 DEF Walk
  <2>2. /\ pass' = [at |-> pass'.at, left |-> pass'.left, seen |-> pass'.seen,
                    buffer |-> pass'.buffer, imports |-> pass'.imports]
        /\ pass'.left = Tail(pass.left) /\ tree' = tree
        /\ \/ pass'.buffer = pass.buffer
           \/ tree[path] # NoText /\ pass'.buffer = pass.buffer \cup SymbolsIn(path)
    BY <1>4 DEF Walk, BatchesOK
  <2> HIDE DEF path
  <2>3. tree[path] # NoText => IsFiniteSet(SymbolsIn(path))
    BY <2>1, SymbolsFinite
  <2>4. tree[path] # NoText => IsFiniteSet(pass.buffer \cup SymbolsIn(path))
    BY <1>1, <2>3, FS_Union
  <2>5. IsFiniteSet(pass'.buffer)
    BY <1>1, <2>2, <2>4
  <2> QED
    BY <1>1, <2>1, <2>2, <2>5 DEF BatchesOK, IsText
<1>5. CASE FlushBatch
  <2>1. PICK batch \in SUBSET pass.buffer : pass' = [pass EXCEPT !.buffer = @ \ batch]
    BY <1>5 DEF FlushBatch
  <2>2. IsFiniteSet(pass.buffer \ batch)
    BY <1>1, FS_Subset
  <2>3. tree' = tree
    BY <1>5 DEF FlushBatch
  <2> QED
    BY <1>1, <2>1, <2>2, <2>3 DEF BatchesOK, IsText
<1>6. CASE ResolveImports
  <2>1. pass' = [pass EXCEPT !.at = "collect"] /\ tree' = tree
    BY <1>6 DEF ResolveImports
  <2> QED
    BY <1>1, <2>1 DEF BatchesOK, IsText
<1>7. CASE CollectGarbage
  <2>1. pass' = NoPass /\ tree' = tree
    BY <1>7 DEF CollectGarbage
  <2> QED
    BY <1>1, <2>1, FS_EmptySet DEF NoPass, BatchesOK, IsText
<1>8. CASE RebuildFTS
  BY <1>2, <1>8 DEF RebuildFTS
<1>9. ASSUME NEW w \in Words, HandleFetch(w) PROVE BatchesOK'
  BY <1>2, <1>9 DEF HandleFetch
<1>10. ASSUME NEW from \in Paths, NEW to \in Paths, Rename(from, to) PROVE BatchesOK'
  <2>1. tree' = [tree EXCEPT ![from] = NoText, ![to] = tree[from]] /\ pass' = pass
    BY <1>10 DEF Rename
  <2>2. tree' = [p \in Paths |-> tree'[p]]
    BY <1>1, <2>1
  <2>3. \A p \in Paths : tree'[p] \in {tree[p], NoText, tree[from]}
    BY <1>1, <2>1
  <2>4. \A p \in Paths : tree'[p] = NoText \/ IsText(tree'[p])
    BY <1>1, <2>3
  <2> QED
    BY <1>1, <2>1, <2>2, <2>4 DEF BatchesOK, IsText
<1>11. ASSUME NEW path \in Paths, NEW n, NEW w, Edit(path, n, w) PROVE BatchesOK'
  <2>1. /\ tree' = [tree EXCEPT ![path].words[n] = w]
        /\ pass' = pass /\ tree[path] # NoText
    BY <1>11 DEF Edit
  <2>2. tree' = [p \in Paths |-> tree'[p]]
    BY <1>1, <2>1
  <2>3. PICK t : t = [tree[path] EXCEPT !.words[n] = w]
    OBVIOUS
  <2>4. \A p \in Paths : tree'[p] = IF p = path THEN t ELSE tree[p]
    BY <1>1, <2>1, <2>3
  <2>5. IsText(tree[path])
    BY <1>1, <2>1
  <2>6. IsText(t)
    BY <2>3, <2>5 DEF IsText
  <2>7. \A p \in Paths : tree'[p] = NoText \/ IsText(tree'[p])
    BY <1>1, <2>4, <2>6
  <2> QED
    BY <1>1, <2>1, <2>2, <2>7 DEF BatchesOK, IsText
<1>12. CASE UNCHANGED tableVars
  BY <1>2, <1>12 DEF tableVars
<1> QED
  BY <1>3, <1>4, <1>5, <1>6, <1>7, <1>8, <1>9, <1>10, <1>11, <1>12 DEF TableNext

\* A rebuild from the rows takes every old text out.
LEMMA RebuildStep ==
  ASSUME TableRowsOK, RebuildFTS
  PROVE  TableRowsOK' /\ PostedOK'
<1>1. symbols' = symbols
  BY DEF RebuildFTS
<1>2. TableRowsOK'
  BY <1>1 DEF TableRowsOK
<1>3. \A c \in Corpora : postings'[c] = {Posting(symbols[id]) : id \in {i \in DOMAIN symbols :
        ClassifyCorpus(symbols[i].lang) = c /\ symbols[i].lang # "HTML"}}
  BY DEF RebuildFTS
<1>4. \A id \in DOMAIN symbols : symbols[id].lang # "HTML" =>
        Posting(symbols[id]) \in postings'[ClassifyCorpus(symbols[id].lang)]
  BY <1>3, CorpusOfLang
<1>5. \A c \in Corpora : \A x \in postings'[c] : \E id \in DOMAIN symbols :
        x = Posting(symbols[id]) /\ ClassifyCorpus(symbols[id].lang) = c
  BY <1>3
<1> QED
  BY <1>1, <1>2, <1>4, <1>5 DEF PostedOK

\* A step of a pass, a fetch, a rebuild and a touch of the disk keep TableInv.
LEMMA TableStep == TableInv /\ [TableNext]_tableVars => TableInv'
<1> SUFFICES ASSUME TableRowsOK, PostedOK, BatchesOK, [TableNext]_tableVars
             PROVE  TableRowsOK' /\ PostedOK'
  BY BatchesStep DEF TableInv
<1>1. ASSUME UNCHANGED <<symbols, postings, replaced>> PROVE TableRowsOK' /\ PostedOK'
  BY <1>1 DEF TableRowsOK, PostedOK
<1>2. ASSUME NEW syms, BulkUpsertSymbols(<<syms>>) PROVE TableRowsOK' /\ PostedOK'
  <2>1. PICK one : one = <<syms>>
    OBVIOUS
  <2>2. DOMAIN one = 1 .. 1
    BY <2>1
  <2> QED
    BY <1>2, <2>1, <2>2, UpsertStep
<1>3. CASE BeginPass
  BY <1>1, <1>3 DEF BeginPass
<1>4. CASE Walk
  <2>1. PICK gone : DeleteSymbolsForFiles(gone)
    BY <1>4 DEF Walk
  <2> QED
    BY <2>1, DeleteStep
<1>5. CASE FlushBatch
  <2>1. PICK batch \in SUBSET pass.buffer : \E syms \in SetToSeqs(batch) : BulkUpsertSymbols(syms)
    BY <1>5 DEF FlushBatch
  <2>2. PICK syms \in SetToSeqs(batch) : BulkUpsertSymbols(syms)
    BY <2>1
  <2>3. Cardinality(batch) \in Nat
    BY FS_Subset, FS_CardinalityType DEF BatchesOK
  <2>4. DOMAIN syms = 1 .. Cardinality(batch)
    BY DEF SetToSeqs
  <2> QED
    BY <2>2, <2>3, <2>4, UpsertStep
<1>6. CASE ResolveImports
  <2>1. CASE pass.imports
    BY <1>2, <1>6, <2>1 DEF ResolveImports
  <2>2. CASE ~ pass.imports
    <3>1. PICK none : none = <<>>
      OBVIOUS
    <3>2. DOMAIN none = 1 .. 0
      BY <3>1
    <3>3. BulkUpsertSymbols(none)
      BY <1>6, <2>2, <3>1 DEF ResolveImports
    <3> QED
      BY <3>2, <3>3, UpsertStep
  <2> QED
    BY <2>1, <2>2
<1>7. CASE CollectGarbage
  <2>1. PICK gone : DeleteSymbolsForFiles(gone)
    BY <1>7 DEF CollectGarbage
  <2> QED
    BY <2>1, DeleteStep
<1>8. CASE RebuildFTS
  BY <1>8, RebuildStep
<1>9. ASSUME NEW w \in Words, HandleFetch(w) PROVE TableRowsOK' /\ PostedOK'
  BY <1>2, <1>9 DEF HandleFetch
<1>10. ASSUME NEW from, NEW to, Rename(from, to) PROVE TableRowsOK' /\ PostedOK'
  BY <1>1, <1>10 DEF Rename
<1>11. ASSUME NEW path, NEW n, NEW w, Edit(path, n, w) PROVE TableRowsOK' /\ PostedOK'
  BY <1>1, <1>11 DEF Edit
<1>12. CASE UNCHANGED tableVars
  BY <1>1, <1>12 DEF tableVars
<1> QED
  BY <1>3, <1>4, <1>5, <1>6, <1>7, <1>8, <1>9, <1>10, <1>11, <1>12 DEF TableNext

\* At the start the table and the index are empty, for any tree.
LEMMA TableStarts == TableInit => TableInv
<1> SUFFICES ASSUME TableInit PROVE TableInv
  OBVIOUS
<1>1. symbols = <<>> /\ DOMAIN symbols = {}
  BY DEF TableInit
<1>2. TableRowsOK
  <2>1. symbols = [id \in DOMAIN symbols |-> symbols[id]]
    BY <1>1
  <2>2. \A id \in DOMAIN symbols : symbols[id].rowid <= 0
    BY <1>1
  <2> QED
    BY <1>1, <2>1, <2>2 DEF TableRowsOK
<1>3. \A c \in Corpora : postings[c] = {}
  BY DEF TableInit
<1>4. PostedOK
  BY <1>1, <1>3 DEF PostedOK
<1>5. BatchesOK
  BY TableConstantsOK, FS_EmptySet DEF TableInit, NoPass, BatchesOK, IsText
<1> QED
  BY <1>2, <1>4, <1>5 DEF TableInv

\* In every reachable state no two rows have one rowid, every text but an HTML
\* symbol's is in the index of its corpus, and until a row is replaced nothing else is.
THEOREM TableCorrect == TableInit /\ [][TableNext]_tableVars => []TableInv
BY TableStarts, TableStep, PTL

(***************************************************************************)
(* HitsAreHonest: search finds every symbol by its word in the corpus of   *)
(* its language (but HTML symbols, which a rebuild leaves out), and until  *)
(* a row is replaced it finds nothing else.                                *)
(***************************************************************************)
THEOREM HitsHonest == TableInit /\ [][TableNext]_tableVars => []HitsAreHonest
<1>1. TableInv => HitsAreHonest
  <2> SUFFICES ASSUME TableRowsOK, PostedOK PROVE HitsAreHonest
    BY DEF TableInv
  <2>1. \A id \in DOMAIN symbols : symbols[id].lang # "HTML" =>
          id \in SearchSymbolsByCorpus(ClassifyCorpus(symbols[id].lang), symbols[id].word)
    BY DEF PostedOK, Posting, SearchSymbolsByCorpus
  <2>2. ASSUME ~ replaced, NEW c \in Corpora, NEW w, NEW id \in SearchSymbolsByCorpus(c, w)
        PROVE  symbols[id].word = w /\ ClassifyCorpus(symbols[id].lang) = c
    <3>1. id \in DOMAIN symbols /\ <<symbols[id].rowid, w>> \in postings[c]
      BY DEF SearchSymbolsByCorpus
    <3>2. PICK k \in DOMAIN symbols : /\ <<symbols[id].rowid, w>> = Posting(symbols[k])
                                      /\ ClassifyCorpus(symbols[k].lang) = c
      BY <2>2, <3>1 DEF PostedOK
    <3>3. symbols[id].rowid = symbols[k].rowid /\ symbols[k].word = w
      BY <3>2 DEF Posting
    <3>4. k = id
      BY <3>1, <3>3 DEF TableRowsOK
    <3> QED
      BY <3>2, <3>3, <3>4
  <2> QED
    BY <2>1, <2>2 DEF HitsAreHonest
<1> QED
  BY <1>1, TableCorrect, PTL

-----------------------------------------------------------------------------
(* The server.                                                             *)

\* A step of the server is a step of each part, or leaves that part alone.
LEMMA PartsStep ==
  [Next]_vars => /\ [StatsNext]_statsVars /\ [ProjectNext]_projectVars
                 /\ [TableNext]_tableVars /\ [GatewayNext]_gatewayVars
                 /\ [StreamNext]_streamVars
BY DEF Next, vars, CountersRest, ProjectsRest, TableRests, GatewayRests, StreamRests

\* The server's behaviours are behaviours of each part.
LEMMA PartsBehave ==
  Spec => /\ StatsInit /\ [][StatsNext]_statsVars
          /\ ProjectInit /\ [][ProjectNext]_projectVars
          /\ TableInit /\ [][TableNext]_tableVars
          /\ GatewayInit /\ [][GatewayNext]_gatewayVars
          /\ StreamInit /\ [][StreamNext]_streamVars
<1>1. Init => StatsInit /\ ProjectInit /\ TableInit /\ GatewayInit /\ StreamInit
  BY DEF Init
<1> QED
  BY <1>1, PartsStep, PTL DEF Spec

(***************************************************************************)
(* The server as a whole: a session's books balance, every call's event is *)
(* accounted for, a cached project is the one that would be found now, a   *)
(* search finds every symbol and nothing that is not there, no request is  *)
(* refused or let in against the limit, every verb, client and proxy finds *)
(* the same addresses, and a client of the stream that was told of a       *)
(* foreign index knows when it was replaced.                               *)
(***************************************************************************)
THEOREM ServerCorrect ==
  Spec => [](/\ BooksBalance /\ EventsAccounted /\ CacheIsFresh
             /\ HitsAreHonest /\ AdmissionIsExact /\ GatewayIsUniform /\ ToldIsTrue)
BY PartsBehave, BooksCorrect, EventsCorrect, CacheFresh, HitsHonest, AdmissionExact,
   GatewayUniform, ToldCorrect, PTL

(***************************************************************************)
(* SessionIsStored, of the server as a whole: no handler starts to answer  *)
(* about the session's project before its row is in the table.             *)
(***************************************************************************)
THEOREM ServerStores == Spec => SessionIsStored
BY PartsBehave, SessionStored, PTL
=============================================================================
