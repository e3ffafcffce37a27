-------------------------- MODULE Supervisor_proofs --------------------------
(***************************************************************************)
(* Proofs about Supervisor: for any number of requests and of probes, and  *)
(* pipes of any capacity.                                                  *)
(*                                                                         *)
(* That the client does not notice a respawn (RespawnUnnoticed) is not     *)
(* inductive.  A line is answered once because it is in one place only: to *)
(* be sent, in the hands of the client's pump, in a pipe, or answered      *)
(* (OnceOK).  And an inner meets no request before its handshake because   *)
(* the handshake is in its pipe, or behind it, from the moment the         *)
(* supervisor has captured it, but for the line that the pump is still     *)
(* writing (ShakeOK), and a pipe keeps its order (OrderOK).                *)
(***************************************************************************)
EXTENDS Supervisor, SequenceTheorems, TLAPS

\* Where each goroutine is agrees with what it holds.
PlaceOK ==
    /\ cpc \in {"write", "blocked"} => line \in ClientLine \ {"status"}
    /\ cpc \in {"read", "done"} => line = None
    /\ ppc \in {"write", "blocked"} => probe \in ProbeId
    /\ pump # "done" => history <= MaxRestarts

InPipe(p, l) == \E i \in DOMAIN p.in : p.in[i] = Client(l)
OutPipe(p, l) == \E i \in DOMAIN p.out : p.out[i] = Client(l)

\* A line of the client is in one place.
OnceOK ==
    /\ \A l \in ClientLine :
          /\ got[l] \in {0, 1}
          /\ l \in unsent => got[l] = 0 /\ line # l
          /\ line = l => got[l] = 0
          /\ InPipe(inner, l) => got[l] = 0 /\ line # l /\ l \notin unsent /\ ~ OutPipe(inner, l)
          /\ OutPipe(inner, l) => got[l] = 0 /\ line # l /\ l \notin unsent
          /\ \A i, j \in DOMAIN inner.in :
                inner.in[i] = Client(l) /\ inner.in[j] = Client(l) => i = j
          /\ \A i, j \in DOMAIN inner.out :
                inner.out[i] = Client(l) /\ inner.out[j] = Client(l) => i = j
    /\ got["probe"] = 0 /\ got["replay"] = 0

HasInit(p) == p.hs # "new" \/ \E i \in DOMAIN p.in : p.in[i].id = "initialize"
HasInitialized(p) == p.hs = "ready" \/ \E i \in DOMAIN p.in : p.in[i].id = "initialized"

\* The handshake comes before any request.
OrderOK(p) ==
    \A i \in DOMAIN p.in :
        /\ p.in[i].id = "initialized" =>
              p.hs # "new" \/ \E j \in 1 .. (i - 1) : p.in[j].id = "initialize"
        /\ p.in[i].id \in Request =>
              p.hs = "ready" \/ \E j \in 1 .. (i - 1) : p.in[j].id = "initialized"

\* What has been captured of the handshake is what the client has sent of it,
\* and every inner has it, or is about to.
ShakeOK ==
    /\ initParams <=> "initialize" \notin unsent
    /\ initialized <=> "initialized" \notin unsent
    /\ initialized => initParams
    /\ (\E r \in Request : r \notin unsent) => initialized
    /\ Alive /\ initParams => HasInit(inner) \/ line = "initialize"
    /\ Alive /\ initialized => HasInitialized(inner) \/ line = "initialized"
    /\ OrderOK(inner)

SupervisorInv == TypeOK /\ PlaceOK /\ OnceOK /\ ShakeOK

-----------------------------------------------------------------------------
(* Lines and pipes.                                                        *)

\* The kinds of lines do not overlap.
LEMMA Names ==
  /\ "initialize" \in ClientLine /\ "initialized" \in ClientLine /\ Request \subseteq ClientLine
  /\ ClientLine \subseteq Received /\ "probe" \notin ClientLine /\ "replay" \notin ClientLine
  /\ None \notin ClientLine /\ ProbeId \cap ClientLine = {}
  /\ "probe" \in Received /\ "replay" \in Received
  /\ "initialize" \notin Request /\ "initialized" \notin Request
  /\ \A l, k : Client(l) = Client(k) <=> l = k
  /\ \A l, k : Client(l) # Replay(k) /\ Client(l) # Probe(k)
BY ConstantsOK DEF ClientLine, Received, Client, Replay, Probe

\* The lines there are.
LEMMA Lines ==
  /\ \A l \in ClientLine \ {"status"} : Client(l) \in ToInner /\ Client(l).id = l /\ Client(l).kind = "client"
  /\ \A q \in ProbeId : Probe(q) \in ToInner /\ Probe(q).id = q /\ Probe(q).kind = "probe"
  /\ \A l \in {"initialize", "initialized"} :
        Replay(l) \in ToInner /\ Replay(l).id = l /\ Replay(l).kind = "replay"
  /\ \A m \in ToInner : m.kind \notin {"probe", "replay"}
        => m.id \in ClientLine /\ m = Client(m.id)
BY DEF ToInner, Client, Probe, Replay

\* A sequence without its head, and with another element.
LEMMA Pipes ==
  ASSUME NEW S, NEW s \in Seq(S)
  PROVE  /\ s # <<>> => /\ Len(s) \in Nat /\ Len(s) >= 1 /\ Head(s) = s[1] /\ Head(s) \in S /\ 1 \in DOMAIN s
                        /\ Tail(s) \in Seq(S) /\ DOMAIN Tail(s) = 1 .. (Len(s) - 1)
                        /\ \A i \in 1 .. (Len(s) - 1) : Tail(s)[i] = s[i + 1]
         /\ DOMAIN s = 1 .. Len(s) /\ Len(s) \in Nat
         /\ \A e \in S : /\ Append(s, e) \in Seq(S)
                         /\ DOMAIN Append(s, e) = 1 .. (Len(s) + 1)
                         /\ Append(s, e)[Len(s) + 1] = e
                         /\ \A i \in 1 .. Len(s) : Append(s, e)[i] = s[i]
OBVIOUS

\* The handshake that a respawn replays.
LEMMA ReplayedLines ==
  ASSUME initParams \in BOOLEAN, initialized \in BOOLEAN
  PROVE  /\ Replayed \in Seq(ToInner)
         /\ \A i \in DOMAIN Replayed : \A l : Replayed[i] # Client(l)
         /\ \A i \in DOMAIN Replayed : Replayed[i].id \notin Request
         /\ initParams => 1 \in DOMAIN Replayed /\ Replayed[1].id = "initialize"
         /\ initialized /\ initParams => 2 \in DOMAIN Replayed /\ Replayed[2].id = "initialized"
         /\ \A i \in DOMAIN Replayed :
                (Replayed[i].id = "initialized" /\ initParams) => i = 2
         /\ ~ initialized => \A i \in DOMAIN Replayed : Replayed[i].id # "initialized"
<1> DEFINE a == Replay("initialize")
           b == Replay("initialized")
<1>1. /\ a \in ToInner /\ b \in ToInner /\ a.id = "initialize" /\ b.id = "initialized"
  BY Lines
<1>2. /\ \A l : a # Client(l) /\ b # Client(l)
      /\ a.id \notin Request /\ b.id \notin Request
  BY <1>1, Names
<1>3. Replayed = (IF initParams THEN <<a>> ELSE <<>>) \o (IF initialized THEN <<b>> ELSE <<>>)
  BY DEF Replayed
<1> HIDE DEF a, b
<1>4. /\ <<a>> \o <<b>> = <<a, b>> /\ <<a>> \o <<>> = <<a>> /\ <<>> \o <<b>> = <<b>>
      /\ <<>> \o <<>> = <<>>
  <2>1. <<a>> \in Seq(ToInner) /\ <<b>> \in Seq(ToInner) /\ <<>> \in Seq(ToInner)
    BY <1>1
  <2>2. <<a>> \o <<>> = <<a>> /\ <<>> \o <<b>> = <<b>> /\ <<>> \o <<>> = <<>>
    BY <2>1
  <2>3. <<a>> \o <<b>> = <<a, b>>
    <3>1. <<a>> \o <<b>> \in Seq(ToInner) /\ <<a, b>> \in Seq(ToInner)
      BY <1>1, <2>1
    <3>2. /\ Len(<<a>> \o <<b>>) = 2 /\ Len(<<a, b>>) = 2
          /\ (<<a>> \o <<b>>)[1] = a /\ (<<a>> \o <<b>>)[2] = b
      BY <2>1
    <3> DEFINE s == <<a>> \o <<b>>
               t == <<a, b>>
    <3>3. \A i \in 1 .. Len(s) : s[i] = t[i]
      BY <3>2
    <3>4. s \in Seq(ToInner) /\ t \in Seq(ToInner) /\ Len(s) = Len(t)
      BY <3>1, <3>2
    <3>5. s = t
      <4> HIDE DEF s, t
      <4> QED
        BY <3>3, <3>4, SeqEqual
    <3> QED
      BY <3>5
  <2> QED
    BY <2>2, <2>3
<1>5. CASE initParams /\ initialized
  <2>1. Replayed = <<a, b>>
    BY <1>3, <1>4, <1>5
  <2> QED
    BY <1>1, <1>2, <1>5, <2>1
<1>6. CASE initParams /\ ~ initialized
  <2>1. Replayed = <<a>>
    BY <1>3, <1>4, <1>6
  <2> QED
    BY <1>1, <1>2, <1>6, <2>1
<1>7. CASE ~ initParams /\ initialized
  <2>1. Replayed = <<b>>
    BY <1>3, <1>4, <1>7
  <2> QED
    BY <1>1, <1>2, <1>7, <2>1
<1>8. CASE ~ initParams /\ ~ initialized
  <2>1. Replayed = <<>>
    BY <1>3, <1>4, <1>8
  <2> QED
    BY <1>8, <2>1
<1> QED
  BY <1>5, <1>6, <1>7, <1>8

-----------------------------------------------------------------------------
(* The inner.                                                              *)

\* What an inner keeps as it takes in a line, answers one, or ends.
LEMMA InnerTypes ==
  ASSUME NEW p \in Inner
  PROVE  /\ p.st \in InnerState /\ p.in \in Seq(ToInner) /\ p.out \in Seq(FromInner)
         /\ p.hs \in Handshake /\ p.probes \in SUBSET ProbeId
         /\ Dead(p) \in Inner /\ Dead(p).in = <<>> /\ Dead(p).out = p.out /\ Dead(p).st = "dead"
         /\ \A m \in ToInner, Q \in SUBSET ProbeId :
                [p EXCEPT !.in = Append(@, m), !.probes = Q] \in Inner
         /\ [p EXCEPT !.st = "hung"] \in Inner
<1>1. /\ p.st \in InnerState /\ p.in \in Seq(ToInner) /\ p.out \in Seq(FromInner)
      /\ p.hs \in Handshake /\ p.probes \in SUBSET ProbeId
      /\ p = [st |-> p.st, in |-> p.in, out |-> p.out, hs |-> p.hs, probes |-> p.probes]
  BY DEF Inner
<1>2. <<>> \in Seq(ToInner) /\ "dead" \in InnerState /\ "hung" \in InnerState
  BY DEF InnerState
<1>3. /\ Dead(p) \in Inner /\ Dead(p).in = <<>> /\ Dead(p).out = p.out /\ Dead(p).st = "dead"
      /\ [p EXCEPT !.st = "hung"] \in Inner
  BY <1>1, <1>2 DEF Inner, Dead
<1>4. ASSUME NEW m \in ToInner, NEW Q \in SUBSET ProbeId
      PROVE  [p EXCEPT !.in = Append(@, m), !.probes = Q] \in Inner
  <2>1. Append(p.in, m) \in Seq(ToInner)
    BY <1>1
  <2> QED
    BY <1>1, <2>1 DEF Inner
<1> QED
  BY <1>1, <1>3, <1>4

\* A new inner, and none.
LEMMA NewInner ==
  /\ \A in \in Seq(ToInner) : /\ Fresh(in) \in Inner /\ Fresh(in).in = in
                              /\ Fresh(in).out = <<>> /\ Fresh(in).hs = "new" /\ Fresh(in).st = "up"
  /\ NoInner \in Inner /\ NoInner.in = <<>> /\ NoInner.out = <<>> /\ NoInner.st = "none"
<1>1. <<>> \in Seq(ToInner) /\ <<>> \in Seq(FromInner)
  OBVIOUS
<1> QED
  BY <1>1 DEF Fresh, NoInner, Inner, InnerState, Handshake

\* What a step of the inner's own makes of it.
LEMMA Consumed ==
  ASSUME TypeOK, Consume
  PROVE  /\ inner' \in Inner /\ inner.in # <<>> /\ inner'.st = inner.st /\ inner'.in = Tail(inner.in)
         /\ inner'.hs = After(inner.hs, Head(inner.in))
         /\ inner'.out = IF Head(inner.in).id = "initialized" THEN inner.out
                         ELSE Append(inner.out, Head(inner.in))
<1>1. /\ inner \in Inner /\ inner.in # <<>> /\ inner.in \in Seq(ToInner)
      /\ inner.out \in Seq(FromInner) /\ inner.hs \in Handshake
  BY InnerTypes DEF TypeOK, Consume
<1> DEFINE m == Head(inner.in)
           in == Tail(inner.in)
           hs == After(inner.hs, m)
           out == IF m.id = "initialized" THEN inner.out ELSE Append(inner.out, m)
<1>2. m \in ToInner /\ in \in Seq(ToInner)
  BY <1>1, Pipes
<1>3. hs \in Handshake
  BY <1>1 DEF After, Handshake
<1>4. out \in Seq(FromInner)
  BY <1>1, <1>2 DEF FromInner
<1>5. inner' = [inner EXCEPT !.in = in, !.hs = hs, !.out = out]
  BY DEF Consume
<1> HIDE DEF m, in, hs, out
<1>6. /\ inner' \in Inner /\ inner'.st = inner.st /\ inner'.in = in
      /\ inner'.hs = hs /\ inner'.out = out
  BY <1>1, <1>2, <1>3, <1>4, <1>5 DEF Inner
<1> QED
  BY <1>1, <1>6 DEF m, in, hs, out

\* A write that is taken.
LEMMA Taken ==
  ASSUME TypeOK, NEW m \in ToInner, m.kind = "probe" => m.id \in ProbeId, WriteTakes(m)
  PROVE  /\ inner' \in Inner /\ inner'.st = inner.st /\ inner'.in = Append(inner.in, m)
         /\ inner'.hs = inner.hs /\ inner'.out = inner.out /\ inner.st \in {"up", "hung"}
<1>1. /\ inner \in Inner /\ inner.in \in Seq(ToInner) /\ inner.probes \in SUBSET ProbeId
  BY InnerTypes DEF TypeOK
<1> DEFINE Q == IF m.kind = "probe" THEN inner.probes \cup {m.id} ELSE inner.probes
           in == Append(inner.in, m)
<1>2. Q \in SUBSET ProbeId /\ in \in Seq(ToInner)
  BY <1>1
<1>3. inner' = [inner EXCEPT !.in = in, !.probes = Q]
  BY DEF WriteTakes
<1> HIDE DEF Q, in
<1>4. inner' \in Inner /\ inner'.st = inner.st /\ inner'.in = in
      /\ inner'.hs = inner.hs /\ inner'.out = inner.out
  BY <1>1, <1>2, <1>3 DEF Inner
<1> QED
  BY <1>4 DEF in, WriteTakes, Alive

\* A line that is forwarded.
LEMMA Forwarded ==
  ASSUME TypeOK, Forward
  PROVE  /\ inner' \in Inner /\ inner.out # <<>> /\ inner'.st = inner.st /\ inner'.in = inner.in
         /\ inner'.hs = inner.hs /\ inner'.out = Tail(inner.out)
<1>1. inner \in Inner /\ inner.out \in Seq(FromInner) /\ inner.out # <<>>
  BY InnerTypes DEF TypeOK, Forward
<1>2. Tail(inner.out) \in Seq(FromInner)
  BY <1>1
<1>3. inner' = [inner EXCEPT !.out = Tail(inner.out)]
  BY DEF Forward
<1> QED
  BY <1>1, <1>2, <1>3 DEF Inner

-----------------------------------------------------------------------------
(* Types and places.                                                       *)

\* Every step keeps them.
LEMMA TypeStep == TypeOK /\ PlaceOK /\ [Next]_vars => TypeOK' /\ PlaceOK'
<1> SUFFICES ASSUME TypeOK, PlaceOK, [Next]_vars PROVE TypeOK' /\ PlaceOK'
  OBVIOUS
<1> USE DEF clientVars, probeVars, runVars
<1>0. /\ inner \in Inner /\ got \in [Received -> 0 .. 2] /\ history \in 0 .. MaxRestarts + 1
      /\ MaxRestarts \in Nat /\ "status" \in Received /\ "status" \in ClientLine
  BY ConstantsOK DEF TypeOK, Received, ClientLine
<1>a. ASSUME NEW r \in Received, Deliver(r) PROVE got' \in [Received -> 0 .. 2]
  BY <1>0, <1>a DEF Deliver
<1>1. CASE ReadLine
  <2>1. PICK l \in ClientLine :
          /\ unsent' = unsent \ {l}
          /\ initParams' = (initParams \/ l = "initialize")
          /\ initialized' = (initialized \/ l = "initialized")
          /\ IF l = "status"
                THEN Deliver(l) /\ cpc' = NextRead /\ UNCHANGED line
                ELSE cpc' = "write" /\ line' = l /\ UNCHANGED got
    BY <1>1 DEF ReadLine
  <2>2. got' \in [Received -> 0 .. 2]
    BY <1>0, <1>a, <2>1
  <2>3. cpc = "read" /\ UNCHANGED <<runVars, pump, probeVars, inner, history>>
    BY <1>1 DEF ReadLine
  <2>4. initParams' \in BOOLEAN /\ initialized' \in BOOLEAN /\ unsent' \in SUBSET ClientLine
    BY <2>1 DEF TypeOK
  <2> QED
    BY <2>1, <2>2, <2>3, <2>4 DEF TypeOK, PlaceOK, NextRead
<1>2. CASE WriteLine
  <2>1. line \in ClientLine \ {"status"} /\ cpc \in {"write", "blocked"}
    BY <1>2 DEF WriteLine, PlaceOK
  <2>2. inner' \in Inner
    <3>1. CASE WriteTakes(Client(line))
      BY <2>1, <3>1, Lines, Taken
    <3> QED
      BY <1>0, <1>2, <3>1 DEF WriteLine
  <2>3. /\ UNCHANGED <<runVars, pump, unsent, initParams, initialized, probeVars, history, got>>
        /\ \/ cpc' \in {"read", "done"} /\ line' = None
           \/ cpc' = "blocked" /\ UNCHANGED line
    BY <1>2 DEF WriteLine, NextRead
  <2> QED
    BY <2>1, <2>2, <2>3 DEF TypeOK, PlaceOK
<1>3. CASE ClientEOF
  BY <1>3 DEF ClientEOF, TypeOK, PlaceOK
<1>4. CASE Forward
  <2>1. inner' \in Inner
    BY <1>4, Forwarded
  <2>2. got' \in [Received -> 0 .. 2]
    BY <1>0, <1>4 DEF Forward, Deliver
  <2>3. /\ pendingProbe' \in {pendingProbe, None}
        /\ UNCHANGED <<runVars, pump, clientVars, ppc, probe, timers, killing, history>>
    BY <1>4 DEF Forward
  <2> QED
    BY <2>1, <2>2, <2>3 DEF TypeOK, PlaceOK
<1>5. CASE InnerEOF \/ CheckShutdown
  BY <1>5 DEF InnerEOF, CheckShutdown, TypeOK, PlaceOK
<1>6. CASE Respawn
  <2>1. inner' \in Inner
    BY <1>0, <1>6, ReplayedLines, NewInner DEF Respawn, TypeOK
  <2> QED
    BY <1>6, <2>1 DEF Respawn, TypeOK, PlaceOK
<1>7. CASE CountRestart
  <2>1. history <= MaxRestarts
    BY <1>7 DEF CountRestart, PlaceOK
  <2>2. history' \in 0 .. MaxRestarts + 1 /\ pump' \in {"done", "forward"}
        /\ (pump' # "done" => history' <= MaxRestarts)
    BY <1>0, <1>7, <2>1 DEF CountRestart
  <2> QED
    BY <1>7, <2>2 DEF CountRestart, TypeOK, PlaceOK
<1>8. CASE RestartAges
  BY <1>0, <1>8 DEF RestartAges, TypeOK, PlaceOK
<1>9. CASE SendProbe
  BY <1>9 DEF SendProbe, TypeOK, PlaceOK
<1>10. CASE WriteProbe
  <2>1. probe \in ProbeId
    BY <1>10 DEF WriteProbe, PlaceOK
  <2>2. inner' \in Inner
    <3>1. CASE WriteTakes(Probe(probe))
      BY <2>1, <3>1, Lines, Taken
    <3> QED
      BY <1>0, <1>10, <3>1 DEF WriteProbe
  <2>3. /\ UNCHANGED <<runVars, pump, clientVars, killing, history, got>>
        /\ pendingProbe' \in {pendingProbe, None} /\ timers' \subseteq timers \cup {probe}
        /\ \/ ppc' = "idle" /\ probe' = None
           \/ ppc' = "blocked" /\ UNCHANGED probe
    BY <1>10 DEF WriteProbe
  <2> QED
    BY <2>1, <2>2, <2>3 DEF TypeOK, PlaceOK
<1>11. ASSUME NEW p \in ProbeId, ProbeTimeout(p) PROVE TypeOK' /\ PlaceOK'
  BY <1>11 DEF ProbeTimeout, TypeOK, PlaceOK
<1>12. ASSUME NEW p \in ProbeId, KillInner(p) PROVE TypeOK' /\ PlaceOK'
  <2>1. inner' \in Inner
    BY <1>0, <1>12, InnerTypes DEF KillInner
  <2> QED
    BY <1>12, <2>1 DEF KillInner, TypeOK, PlaceOK
<1>13. CASE Select \/ Return \/ Signal
  <2>1. CASE Select
    BY <2>1 DEF Select, TypeOK, PlaceOK
  <2>2. CASE Return
    BY <2>2 DEF Return, TypeOK, PlaceOK
  <2>3. CASE Signal
    BY <2>3 DEF Signal, TypeOK, PlaceOK
  <2> QED
    BY <1>13, <2>1, <2>2, <2>3
<1>14. CASE ShutdownInner
  BY <1>14, NewInner DEF ShutdownInner, TypeOK, PlaceOK
<1>15. CASE Consume
  <2>1. inner' \in Inner
    BY <1>15, Consumed
  <2> QED
    BY <1>15, <2>1 DEF Consume, TypeOK, PlaceOK
<1>16. CASE Exit \/ Hang
  <2>1. inner' \in Inner
    BY <1>0, <1>16, InnerTypes DEF Exit, Hang
  <2> QED
    BY <1>16, <2>1 DEF Exit, Hang, TypeOK, PlaceOK
<1>17. CASE UNCHANGED vars
  BY <1>17 DEF vars, TypeOK, PlaceOK
<1> QED
  BY <1>1, <1>2, <1>3, <1>4, <1>5, <1>6, <1>7, <1>8, <1>9, <1>10, <1>11, <1>12, <1>13,
     <1>14, <1>15, <1>16, <1>17
  DEF Next, ClientPump, InnerPump, Probing, Timing, Running

-----------------------------------------------------------------------------
(* Lines of the client.                                                    *)

Single(q, l) == \A i, j \in DOMAIN q : (q[i] = Client(l) /\ q[j] = Client(l)) => i = j

\* Lines may get lost, and other lines may join them.
LEMMA OnceLess ==
  ASSUME OnceOK, UNCHANGED got, unsent' \subseteq unsent, line' \in {line, None},
         \A l \in ClientLine : /\ InPipe(inner, l)' => InPipe(inner, l)
                               /\ OutPipe(inner, l)' => OutPipe(inner, l)
                               /\ Single(inner'.in, l) /\ Single(inner'.out, l)
  PROVE  OnceOK'
BY Names DEF OnceOK, Single

\* Every step keeps a line in one place.
LEMMA OnceStep == TypeOK /\ PlaceOK /\ OnceOK /\ [Next]_vars => OnceOK'
<1> SUFFICES ASSUME TypeOK, PlaceOK, OnceOK, [Next]_vars PROVE OnceOK'
  OBVIOUS
<1> USE DEF clientVars, probeVars, runVars
<1>0. /\ inner \in Inner /\ inner.in \in Seq(ToInner) /\ inner.out \in Seq(FromInner)
      /\ got \in [Received -> 0 .. 2]
      /\ \A l \in ClientLine : Single(inner.in, l) /\ Single(inner.out, l)
  BY InnerTypes DEF TypeOK, OnceOK, Single
<1>a. ASSUME UNCHANGED <<inner, line, unsent, got>> PROVE OnceOK'
  BY <1>a DEF OnceOK, InPipe, OutPipe
<1>b. ASSUME UNCHANGED <<unsent, got>>, line' \in {line, None},
             inner'.in = <<>>, inner'.out = inner.out \/ inner'.out = <<>>
      PROVE  OnceOK'
  BY <1>0, <1>b, OnceLess DEF InPipe, OutPipe, Single
<1>1. CASE ReadLine
  <2>1. PICK l \in ClientLine :
          /\ l \in unsent /\ unsent' = unsent \ {l}
          /\ IF l = "status" THEN Deliver(l) /\ UNCHANGED line ELSE line' = l /\ UNCHANGED got
    BY <1>1 DEF ReadLine, MaySend
  <2>2. UNCHANGED inner /\ line = None
    BY <1>1 DEF ReadLine, PlaceOK
  <2>3. got[l] = 0 /\ ~ InPipe(inner, l) /\ ~ OutPipe(inner, l)
    BY <2>1 DEF OnceOK
  <2>4. CASE l = "status"
    <3>1. got' = [got EXCEPT ![l] = 1] /\ UNCHANGED line
      BY <2>1, <2>3, <2>4, <1>0, Names DEF Deliver
    <3>2. /\ got'[l] = 1 /\ \A k \in Received : k # l => got'[k] = got[k]
          /\ l \notin {"probe", "replay"}
      BY <1>0, <2>4, <3>1, Names
    <3> QED
      BY <2>1, <2>2, <2>3, <3>1, <3>2, Names DEF OnceOK, InPipe, OutPipe
  <2>5. CASE l # "status"
    BY <2>1, <2>2, <2>3, <2>5 DEF OnceOK, InPipe, OutPipe
  <2> QED
    BY <2>4, <2>5
<1>2. CASE WriteLine
  <2>1. /\ line \in ClientLine \ {"status"} /\ UNCHANGED <<unsent, got>>
        /\ line' \in {line, None}
    BY <1>2 DEF WriteLine, PlaceOK
  <2>2. CASE UNCHANGED inner
    BY <1>0, <2>1, <2>2, OnceLess DEF InPipe, OutPipe
  <2>3. CASE WriteTakes(Client(line)) /\ line' = None
    <3>1. /\ inner'.in = Append(inner.in, Client(line)) /\ inner'.out = inner.out
          /\ Client(line) \in ToInner
      BY <2>1, <2>3, Lines, Taken
    <3>2. /\ DOMAIN inner.in = 1 .. Len(inner.in) /\ Len(inner.in) \in Nat
          /\ DOMAIN inner'.in = 1 .. (Len(inner.in) + 1)
          /\ inner'.in[Len(inner.in) + 1] = Client(line)
          /\ \A i \in 1 .. Len(inner.in) : inner'.in[i] = inner.in[i]
      BY <1>0, <3>1, Pipes
    <3>3. got[line] = 0 /\ line \notin unsent /\ ~ InPipe(inner, line) /\ ~ OutPipe(inner, line)
      BY <2>1 DEF OnceOK
    <3>4. ASSUME NEW l \in ClientLine PROVE Single(inner'.in, l)
      <4>1. CASE l = line
        BY <3>2, <3>3, <4>1 DEF Single, InPipe
      <4>2. CASE l # line
        BY SMTT(60), <1>0, <3>2, <4>2, Names DEF Single
      <4> QED
        BY <4>1, <4>2
    <3>5. \A l \in ClientLine : InPipe(inner, l)' => InPipe(inner, l) \/ l = line
      BY <3>2, Names DEF InPipe
    <3>6. \A l : OutPipe(inner, l)' <=> OutPipe(inner, l)
      BY <3>1 DEF OutPipe
    <3>7. \A l \in ClientLine : Single(inner'.out, l)
      BY <1>0, <3>1
    <3> QED
      BY <2>1, <2>3, <3>3, <3>4, <3>5, <3>6, <3>7, Names DEF OnceOK, Single
  <2> QED
    BY <1>2, <2>2, <2>3 DEF WriteLine
<1>3. CASE Consume
  <2>1. /\ inner.in # <<>> /\ inner'.in = Tail(inner.in)
        /\ inner'.out = IF Head(inner.in).id = "initialized" THEN inner.out
                        ELSE Append(inner.out, Head(inner.in))
        /\ UNCHANGED <<line, unsent, got>>
    BY <1>3, Consumed DEF Consume
  <2> DEFINE m == Head(inner.in)
             n == Len(inner.in)
             o == Len(inner.out)
  <2>2. /\ DOMAIN inner.in = 1 .. n /\ n \in Nat /\ n >= 1 /\ m = inner.in[1] /\ m \in ToInner
        /\ DOMAIN inner'.in = 1 .. (n - 1)
        /\ \A i \in 1 .. (n - 1) : inner'.in[i] = inner.in[i + 1]
    BY <1>0, <2>1, Pipes
  <2>3. /\ DOMAIN inner.out = 1 .. o /\ o \in Nat
        /\ \/ inner'.out = inner.out
           \/ /\ DOMAIN inner'.out = 1 .. (o + 1) /\ inner'.out[o + 1] = m
              /\ \A i \in 1 .. o : inner'.out[i] = inner.out[i]
    <3>1. CASE m.id = "initialized"
      BY <1>0, <2>1, <3>1, Pipes
    <3>2. CASE m.id # "initialized"
      <4>1. m \in FromInner /\ inner'.out = Append(inner.out, m)
        BY <2>1, <2>2, <3>2 DEF FromInner
      <4> QED
        BY <1>0, <4>1, Pipes
    <3> QED
      BY <3>1, <3>2
  <2> HIDE DEF m, n, o
  <2>4. ASSUME NEW l \in ClientLine
        PROVE  /\ InPipe(inner, l)' => InPipe(inner, l) /\ m # Client(l)
               /\ OutPipe(inner, l)' => OutPipe(inner, l) \/ m = Client(l)
               /\ m = Client(l) => InPipe(inner, l)
               /\ Single(inner'.in, l)
    <3>1. InPipe(inner, l)' => InPipe(inner, l) /\ m # Client(l)
      <4> SUFFICES ASSUME InPipe(inner, l)' PROVE InPipe(inner, l) /\ m # Client(l)
        OBVIOUS
      <4>1. PICK i \in 1 .. (n - 1) : inner'.in[i] = Client(l)
        BY <2>2 DEF InPipe
      <4>2. i + 1 \in 1 .. n /\ 1 \in 1 .. n /\ inner.in[i + 1] = Client(l) /\ i + 1 # 1
        BY <2>2, <4>1
      <4> QED
        BY <1>0, <2>2, <4>2 DEF InPipe, Single
    <3>2. OutPipe(inner, l)' => OutPipe(inner, l) \/ m = Client(l)
      <4>1. CASE inner'.out = inner.out
        BY <4>1 DEF OutPipe
      <4>2. CASE inner'.out # inner.out
        BY <2>3, <4>2 DEF OutPipe
      <4> QED
        BY <4>1, <4>2
    <3>3. m = Client(l) => InPipe(inner, l)
      <4>1. 1 \in DOMAIN inner.in /\ inner.in[1] = m
        BY <2>2
      <4> QED
        BY <4>1 DEF InPipe
    <3>4. Single(inner'.in, l)
      <4> SUFFICES ASSUME NEW i \in 1 .. (n - 1), NEW j \in 1 .. (n - 1),
                          inner'.in[i] = Client(l), inner'.in[j] = Client(l)
                   PROVE  i = j
        BY <2>2 DEF Single
      <4>1. /\ i + 1 \in 1 .. n /\ j + 1 \in 1 .. n
            /\ inner.in[i + 1] = Client(l) /\ inner.in[j + 1] = Client(l)
        BY <2>2
      <4>2. i + 1 = j + 1
        BY <1>0, <2>2, <4>1 DEF Single
      <4> QED
        BY <4>2
    <3> QED
      BY <3>1, <3>2, <3>3, <3>4
  <2>5. ASSUME NEW l \in ClientLine PROVE Single(inner'.out, l)
    <3>1. CASE inner'.out = inner.out
      BY <1>0, <3>1
    <3>2. CASE inner'.out # inner.out
      <4>1. m = Client(l) => ~ OutPipe(inner, l)
        BY <2>4 DEF OnceOK
      <4> QED
        BY SMTT(60), <1>0, <2>3, <3>2, <4>1 DEF Single, OutPipe
    <3> QED
      BY <3>1, <3>2
  <2> QED
    BY <2>1, <2>4, <2>5 DEF OnceOK, Single
<1>4. CASE Forward
  <2>1. /\ inner.out # <<>> /\ inner'.in = inner.in /\ inner'.out = Tail(inner.out)
        /\ UNCHANGED <<line, unsent>>
    BY <1>4, Forwarded DEF Forward
  <2> DEFINE m == Head(inner.out)
             o == Len(inner.out)
  <2>2. /\ DOMAIN inner.out = 1 .. o /\ o \in Nat /\ o >= 1 /\ m = inner.out[1] /\ m \in ToInner
        /\ DOMAIN inner'.out = 1 .. (o - 1)
        /\ \A i \in 1 .. (o - 1) : inner'.out[i] = inner.out[i + 1]
    BY <1>0, <2>1, Pipes DEF FromInner
  <2>3. \/ m.kind \in {"probe", "replay"} /\ UNCHANGED got
        \/ m.kind \notin {"probe", "replay"} /\ Deliver(m.id)
    BY <1>4 DEF Forward
  <2> HIDE DEF m, o
  <2>4. ASSUME NEW l \in ClientLine
        PROVE  /\ OutPipe(inner, l)' => OutPipe(inner, l) /\ m # Client(l)
               /\ m = Client(l) => OutPipe(inner, l)
               /\ Single(inner'.out, l)
    <3>1. OutPipe(inner, l)' => OutPipe(inner, l) /\ m # Client(l)
      <4> SUFFICES ASSUME OutPipe(inner, l)' PROVE OutPipe(inner, l) /\ m # Client(l)
        OBVIOUS
      <4>1. PICK i \in 1 .. (o - 1) : inner'.out[i] = Client(l)
        BY <2>2 DEF OutPipe
      <4>2. i + 1 \in 1 .. o /\ 1 \in 1 .. o /\ inner.out[i + 1] = Client(l) /\ i + 1 # 1
        BY <2>2, <4>1
      <4> QED
        BY <1>0, <2>2, <4>2 DEF OutPipe, Single
    <3>2. m = Client(l) => OutPipe(inner, l)
      <4>1. 1 \in DOMAIN inner.out /\ inner.out[1] = m
        BY <2>2
      <4> QED
        BY <4>1 DEF OutPipe
    <3>3. Single(inner'.out, l)
      <4> SUFFICES ASSUME NEW i \in 1 .. (o - 1), NEW j \in 1 .. (o - 1),
                          inner'.out[i] = Client(l), inner'.out[j] = Client(l)
                   PROVE  i = j
        BY <2>2 DEF Single
      <4>1. /\ i + 1 \in 1 .. o /\ j + 1 \in 1 .. o
            /\ inner.out[i + 1] = Client(l) /\ inner.out[j + 1] = Client(l)
        BY <2>2
      <4>2. i + 1 = j + 1
        BY <1>0, <2>2, <4>1 DEF Single
      <4> QED
        BY <4>2
    <3> QED
      BY <3>1, <3>2, <3>3
  <2>5. \A l : InPipe(inner, l)' <=> InPipe(inner, l)
    BY <2>1 DEF InPipe
  <2>6. \A l \in ClientLine : Single(inner'.in, l)
    BY <1>0, <2>1
  <2>7. CASE UNCHANGED got
    BY <2>1, <2>4, <2>5, <2>6, <2>7, OnceLess
  <2>8. CASE m.kind \notin {"probe", "replay"} /\ Deliver(m.id)
    <3>1. PICK l \in ClientLine : l = m.id /\ m = Client(l)
      BY <2>2, <2>8, Lines
    <3>2. OutPipe(inner, l)
      BY <2>4, <3>1
    <3>3. got[l] = 0 /\ line # l /\ l \notin unsent /\ ~ InPipe(inner, l)
      BY <3>1, <3>2 DEF OnceOK
    <3>4. got' = [got EXCEPT ![l] = 1]
      <4>1. got' = [got EXCEPT ![l] = IF got[l] < 2 THEN got[l] + 1 ELSE 2]
        BY <2>8, <3>1 DEF Deliver
      <4>2. (IF got[l] < 2 THEN got[l] + 1 ELSE 2) = 1
        BY <3>3
      <4> QED
        BY <4>1, <4>2
    <3>5. /\ got'[l] = 1 /\ \A k \in Received : k # l => got'[k] = got[k]
          /\ l \notin {"probe", "replay"}
      BY <1>0, <3>1, <3>4, Names
    <3>6. ~ OutPipe(inner, l)'
      BY <2>4, <3>1
    <3>7. ASSUME NEW k \in ClientLine, k # l
          PROVE  got'[k] = got[k] /\ (OutPipe(inner, k)' => OutPipe(inner, k))
      BY <2>4, <3>5, <3>7, Names
    <3> QED
      BY <2>1, <2>4, <2>5, <2>6, <3>1, <3>3, <3>5, <3>6, <3>7, Names DEF OnceOK, Single
  <2> QED
    BY <2>3, <2>7, <2>8
<1>5. CASE Respawn
  <2>1. CASE UNCHANGED inner
    BY <1>5, <1>a, <2>1 DEF Respawn
  <2>2. CASE inner' = Fresh(Replayed)
    <3>1. /\ inner'.in = Replayed /\ inner'.out = <<>> /\ UNCHANGED <<line, unsent, got>>
          /\ \A i \in DOMAIN Replayed : \A l : Replayed[i] # Client(l)
      BY <1>5, <2>2, ReplayedLines, NewInner DEF Respawn, TypeOK
    <3> QED
      BY <3>1, OnceLess DEF InPipe, OutPipe, Single
  <2> QED
    BY <1>5, <2>1, <2>2 DEF Respawn
<1>6. CASE WriteProbe
  <2>1. UNCHANGED <<line, unsent, got>> /\ probe \in ProbeId
    BY <1>6 DEF WriteProbe, PlaceOK
  <2>2. CASE UNCHANGED inner
    BY <1>a, <2>1, <2>2
  <2>3. CASE WriteTakes(Probe(probe))
    <3>1. /\ inner'.in = Append(inner.in, Probe(probe)) /\ inner'.out = inner.out
          /\ Probe(probe) \in ToInner
      BY <2>1, <2>3, Lines, Taken
    <3>2. /\ DOMAIN inner.in = 1 .. Len(inner.in) /\ Len(inner.in) \in Nat
          /\ DOMAIN inner'.in = 1 .. (Len(inner.in) + 1)
          /\ inner'.in[Len(inner.in) + 1] = Probe(probe)
          /\ \A i \in 1 .. Len(inner.in) : inner'.in[i] = inner.in[i]
      BY <1>0, <3>1, Pipes
    <3>3. \A l \in ClientLine : \A i \in DOMAIN inner'.in :
                inner'.in[i] = Client(l) => i \in DOMAIN inner.in /\ inner.in[i] = Client(l)
      BY <3>2, Names
    <3>4. \A l \in ClientLine : InPipe(inner, l)' => InPipe(inner, l)
      BY <3>3 DEF InPipe
    <3>5. \A l \in ClientLine : Single(inner'.in, l)
      BY <1>0, <3>3 DEF Single
    <3>6. \A l \in ClientLine : (OutPipe(inner, l)' => OutPipe(inner, l)) /\ Single(inner'.out, l)
      BY <1>0, <3>1 DEF OutPipe
    <3> QED
      BY <2>1, <3>4, <3>5, <3>6, OnceLess
  <2> QED
    BY <1>6, <2>2, <2>3 DEF WriteProbe
<1>7. ASSUME NEW p \in ProbeId, KillInner(p) PROVE OnceOK'
  <2>1. UNCHANGED <<line, unsent, got>> /\ (UNCHANGED inner \/ inner' = Dead(inner))
    BY <1>7 DEF KillInner
  <2> QED
    BY <1>0, <1>a, <1>b, <2>1, InnerTypes
<1>8. CASE ShutdownInner
  BY <1>8, <1>b, NewInner DEF ShutdownInner
<1>9. CASE Exit
  BY <1>0, <1>9, <1>b, InnerTypes DEF Exit
<1>10. CASE Hang
  <2>1. inner'.in = inner.in /\ inner'.out = inner.out /\ UNCHANGED <<line, unsent, got>>
    BY <1>0, <1>10 DEF Hang, Inner
  <2> QED
    BY <1>0, <2>1, OnceLess DEF InPipe, OutPipe
<1>11. ASSUME NEW p \in ProbeId, ProbeTimeout(p) PROVE OnceOK'
  BY <1>11, <1>a DEF ProbeTimeout
<1>12. CASE \/ ClientEOF \/ InnerEOF \/ CheckShutdown \/ CountRestart \/ RestartAges
            \/ SendProbe \/ Select \/ Return \/ Signal
  BY <1>12, <1>a DEF ClientEOF, InnerEOF, CheckShutdown, CountRestart, RestartAges,
                     SendProbe, Select, Return, Signal
<1>13. CASE UNCHANGED vars
  BY <1>13, <1>a DEF vars
<1> QED
  BY <1>1, <1>2, <1>3, <1>4, <1>5, <1>6, <1>7, <1>8, <1>9, <1>10, <1>11, <1>12, <1>13
  DEF Next, ClientPump, InnerPump, Probing, Timing, Running

-----------------------------------------------------------------------------
(* The handshake.                                                          *)

\* What has been captured, without the inner.
CapturedOK ==
    /\ initParams <=> "initialize" \notin unsent
    /\ initialized <=> "initialized" \notin unsent
    /\ initialized => initParams
    /\ (\E r \in Request : r \notin unsent) => initialized

\* An inner that has the handshake of which it lacks at most the line that is
\* being written.
ReachedOK ==
    /\ Alive /\ initParams => HasInit(inner) \/ line = "initialize"
    /\ Alive /\ initialized => HasInitialized(inner) \/ line = "initialized"
    /\ OrderOK(inner)

\* A line at the end of the pipe keeps what is before it.
LEMMA OrderAppend ==
  ASSUME TypeOK, OrderOK(inner), NEW m \in ToInner,
         inner'.in = Append(inner.in, m), inner'.hs = inner.hs,
         m.id = "initialized" => HasInit(inner),
         m.id \in Request => HasInitialized(inner)
  PROVE  /\ OrderOK(inner')
         /\ HasInit(inner) => HasInit(inner')
         /\ HasInitialized(inner) => HasInitialized(inner')
         /\ m.id = "initialize" => HasInit(inner')
         /\ m.id = "initialized" => HasInitialized(inner')
<1> DEFINE n == Len(inner.in)
<1>1. /\ inner.in \in Seq(ToInner) /\ DOMAIN inner.in = 1 .. n /\ n \in Nat
      /\ DOMAIN inner'.in = 1 .. (n + 1) /\ inner'.in[n + 1] = m
      /\ \A i \in 1 .. n : inner'.in[i] = inner.in[i]
  <2>1. inner.in \in Seq(ToInner)
    BY InnerTypes DEF TypeOK
  <2> QED
    BY <2>1, Pipes
<1> HIDE DEF n
<1>2. /\ n + 1 \in DOMAIN inner'.in
      /\ \A i \in DOMAIN inner.in : i \in DOMAIN inner'.in /\ inner'.in[i].id = inner.in[i].id
  BY <1>1
<1>3. /\ HasInit(inner) => HasInit(inner')
      /\ HasInitialized(inner) => HasInitialized(inner')
  BY <1>2 DEF HasInit, HasInitialized
<1>4. /\ m.id = "initialize" => HasInit(inner')
      /\ m.id = "initialized" => HasInitialized(inner')
  BY <1>1, <1>2 DEF HasInit, HasInitialized
<1>5. ASSUME NEW i \in DOMAIN inner'.in
      PROVE  /\ inner'.in[i].id = "initialized" =>
                    inner.hs # "new" \/ \E j \in 1 .. (i - 1) : inner'.in[j].id = "initialize"
             /\ inner'.in[i].id \in Request =>
                    inner.hs = "ready" \/ \E j \in 1 .. (i - 1) : inner'.in[j].id = "initialized"
  <2>1. CASE i \in 1 .. n
    <3>1. \A j \in 1 .. (i - 1) : inner'.in[j] = inner.in[j]
      BY <1>1, <2>1
    <3>2. i \in DOMAIN inner.in /\ inner'.in[i] = inner.in[i]
      BY <1>1, <2>1
    <3> QED
      BY <3>1, <3>2 DEF OrderOK
  <2>2. CASE i = n + 1
    <3>1. /\ inner'.in[i] = m
          /\ \A j \in DOMAIN inner.in : j \in 1 .. (i - 1) /\ inner'.in[j] = inner.in[j]
      BY <1>1, <2>2
    <3> QED
      BY <3>1 DEF HasInit, HasInitialized
  <2> QED
    BY <1>1, <2>1, <2>2
<1> QED
  BY <1>3, <1>4, <1>5 DEF OrderOK

\* An inner that answers a line keeps the handshake that it has.
LEMMA OrderConsume ==
  ASSUME TypeOK, OrderOK(inner), Consume
  PROVE  /\ OrderOK(inner')
         /\ HasInit(inner) => HasInit(inner')
         /\ HasInitialized(inner) => HasInitialized(inner')
<1> DEFINE n == Len(inner.in)
           m == Head(inner.in)
<1>1. /\ inner.in \in Seq(ToInner) /\ DOMAIN inner.in = 1 .. n /\ n \in Nat /\ n >= 1
      /\ m = inner.in[1] /\ m \in ToInner
      /\ DOMAIN inner'.in = 1 .. (n - 1)
      /\ \A i \in 1 .. (n - 1) : inner'.in[i] = inner.in[i + 1]
      /\ inner'.hs = After(inner.hs, m) /\ inner.hs \in Handshake
  <2>1. /\ inner.in \in Seq(ToInner) /\ inner.hs \in Handshake /\ inner.in # <<>>
        /\ inner'.in = Tail(inner.in) /\ inner'.hs = After(inner.hs, m)
    BY Consumed, InnerTypes DEF TypeOK
  <2> QED
    BY <2>1, Pipes
<1> HIDE DEF n, m
<1>2. /\ inner.hs # "new" => inner'.hs # "new"
      /\ inner.hs = "ready" => inner'.hs = "ready"
      /\ m.id = "initialize" => inner'.hs # "new"
      /\ m.id = "initialized" /\ inner.hs # "new" => inner'.hs = "ready"
  BY <1>1 DEF After, Handshake
<1>3. m.id = "initialized" => inner.hs # "new"
  <2>1. 1 \in DOMAIN inner.in /\ \A j : j \notin 1 .. (1 - 1)
    BY <1>1
  <2> QED
    BY <1>1, <2>1 DEF OrderOK
<1>4. \A i \in DOMAIN inner.in : i = 1 \/ (i - 1 \in 1 .. (n - 1) /\ inner'.in[i - 1] = inner.in[i])
  BY <1>1
<1>5. HasInit(inner) => HasInit(inner')
  BY <1>1, <1>2, <1>4 DEF HasInit
<1>6. HasInitialized(inner) => HasInitialized(inner')
  BY <1>1, <1>2, <1>3, <1>4 DEF HasInitialized
<1>7. ASSUME NEW i \in 1 .. (n - 1)
      PROVE  /\ inner'.in[i].id = "initialized" =>
                    inner'.hs # "new" \/ \E j \in 1 .. (i - 1) : inner'.in[j].id = "initialize"
             /\ inner'.in[i].id \in Request =>
                    inner'.hs = "ready" \/ \E j \in 1 .. (i - 1) : inner'.in[j].id = "initialized"
  <2>1. i + 1 \in DOMAIN inner.in /\ inner'.in[i] = inner.in[i + 1]
    BY <1>1
  <2>2. \A j \in 1 .. ((i + 1) - 1) :
            j = 1 \/ (j - 1 \in 1 .. (i - 1) /\ inner'.in[j - 1] = inner.in[j])
    BY <1>1
  <2>3. ASSUME inner'.in[i].id = "initialized"
        PROVE  inner'.hs # "new" \/ \E j \in 1 .. (i - 1) : inner'.in[j].id = "initialize"
    <3>1. inner.hs # "new" \/ \E j \in 1 .. ((i + 1) - 1) : inner.in[j].id = "initialize"
      BY <2>1, <2>3 DEF OrderOK
    <3> QED
      BY <1>1, <1>2, <2>2, <3>1
  <2>4. ASSUME inner'.in[i].id \in Request
        PROVE  inner'.hs = "ready" \/ \E j \in 1 .. (i - 1) : inner'.in[j].id = "initialized"
    <3>1. inner.hs = "ready" \/ \E j \in 1 .. ((i + 1) - 1) : inner.in[j].id = "initialized"
      BY <2>1, <2>4 DEF OrderOK
    <3> QED
      BY <1>1, <1>2, <1>3, <2>2, <3>1
  <2> QED
    BY <2>3, <2>4
<1>8. OrderOK(inner')
  BY <1>1, <1>7 DEF OrderOK
<1> QED
  BY <1>5, <1>6, <1>8

\* Every step keeps the handshake.
LEMMA ShakeStep == TypeOK /\ PlaceOK /\ OnceOK /\ ShakeOK /\ [Next]_vars => ShakeOK'
<1> SUFFICES ASSUME TypeOK, PlaceOK, OnceOK, CapturedOK, ReachedOK, [Next]_vars
             PROVE  CapturedOK' /\ ReachedOK'
  BY DEF ShakeOK, CapturedOK, ReachedOK
<1> USE DEF clientVars, probeVars, runVars
<1>0. inner \in Inner /\ inner.in \in Seq(ToInner) /\ initParams \in BOOLEAN /\ initialized \in BOOLEAN
  BY InnerTypes DEF TypeOK
<1>a. ASSUME UNCHANGED <<unsent, initParams, initialized>> PROVE CapturedOK'
  BY <1>a DEF CapturedOK
<1>b. ASSUME UNCHANGED <<inner, line, initParams, initialized>> PROVE ReachedOK'
  BY <1>b DEF ReachedOK, Alive, HasInit, HasInitialized, OrderOK
<1>c. ASSUME inner'.in = <<>>, inner'.st \notin {"up", "hung"} PROVE ReachedOK'
  BY <1>c DEF ReachedOK, Alive, OrderOK
<1>1. CASE ReadLine
  <2>1. PICK l \in ClientLine :
          /\ MaySend(l) /\ unsent' = unsent \ {l}
          /\ initParams' = (initParams \/ l = "initialize")
          /\ initialized' = (initialized \/ l = "initialized")
          /\ IF l = "status" THEN UNCHANGED line ELSE line' = l
    BY <1>1 DEF ReadLine
  <2>2. UNCHANGED inner /\ line = None
    BY <1>1 DEF ReadLine, PlaceOK
  <2>3. /\ l # "initialize" => "initialize" \notin unsent
        /\ l \notin {"initialize", "initialized"} => "initialized" \notin unsent
        /\ "status" \notin Request
    <3>1. "initialize" \in unsent => got["initialize"] = 0
      BY Names DEF OnceOK
    <3> QED
      BY <2>1, <3>1, ConstantsOK DEF MaySend
  <2>4. CapturedOK'
    <3>1. l # "initialize" => initParams
      BY <2>3 DEF CapturedOK
    <3>2. l \notin {"initialize", "initialized"} => initialized
      BY <2>3 DEF CapturedOK
    <3>3. initParams' <=> "initialize" \notin unsent'
      BY <2>1, <3>1 DEF CapturedOK
    <3>4. initialized' <=> "initialized" \notin unsent'
      BY <2>1, <3>2 DEF CapturedOK
    <3>5. initialized' => initParams'
      BY <2>1, <3>1 DEF CapturedOK
    <3>6. ASSUME NEW r \in Request, r \notin unsent' PROVE initialized'
      <4>1. CASE r \notin unsent
        BY <2>1, <4>1 DEF CapturedOK
      <4>2. CASE r = l
        BY <2>1, <3>2, <4>2, ConstantsOK
      <4> QED
        BY <2>1, <3>6, <4>1, <4>2
    <3> QED
      BY <3>3, <3>4, <3>5, <3>6 DEF CapturedOK
  <2>5. ReachedOK'
    BY <2>1, <2>2, Names DEF ReachedOK, Alive, HasInit, HasInitialized, OrderOK
  <2> QED
    BY <2>4, <2>5
<1>2. CASE WriteLine
  <2>1. line \in ClientLine \ {"status"} /\ UNCHANGED <<unsent, initParams, initialized>>
        /\ line \notin unsent
    BY <1>2 DEF WriteLine, PlaceOK, OnceOK
  <2>2. CASE WriteFails /\ UNCHANGED inner
    BY <1>a, <2>1, <2>2 DEF ReachedOK, Alive, WriteFails, OrderOK
  <2>3. CASE UNCHANGED <<line, inner>>
    BY <1>a, <1>b, <2>1, <2>3
  <2>4. CASE WriteTakes(Client(line)) /\ line' = None
    <3>1. /\ inner'.in = Append(inner.in, Client(line)) /\ inner'.hs = inner.hs
          /\ inner'.st = inner.st /\ inner.st \in {"up", "hung"}
          /\ Client(line) \in ToInner /\ Client(line).id = line
      BY <2>1, <2>4, Lines, Taken
    <3>2. /\ initParams => HasInit(inner) \/ line = "initialize"
          /\ initialized => HasInitialized(inner) \/ line = "initialized"
          /\ OrderOK(inner)
      BY <3>1 DEF ReachedOK, Alive
    <3>3. /\ line = "initialized" => HasInit(inner)
          /\ line \in Request => HasInitialized(inner)
      BY <2>1, <3>2, Names DEF CapturedOK
    <3>4. /\ OrderOK(inner')
          /\ HasInit(inner) => HasInit(inner')
          /\ HasInitialized(inner) => HasInitialized(inner')
          /\ line = "initialize" => HasInit(inner')
          /\ line = "initialized" => HasInitialized(inner')
      BY <3>1, <3>2, <3>3, OrderAppend
    <3>5. ReachedOK'
      BY <2>1, <3>2, <3>4 DEF ReachedOK, HasInit, HasInitialized, OrderOK
    <3> QED
      BY <1>a, <2>1, <3>5
  <2> QED
    BY <1>2, <2>2, <2>3, <2>4 DEF WriteLine
<1>3. CASE Consume
  <2>1. /\ OrderOK(inner')
        /\ HasInit(inner) => HasInit(inner')
        /\ HasInitialized(inner) => HasInitialized(inner')
    BY <1>3, OrderConsume DEF ReachedOK
  <2>2. inner'.st = inner.st /\ UNCHANGED <<line, unsent, initParams, initialized>>
    BY <1>3, Consumed DEF Consume
  <2>3. ReachedOK'
    BY <2>1, <2>2 DEF ReachedOK, HasInit, HasInitialized, OrderOK, Alive
  <2> QED
    BY <1>a, <2>2, <2>3
<1>4. CASE Forward
  <2>1. /\ inner'.in = inner.in /\ inner'.st = inner.st /\ inner'.hs = inner.hs
        /\ UNCHANGED <<line, unsent, initParams, initialized>>
    BY <1>4, Forwarded DEF Forward
  <2> QED
    BY <1>a, <2>1 DEF ReachedOK, HasInit, HasInitialized, OrderOK, Alive
<1>5. CASE Respawn
  <2>1. UNCHANGED <<line, unsent, initParams, initialized>>
    BY <1>5 DEF Respawn
  <2>2. CASE UNCHANGED inner
    BY <1>a, <1>b, <2>1, <2>2
  <2>3. CASE inner' = Fresh(Replayed)
    <3>1. /\ inner'.in = Replayed /\ inner'.hs = "new"
      BY <1>0, <2>3, ReplayedLines, NewInner
    <3>2. /\ \A i \in DOMAIN Replayed : Replayed[i].id \notin Request
          /\ initParams => 1 \in DOMAIN Replayed /\ Replayed[1].id = "initialize"
          /\ initialized => 2 \in DOMAIN Replayed /\ Replayed[2].id = "initialized"
          /\ \A i \in DOMAIN Replayed : Replayed[i].id = "initialized" => i = 2 /\ initParams
      BY <1>0, ReplayedLines DEF CapturedOK
    <3>3. OrderOK(inner')
      <4>1. ASSUME NEW i \in DOMAIN Replayed, Replayed[i].id = "initialized"
            PROVE  \E j \in 1 .. (i - 1) : Replayed[j].id = "initialize"
        <5>1. 1 \in 1 .. (i - 1)
          BY <3>2, <4>1
        <5> QED
          BY <3>2, <4>1, <5>1
      <4> QED
        BY <3>1, <3>2, <4>1 DEF OrderOK
    <3>4. ReachedOK'
      BY <2>1, <3>1, <3>2, <3>3 DEF ReachedOK, HasInit, HasInitialized, OrderOK
    <3> QED
      BY <1>a, <2>1, <3>4
  <2> QED
    BY <1>5, <2>2, <2>3 DEF Respawn
<1>6. CASE WriteProbe
  <2>1. UNCHANGED <<line, unsent, initParams, initialized>> /\ probe \in ProbeId
    BY <1>6 DEF WriteProbe, PlaceOK
  <2>2. CASE UNCHANGED inner
    BY <1>a, <1>b, <2>1, <2>2
  <2>3. CASE WriteTakes(Probe(probe))
    <3>1. /\ inner'.in = Append(inner.in, Probe(probe)) /\ inner'.hs = inner.hs
          /\ inner'.st = inner.st /\ Probe(probe) \in ToInner
          /\ Probe(probe).id \notin {"initialize", "initialized"} \cup Request
      BY <2>1, <2>3, Lines, Taken, Names
    <3>2. /\ OrderOK(inner')
          /\ HasInit(inner) => HasInit(inner')
          /\ HasInitialized(inner) => HasInitialized(inner')
      BY <3>1, OrderAppend DEF ReachedOK
    <3>3. ReachedOK'
      BY <2>1, <3>1, <3>2 DEF ReachedOK, HasInit, HasInitialized, OrderOK, Alive
    <3> QED
      BY <1>a, <2>1, <3>3
  <2> QED
    BY <1>6, <2>2, <2>3 DEF WriteProbe
<1>7. ASSUME NEW p \in ProbeId, KillInner(p) PROVE CapturedOK' /\ ReachedOK'
  <2>1. /\ UNCHANGED <<line, unsent, initParams, initialized>>
        /\ UNCHANGED inner \/ inner' = Dead(inner)
    BY <1>7 DEF KillInner
  <2> QED
    BY <1>0, <1>a, <1>b, <1>c, <2>1, InnerTypes
<1>8. CASE ShutdownInner
  BY <1>8, <1>a, <1>c, NewInner DEF ShutdownInner
<1>9. CASE Exit
  BY <1>0, <1>9, <1>a, <1>c, InnerTypes DEF Exit
<1>10. CASE Hang
  <2>1. /\ inner'.in = inner.in /\ inner'.hs = inner.hs /\ inner.st = "up"
        /\ UNCHANGED <<line, unsent, initParams, initialized>>
    BY <1>0, <1>10 DEF Hang, Inner
  <2> QED
    BY <1>a, <2>1 DEF ReachedOK, HasInit, HasInitialized, OrderOK, Alive
<1>11. ASSUME NEW p \in ProbeId, ProbeTimeout(p) PROVE CapturedOK' /\ ReachedOK'
  BY <1>11, <1>a, <1>b DEF ProbeTimeout
<1>12. CASE \/ ClientEOF \/ InnerEOF \/ CheckShutdown \/ CountRestart \/ RestartAges
            \/ SendProbe \/ Select \/ Return \/ Signal
  BY <1>12, <1>a, <1>b DEF ClientEOF, InnerEOF, CheckShutdown, CountRestart, RestartAges,
                     SendProbe, Select, Return, Signal
<1>13. CASE UNCHANGED vars
  BY <1>13, <1>a, <1>b DEF vars
<1> QED
  BY <1>1, <1>2, <1>3, <1>4, <1>5, <1>6, <1>7, <1>8, <1>9, <1>10, <1>11, <1>12, <1>13
  DEF Next, ClientPump, InnerPump, Probing, Timing, Running

-----------------------------------------------------------------------------
(* The theorems.                                                           *)

\* A supervisor that starts.
LEMMA SupervisorInit == Init => SupervisorInv
<1> SUFFICES ASSUME Init PROVE SupervisorInv
  OBVIOUS
<1>1. inner \in Inner /\ inner.in = <<>> /\ inner.out = <<>> /\ MaxRestarts \in Nat
  <2>1. inner = Fresh(<<>>) /\ <<>> \in Seq(ToInner)
    BY DEF Init
  <2> QED
    BY <2>1, NewInner, ConstantsOK
<1>2. TypeOK /\ PlaceOK
  <2>1. 0 \in 0 .. MaxRestarts + 1 /\ 0 <= MaxRestarts /\ [r \in Received |-> 0] \in [Received -> 0 .. 2]
    BY <1>1
  <2>2. TypeOK
    BY <1>1, <2>1 DEF Init, TypeOK
  <2>3. PlaceOK
    BY <2>1 DEF Init, PlaceOK
  <2> QED
    BY <2>2, <2>3
<1>3. OnceOK
  BY <1>1, Names DEF Init, OnceOK, InPipe, OutPipe
<1>4. ShakeOK
  BY <1>1, Names DEF Init, ShakeOK, OrderOK
<1> QED
  BY <1>2, <1>3, <1>4 DEF SupervisorInv

\* Whatever the client sends, and however often the inner exits, hangs or is
\* killed, every variable has its type, every line of the client is in one
\* place, and every inner has the handshake before it (Supervisor.Run).
THEOREM SupervisorCorrect == Spec => []SupervisorInv
<1>1. SupervisorInv /\ [Next]_vars => SupervisorInv'
  BY TypeStep, OnceStep, ShakeStep DEF SupervisorInv
<1> QED
  BY <1>1, SupervisorInit, PTL DEF Spec

\* The client does not notice a respawn: no line of its own is answered
\* twice, no answer to a probe or to a replayed initialize gets through, and
\* no inner meets a request before the whole handshake (respawn,
\* classifyInnerLine, maybeCaptureInit).
THEOREM Unnoticed == Spec => []RespawnUnnoticed
<1>1. SupervisorInv => RespawnUnnoticed
  <2> SUFFICES ASSUME SupervisorInv PROVE RespawnUnnoticed
    OBVIOUS
  <2>1. /\ got["probe"] = 0 /\ got["replay"] = 0
        /\ \A l \in ClientLine : got[l] <= 1
    BY DEF SupervisorInv, OnceOK
  <2>2. ASSUME inner.in # <<>>, Head(inner.in).id \in Request PROVE inner.hs = "ready"
    <3>1. 1 \in DOMAIN inner.in /\ Head(inner.in) = inner.in[1]
      BY <2>2, InnerTypes, Pipes DEF SupervisorInv, TypeOK
    <3>2. \A j : j \notin 1 .. (1 - 1)
      OBVIOUS
    <3> QED
      BY <2>2, <3>1, <3>2 DEF SupervisorInv, ShakeOK, OrderOK
  <2> QED
    BY <2>1, <2>2 DEF RespawnUnnoticed
<1> QED
  BY <1>1, SupervisorCorrect, PTL
=============================================================================
