----------------------------- MODULE Supervisor -----------------------------
(***************************************************************************)
(* pincher supervised (internal/supervisor/supervisor.go): a process that  *)
(* stands between an MCP client and an inner pincher server, forwards      *)
(* JSON-RPC lines both ways, respawns the inner when it exits and replays  *)
(* the client's handshake to the new one, probes it for liveness and kills *)
(* it when a probe is not answered in time.                                *)
(*                                                                         *)
(* Five goroutines act: Run itself (main), pumpClientToInner (cpc),        *)
(* pumpInnerToClient (pump), probeLoop (ppc) and one timer per probe       *)
(* (timers, then killing).  They share s.mu, s.inner, the captured         *)
(* handshake and pendingProbe.  respawn, shutdownInner and maybeCaptureInit*)
(* hold s.mu exclusively from beginning to end, so each is one step; a     *)
(* writer holds s.mu shared for as long as its write to the inner's stdin  *)
(* pipe blocks, so a blocked write is a state of its own.                  *)
(*                                                                         *)
(* At most one inner exists at a time (respawn follows Wait), so the inner *)
(* is one record.  Lines are named, not spelled out.  Server notifications *)
(* and the quiet window that drops them change no state modelled here and  *)
(* are left out, as are the status counters and the restart reason.        *)
(***************************************************************************)
EXTENDS Naturals, Sequences, FiniteSets

CONSTANTS
    Request,        \* ids of the client's requests, each sent once
    ProbeId,        \* ids of probes outstanding at one time
    PipeCap,        \* lines an OS pipe holds before a write blocks
    MaxRestarts,    \* restarts tolerated within RestartWindow
    None            \* no line, no probe

ASSUME ConstantsOK ==
    /\ PipeCap \in Nat /\ PipeCap >= 2      \* the replayed handshake fits
    /\ MaxRestarts \in Nat \ {0}           \* 0 means the default
    \* Ids of the supervisor's own have prefixes (probeIDPrefix, initIDPrefix).
    /\ None \notin ProbeId /\ None \notin Request /\ Request \cap ProbeId = {}
    /\ \A n \in {"initialize", "initialized", "status", "probe", "replay"} :
            n \notin Request \cup ProbeId \cup {None}

VARIABLES
    main,       \* Run: select, shutdown, drain, returned
    signalled,  \* the context given to Run is cancelled (SIGTERM)
    cancelled,  \* pumpCtx is cancelled
    pump,       \* pumpInnerToClient: forward, waited, respawn, count, done
    cpc,        \* pumpClientToInner: read, write, blocked, done
    line,       \* the line it is writing
    unsent,     \* lines the client has still to send
    initParams, \* an initialize has been captured
    initialized,\* a notifications/initialized has been captured
    ppc,        \* probeLoop: idle, write, blocked
    probe,      \* the probe sendProbe is writing
    pendingProbe,   \* the probe in flight, or None
    timers,     \* probes whose AfterFunc has still to run
    killing,    \* probes whose AfterFunc is about to call killInner
    inner,      \* the inner process and its pipes
    history,    \* restarts within the window
    got         \* history: how often the client has received each line

clientVars == <<cpc, line, unsent, initParams, initialized>>
probeVars  == <<ppc, probe, pendingProbe, timers, killing>>
runVars    == <<main, signalled, cancelled>>
vars == <<runVars, pump, clientVars, probeVars, inner, history, got>>

-----------------------------------------------------------------------------
(* Lines.                                                                  *)

ClientLine == {"initialize", "initialized", "status"} \cup Request

\* Lines on the inner's stdin: the client's, probes, and the replayed
\* initialize under the supervisor's own id.
ToInner == [kind : {"client"}, id : ClientLine \ {"status"}]
           \cup [kind : {"probe"}, id : ProbeId]
           \cup [kind : {"replay"}, id : {"initialize", "initialized"}]

\* Lines on its stdout: one answer to each but "initialized".
FromInner == {m \in ToInner : m.id # "initialized"}

Client(l) == [kind |-> "client", id |-> l]
Replay(l) == [kind |-> "replay", id |-> l]
Probe(p)  == [kind |-> "probe", id |-> p]

\* What reaches the client: answers to its lines, and, should the filter
\* fail, answers to the supervisor's own requests.
Received == ClientLine \cup {"probe", "replay"}

\* Counting stops at two: a duplicate is a duplicate.
Deliver(r) == got' = [got EXCEPT ![r] = IF @ < 2 THEN @ + 1 ELSE 2]

-----------------------------------------------------------------------------
(* The inner.  hs is how far its handshake has come; probes are the probes *)
(* written to this inner.                                                  *)

Handshake == {"new", "init", "ready"}
InnerState == {"none", "up", "hung", "dead"}
Inner == [st : InnerState, in : Seq(ToInner), out : Seq(FromInner),
          hs : Handshake, probes : SUBSET ProbeId]

Fresh(in) == [st |-> "up", in |-> in, out |-> <<>>, hs |-> "new",
              probes |-> {}]
NoInner == [Fresh(<<>>) EXCEPT !.st = "none"]

Alive == inner.st \in {"up", "hung"}

\* The process ends: its stdin is lost, its stdout can still be drained.
Dead(p) == [p EXCEPT !.st = "dead", !.in = <<>>]

After(hs, m) == CASE m.id = "initialize"  -> IF hs = "new" THEN "init" ELSE hs
                  [] m.id = "initialized" -> IF hs = "init" THEN "ready" ELSE hs
                  [] OTHER                -> hs

\* The inner answers the next line on its stdin.
Consume ==
    /\ inner.st = "up"
    /\ inner.in # <<>>
    /\ Len(inner.out) < PipeCap
    /\ LET m == Head(inner.in)
       IN  inner' = [inner EXCEPT
                        !.in = Tail(@),
                        !.hs = After(@, m),
                        !.out = IF m.id = "initialized" THEN @
                                                        ELSE Append(@, m)]
    /\ UNCHANGED <<runVars, pump, clientVars, probeVars, history, got>>

Exit ==
    /\ Alive
    /\ inner' = Dead(inner)
    /\ UNCHANGED <<runVars, pump, clientVars, probeVars, history, got>>

Hang ==
    /\ inner.st = "up"
    /\ inner' = [inner EXCEPT !.st = "hung"]
    /\ UNCHANGED <<runVars, pump, clientVars, probeVars, history, got>>

-----------------------------------------------------------------------------
(* s.mu.                                                                   *)

\* Some write to the inner's stdin is blocked, holding s.mu shared.
WriteBlocked == cpc = "blocked" \/ ppc = "blocked"

\* Somebody waits for s.mu exclusively: new readers wait behind it.
WriterWaits == WriteBlocked /\ (main = "shutdown" \/ pump = "respawn")

\* The three outcomes of writeToInner(m).
WriteFails == inner.st \in {"none", "dead"}
WriteTakes(m) ==
    /\ Alive
    /\ Len(inner.in) < PipeCap
    /\ inner' = [inner EXCEPT
                    !.in = Append(@, m),
                    !.probes = IF m.kind = "probe" THEN @ \cup {m.id} ELSE @]
WriteBlocks == Alive /\ Len(inner.in) >= PipeCap

-----------------------------------------------------------------------------
(* pumpClientToInner.                                                      *)

\* A client follows the protocol: initialize first, everything else once it
\* has been answered; initialized before any request.
MaySend(l) ==
    /\ l \in unsent
    /\ l # "initialize" => got["initialize"] > 0
    /\ l \notin {"initialize", "initialized"} => "initialized" \notin unsent

\* The head of the pump's loop: ctx.Err() is looked at once per line.
NextRead == IF cancelled THEN "done" ELSE "read"

\* Mutant: the capture of the handshake misses the client's notification.
ReadLineCapturingInit ==
    /\ cpc = "read"
    /\ main \in {"select", "shutdown"}
    /\ \E l \in ClientLine \ {"status"} :
          /\ MaySend(l)
          /\ unsent' = unsent \ {l}
          /\ initParams' = (initParams \/ l = "initialize")
          /\ cpc' = "write" /\ line' = l
    /\ UNCHANGED <<initialized, got, runVars, pump, probeVars, inner, history>>

\* r.ReadBytes, maybeCaptureInit (s.mu exclusively), handleStatusToolCall
\* (s.mu shared).  The status call is answered here and not forwarded.  A
\* pump that was blocked in ReadBytes when Run cancelled it still handles one
\* line, until Run closes s.Stdin.
ReadLine ==
    /\ cpc = "read"
    /\ main \in {"select", "shutdown"}
    /\ \E l \in ClientLine :
          /\ MaySend(l)
          /\ l \in {"initialize", "initialized"} => ~WriteBlocked
          /\ l = "status" => ~WriterWaits
          /\ unsent' = unsent \ {l}
          /\ initParams' = (initParams \/ l = "initialize")
          /\ initialized' = (initialized \/ l = "initialized")
          /\ IF l = "status"
                THEN Deliver(l) /\ cpc' = NextRead /\ UNCHANGED line
                ELSE cpc' = "write" /\ line' = l /\ UNCHANGED got
    /\ UNCHANGED <<runVars, pump, probeVars, inner, history>>

\* writeToInner(line).  An error loses the line.
WriteLine ==
    /\ \/ cpc = "write" /\ ~WriterWaits
       \/ cpc = "blocked" /\ ~WriteBlocks
    /\ \/ /\ WriteFails
          /\ cpc' = NextRead /\ line' = None
          /\ UNCHANGED inner
       \/ /\ WriteTakes(Client(line))
          /\ cpc' = NextRead /\ line' = None
       \/ /\ WriteBlocks
          /\ cpc' = "blocked"
          /\ UNCHANGED <<line, inner>>
    /\ UNCHANGED <<runVars, pump, unsent, initParams, initialized, probeVars,
                   history, got>>

\* EOF: the client has closed its end, or Run has closed s.Stdin.
ClientEOF ==
    /\ cpc = "read"
    /\ cpc' = "done"
    /\ UNCHANGED <<runVars, pump, line, unsent, initParams, initialized,
                   probeVars, inner, history, got>>

-----------------------------------------------------------------------------
(* pumpInnerToClient.                                                      *)

\* forwardInnerStdoutWithProbeFilter, one line: classifyInnerLine swallows
\* the answers to the supervisor's own requests.  Any probe answer clears
\* pendingProbe.
Forward ==
    /\ pump = "forward"
    /\ inner.out # <<>>
    /\ inner' = [inner EXCEPT !.out = Tail(@)]
    /\ LET m == Head(inner.out)
       IN  CASE m.kind = "probe"  -> pendingProbe' = None /\ UNCHANGED got
             [] m.kind = "replay" -> UNCHANGED <<pendingProbe, got>>
             [] OTHER             -> Deliver(m.id) /\ UNCHANGED pendingProbe
    /\ UNCHANGED <<runVars, pump, clientVars, ppc, probe, timers, killing,
                   history>>

\* EOF on the inner's stdout, and Wait.
InnerEOF ==
    /\ pump = "forward"
    /\ inner.st \in {"none", "dead"} /\ inner.out = <<>>
    /\ pump' = "waited"
    /\ UNCHANGED <<runVars, clientVars, probeVars, inner, history, got>>

\* The context check before a respawn.
CheckShutdown ==
    /\ pump = "waited"
    /\ pump' = IF cancelled THEN "done" ELSE "respawn"
    /\ UNCHANGED <<runVars, clientVars, probeVars, inner, history, got>>

Replayed ==
    (IF initParams THEN <<Replay("initialize")>> ELSE <<>>)
    \o (IF initialized THEN <<Replay("initialized")>> ELSE <<>>)

\* respawn, s.mu held throughout: spawn, replay the captured handshake,
\* swap.  Spawning, or a replay write, may fail.
Respawn ==
    /\ pump = "respawn"
    /\ ~WriteBlocked
    /\ \/ /\ inner' = Fresh(Replayed)
          /\ pump' = "count"
       \/ /\ pump' = "done"
          /\ UNCHANGED inner
    /\ UNCHANGED <<runVars, clientVars, probeVars, history, got>>

\* Restarts.Add(1), recordRestart, and the two checks at the loop's head.
CountRestart ==
    /\ pump = "count"
    /\ history' = history + 1
    /\ pump' = IF \/ history + 1 > MaxRestarts
                  \/ cancelled
                  \/ inner.st = "none"
                  THEN "done" ELSE "forward"
    /\ UNCHANGED <<runVars, clientVars, probeVars, inner, got>>

\* A restart falls out of RestartWindow.
RestartAges ==
    /\ history > 0
    /\ pump # "done"
    /\ history' = history - 1
    /\ UNCHANGED <<runVars, pump, clientVars, probeVars, inner, got>>

-----------------------------------------------------------------------------
(* probeLoop and the probe timers.                                         *)

\* Probe ids in use; a fresh probe takes one that is not.
InUse == timers \cup killing \cup {pendingProbe, probe}
         \cup {m.id : m \in {x \in {inner.in[i] : i \in DOMAIN inner.in}
                                   \cup {inner.out[i] : i \in DOMAIN inner.out} :
                             x.kind = "probe"}}

\* A tick of the ticker: sendProbe up to the write.  A tick with a probe
\* pending does nothing.  After cancel() the select in probeLoop may still
\* choose the ticker.
SendProbe ==
    /\ ppc = "idle"
    /\ main # "returned"
    /\ pendingProbe = None
    /\ \E p \in ProbeId \ InUse :
          /\ probe' = p
          /\ pendingProbe' = p
    /\ ppc' = "write"
    /\ UNCHANGED <<runVars, pump, clientVars, timers, killing, inner, history,
                   got>>

\* writeToInner(payload), and then time.AfterFunc, or the CompareAndSwap
\* that withdraws the probe.
WriteProbe ==
    /\ \/ ppc = "write" /\ ~WriterWaits
       \/ ppc = "blocked" /\ ~WriteBlocks
    /\ \/ /\ WriteFails
          /\ pendingProbe' = IF pendingProbe = probe THEN None ELSE pendingProbe
          /\ ppc' = "idle" /\ probe' = None
          /\ UNCHANGED <<timers, inner>>
       \/ /\ WriteTakes(Probe(probe))
          /\ timers' = timers \cup {probe}
          /\ ppc' = "idle" /\ probe' = None
          /\ UNCHANGED pendingProbe
       \/ /\ WriteBlocks
          /\ ppc' = "blocked"
          /\ UNCHANGED <<timers, inner, pendingProbe, probe>>
    /\ UNCHANGED <<runVars, pump, clientVars, killing, history, got>>

\* Mutant: the timeout withdraws the probe and forgets to kill.
ProbeTimeoutOnly(p) ==
    /\ p \in timers
    /\ timers' = timers \ {p}
    /\ pendingProbe' = IF pendingProbe = p THEN None ELSE pendingProbe
    /\ UNCHANGED <<killing, runVars, pump, clientVars, ppc, probe, inner,
                   history, got>>

\* The AfterFunc of probe p, up to its CompareAndSwap.
ProbeTimeout(p) ==
    /\ p \in timers
    /\ timers' = timers \ {p}
    /\ IF pendingProbe = p
          THEN pendingProbe' = None /\ killing' = killing \cup {p}
          ELSE UNCHANGED <<pendingProbe, killing>>
    /\ UNCHANGED <<runVars, pump, clientVars, ppc, probe, inner, history, got>>

\* killInner: whatever inner is current when s.mu is obtained.
KillInner(p) ==
    /\ p \in killing
    /\ ~WriterWaits
    /\ killing' = killing \ {p}
    /\ inner' = IF Alive THEN Dead(inner) ELSE inner
    /\ UNCHANGED <<runVars, pump, clientVars, ppc, probe, pendingProbe, timers,
                   history, got>>

-----------------------------------------------------------------------------
(* Run.                                                                    *)

Init ==
    /\ main = "select" /\ signalled = FALSE /\ cancelled = FALSE
    /\ pump = "forward"
    /\ cpc = "read" /\ line = None /\ unsent = ClientLine
    /\ initParams = FALSE /\ initialized = FALSE
    /\ ppc = "idle" /\ probe = None /\ pendingProbe = None
    /\ timers = {} /\ killing = {}
    /\ inner = Fresh(<<>>)
    /\ history = 0
    /\ got = [r \in Received |-> 0]

\* SIGTERM or SIGINT, at any time.
Signal ==
    /\ ~signalled
    /\ main = "select"
    /\ signalled' = TRUE
    /\ UNCHANGED <<main, cancelled, pump, clientVars, probeVars, inner,
                   history, got>>

\* Mutants: Run waits for its client alone; Run does not see the signal.
SelectClient ==
    /\ main = "select"
    /\ cpc = "done" \/ signalled
    /\ main' = "shutdown" /\ cancelled' = TRUE
    /\ UNCHANGED <<signalled, pump, clientVars, probeVars, inner, history, got>>
SelectPumps ==
    /\ main = "select"
    /\ cpc = "done" \/ pump = "done"
    /\ main' = "shutdown" /\ cancelled' = TRUE
    /\ UNCHANGED <<signalled, pump, clientVars, probeVars, inner, history, got>>

\* The select statement, and cancel().
Select ==
    /\ main = "select"
    /\ cpc = "done" \/ pump = "done" \/ signalled
    /\ main' = "shutdown" /\ cancelled' = TRUE
    /\ UNCHANGED <<signalled, pump, clientVars, probeVars, inner, history, got>>

\* shutdownInner: kill, reap, close the pipes, forget.
ShutdownInner ==
    /\ main = "shutdown"
    /\ ~WriteBlocked
    /\ main' = "drain"
    /\ inner' = NoInner
    /\ UNCHANGED <<signalled, cancelled, pump, clientVars, probeVars, history,
                   got>>

\* Both pumps have ended, or the drain timeout has passed.
Return ==
    /\ main = "drain"
    /\ main' = "returned"
    /\ UNCHANGED <<signalled, cancelled, pump, clientVars, probeVars, inner,
                   history, got>>

-----------------------------------------------------------------------------
ClientPump == ReadLine \/ WriteLine \/ ClientEOF
InnerPump  == Forward \/ InnerEOF \/ CheckShutdown \/ Respawn \/ CountRestart
Probing    == SendProbe \/ WriteProbe
Timing     == \E p \in ProbeId : ProbeTimeout(p) \/ KillInner(p)
Running    == Select \/ ShutdownInner \/ Return

Next ==
    \/ ClientPump \/ InnerPump \/ Probing \/ Timing \/ Running
    \/ Signal \/ RestartAges
    \/ Consume \/ Exit \/ Hang

(***************************************************************************)
(* Goroutines are scheduled, timers fire, the ticker ticks, and an inner   *)
(* that is up keeps answering.  The client need not say anything, nothing  *)
(* need fail.  After cancel() the ticker is no longer served for sure.     *)
(***************************************************************************)
Fairness ==
    /\ WF_vars(WriteLine) /\ WF_vars(InnerPump) /\ WF_vars(Running)
    /\ WF_vars(SendProbe /\ ~cancelled) /\ WF_vars(WriteProbe)
    /\ WF_vars(Consume)
    /\ \A p \in ProbeId : WF_vars(ProbeTimeout(p)) /\ WF_vars(KillInner(p))

Spec == Init /\ [][Next]_vars /\ Fairness

-----------------------------------------------------------------------------
(* Properties.                                                             *)

TypeOK ==
    /\ main \in {"select", "shutdown", "drain", "returned"}
    /\ signalled \in BOOLEAN /\ cancelled \in BOOLEAN
    /\ pump \in {"forward", "waited", "respawn", "count", "done"}
    /\ cpc \in {"read", "write", "blocked", "done"}
    /\ line \in ClientLine \cup {None}
    /\ unsent \in SUBSET ClientLine
    /\ initParams \in BOOLEAN /\ initialized \in BOOLEAN
    /\ ppc \in {"idle", "write", "blocked"}
    /\ probe \in ProbeId \cup {None} /\ pendingProbe \in ProbeId \cup {None}
    /\ timers \in SUBSET ProbeId /\ killing \in SUBSET ProbeId
    /\ inner \in Inner
    /\ history \in 0 .. MaxRestarts + 1
    /\ got \in [Received -> 0 .. 2]

(***************************************************************************)
(* The client does not notice a respawn, across any number of them: no     *)
(* line of its own is answered twice, no answer to a probe or to a         *)
(* replayed initialize gets through ("surfacing a duplicate would close    *)
(* stdio"), and every inner, the first and each respawned one, has been    *)
(* through the whole handshake before it meets a request, whenever it was  *)
(* spawned relative to the client's own handshake lines.                   *)
(***************************************************************************)
RespawnUnnoticed ==
    /\ got["probe"] = 0 /\ got["replay"] = 0
    /\ \A l \in ClientLine : got[l] <= 1
    /\ inner.st = "up" /\ inner.in # <<>> /\ Head(inner.in).id \in Request
            => inner.hs = "ready"

(***************************************************************************)
(* An inner that has exited is replaced, or the supervisor gives up and    *)
(* shuts down: it does not sit on a dead inner.                            *)
(***************************************************************************)
DeadInnerReplaced ==
    inner.st = "dead" ~> inner.st # "dead" \/ main = "returned"

\* The inner's stdin pipe has no room.
Full == Alive /\ Len(inner.in) >= PipeCap

(***************************************************************************)
(* "If a probe is still pending after probeTimeout, kill the inner": as    *)
(* long as its stdin has room, a hung inner does not stay while the        *)
(* supervisor runs.                                                        *)
(***************************************************************************)
HungInnerReplaced ==
    []~Full => (inner.st = "hung" ~> inner.st # "hung" \/ main = "returned")

(***************************************************************************)
(* Run "returns when the client disconnects (stdin EOF) or the context is  *)
(* cancelled".                                                             *)
(***************************************************************************)
ShutdownCompletes == signalled ~> main = "returned"

\* The same, as long as no write to the inner can block.
ShutdownUnlessFull == []~Full => ShutdownCompletes

(***************************************************************************)
(* "Nothing answered us in the timeout window.  Treat the inner as hung":  *)
(* the timeout of a probe condemns only an inner that has been sent it.    *)
(***************************************************************************)
CondemnsOnlyProbed ==
    [][\A p \in killing' \ killing : Alive => p \in inner.probes]_vars
=============================================================================
