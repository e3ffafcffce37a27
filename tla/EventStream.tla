----------------------------- MODULE EventStream -----------------------------
(***************************************************************************)
(* The stream of index events (events.go, eventbus.go): a client           *)
(* subscribes, is told every project that another binary indexed last, and *)
(* then what passes of this process publish.  The bus blocks for nobody: a *)
(* client whose buffer is full misses what comes.                          *)
(*                                                                         *)
(* A pass is modelled by what a client may see of it: index_started, the   *)
(* stamp that it leaves in the project's row when it succeeds, and then    *)
(* index_complete (Indexer has the pass itself).                           *)
(***************************************************************************)
EXTENDS Integers, Sequences

CONSTANTS
    Watched,        \* projects
    Client,         \* connections to /v1/events
    Everything,     \* no ?project= filter
    Filter,         \* Filter[c]: a project or Everything
    BufferCap,      \* capacity of a subscriber's channel
    MaxPasses,      \* bound: passes, of this process and of others
    MaxSilent       \* bound: projects lists and rows that cannot be read or written

ASSUME StreamConstantsOK ==
    /\ Everything \notin Watched
    /\ Filter \in [Client -> Watched \cup {Everything}]
    /\ BufferCap \in Nat \ {0} /\ MaxPasses \in Nat /\ MaxSilent \in Nat

VARIABLES
    binary,     \* binary_version of each project: "own", "other" or "none"
    passing,    \* this process' pass of it: "no", "started" or "stamped"
    link,       \* each client: "away", "connected" or "streaming"
    channel,    \* its channel
    told,       \* history: projects that it believes another binary indexed
    excusedOf,  \* history: projects of which it cannot know better
    passes, silent  \* bounds

streamVars == <<binary, passing, link, channel, told, excusedOf, passes, silent>>

Event(type, p) == [type |-> type, project |-> p]

Subs == {c \in Client : link[c] # "away"}

\* The completion of a pass that could not write its row.
Untrue(ev) == ev.type = "index_complete" /\ binary[ev.project] = "other"

\* To every subscriber with room.
Publish(ev) ==
    /\ channel' = [c \in Client |->
            IF c \in Subs /\ Len(channel[c]) < BufferCap THEN Append(channel[c], ev)
            ELSE channel[c]]
    /\ excusedOf' = [c \in Client |->
            IF c \in Subs /\ (Len(channel[c]) = BufferCap \/ Untrue(ev))
            THEN excusedOf[c] \cup {ev.project} ELSE excusedOf[c]]

DriftSnapshot == {p \in Watched : binary[p] = "other"}

\* Of these, those that pass the client's filter.
Wanted(c, ps) == {p \in ps : Filter[c] \in {p, Everything}}

\* Projects whose completion it has still to read.
Completed(c) ==
    {channel[c][i].project : i \in
        {j \in DOMAIN channel[c] : channel[c][j].type = "index_complete"}}

Believes(believed, ev) ==
    IF ev.type = "index_complete" THEN believed \ {ev.project} ELSE believed

StreamInit ==
    /\ binary \in [Watched -> {"own", "other", "none"}]
    /\ passing = [p \in Watched |-> "no"]
    /\ link = [c \in Client |-> "away"]
    /\ channel = [c \in Client |-> <<>>]
    /\ told = [c \in Client |-> {}]
    /\ excusedOf = [c \in Client |-> {}]
    /\ passes = 0 /\ silent = 0

-----------------------------------------------------------------------------
(* The indexer, by its event hook *)

PassStarts(p) ==
    /\ passing[p] = "no" /\ passes < MaxPasses
    /\ passing' = [passing EXCEPT ![p] = "started"] /\ passes' = passes + 1
    /\ Publish(Event("index_started", p))
    /\ UNCHANGED <<binary, link, told, silent>>

\* Mutant: publishes index_complete in a defer.
CompletesAnyway(p) ==
    /\ passing[p] = "started"
    /\ passing' = [passing EXCEPT ![p] = "no"]
    /\ channel' = [c \in Client |->
            IF c \in Subs /\ Len(channel[c]) < BufferCap
            THEN Append(channel[c], Event("index_complete", p)) ELSE channel[c]]
    /\ UNCHANGED <<binary, link, told, excusedOf, passes, silent>>

\* An early return publishes nothing.
PassFails(p) ==
    /\ passing[p] = "started"
    /\ passing' = [passing EXCEPT ![p] = "no"]
    /\ UNCHANGED <<binary, link, channel, told, excusedOf, passes, silent>>

\* The row at the end of a pass; an error is logged.
PassStamps(p) ==
    /\ passing[p] = "started"
    /\ passing' = [passing EXCEPT ![p] = "stamped"]
    /\ \/ /\ binary' = [binary EXCEPT ![p] = "own"]
          /\ UNCHANGED silent
       \/ /\ silent < MaxSilent /\ silent' = silent + 1
          /\ UNCHANGED binary
    /\ UNCHANGED <<link, channel, told, excusedOf, passes>>

PassCompletes(p) ==
    /\ passing[p] = "stamped"
    /\ passing' = [passing EXCEPT ![p] = "no"]
    /\ Publish(Event("index_complete", p))
    /\ UNCHANGED <<binary, link, told, passes, silent>>

\* A process of another version indexes the project: nothing publishes it.
OtherPass(p) ==
    /\ passing[p] = "no" /\ passes < MaxPasses /\ passes' = passes + 1
    /\ binary' = [binary EXCEPT ![p] = "other"]
    /\ excusedOf' = [c \in Client |->
            IF link[c] = "streaming" \/ p \in Completed(c) THEN excusedOf[c] \cup {p}
            ELSE excusedOf[c]]
    /\ UNCHANGED <<passing, link, channel, told, silent>>

-----------------------------------------------------------------------------
(* handleEvents: subscribe, then the snapshot, then events as they come *)

Subscribes(c) ==
    /\ link[c] = "away"
    /\ link' = [link EXCEPT ![c] = "connected"]
    /\ UNCHANGED <<binary, passing, channel, told, excusedOf, passes, silent>>

\* A projects table that cannot be read gives an empty snapshot.
Snapshots(c) ==
    /\ link[c] = "connected"
    /\ link' = [link EXCEPT ![c] = "streaming"]
    /\ \/ /\ told' = [told EXCEPT ![c] = Wanted(c, DriftSnapshot)]
          /\ UNCHANGED <<excusedOf, silent>>
       \/ /\ silent < MaxSilent /\ silent' = silent + 1
          /\ excusedOf' = [excusedOf EXCEPT ![c] = Watched]
          /\ UNCHANGED told
    /\ UNCHANGED <<binary, passing, channel, passes>>

WritesSSE(c) ==
    /\ link[c] = "streaming" /\ channel[c] # <<>>
    /\ channel' = [channel EXCEPT ![c] = Tail(@)]
    /\ told' = [told EXCEPT ![c] =
            IF Wanted(c, {Head(channel[c]).project}) = {} THEN @
            ELSE Believes(@, Head(channel[c]))]
    /\ UNCHANGED <<binary, passing, link, excusedOf, passes, silent>>

\* The client goes: its channel is dropped with what is in it.
Unsubscribes(c) ==
    /\ link[c] = "streaming"
    /\ link' = [link EXCEPT ![c] = "away"]
    /\ channel' = [channel EXCEPT ![c] = <<>>]
    /\ told' = [told EXCEPT ![c] = {}]
    /\ excusedOf' = [excusedOf EXCEPT ![c] = {}]
    /\ UNCHANGED <<binary, passing, passes, silent>>

StreamNext ==
    \/ \E p \in Watched : PassStarts(p) \/ PassFails(p) \/ PassStamps(p)
                          \/ PassCompletes(p) \/ OtherPass(p)
    \/ \E c \in Client : Subscribes(c) \/ Snapshots(c) \/ WritesSSE(c) \/ Unsubscribes(c)

-----------------------------------------------------------------------------
(***************************************************************************)
(* What a client was told agrees with the table once it has read its       *)
(* buffer: a project is another binary's exactly if it believes so, or a   *)
(* pass is about to publish that it no longer is.  Excepted are events     *)
(* that its buffer had no room for, a table that could not be read or      *)
(* written, and another process' pass after the snapshot, or after a       *)
(* completion it has not read yet, which nobody tells it.                  *)
(***************************************************************************)
ToldIsTrue ==
    \A c \in Client : link[c] = "streaming" =>
        \A p \in Wanted(c, Watched \ excusedOf[c]) :
            /\ binary[p] = "other" => p \in told[c] \ Completed(c)
            /\ p \in told[c] \ Completed(c) => binary[p] = "other" \/ passing[p] = "stamped"
=============================================================================
