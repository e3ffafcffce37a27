----------------------------- MODULE GraphStore -----------------------------
(***************************************************************************)
(* What the index promises its readers (search, trace, query), without     *)
(* passes, goroutines, buffers and transactions: a table of symbols and a  *)
(* table of links that follow the tree file by file.                       *)
(*                                                                         *)
(* The symbols of a file appear all at once, are those of a content that   *)
(* has been read from the tree, and give way to others only after all      *)
(* links from and to the file are gone.  A link appears together with the  *)
(* symbols of its file, or when the links of some files are made anew; it  *)
(* then leads to the one symbol that a name means at that moment.          *)
(***************************************************************************)
CONSTANTS File, Content, Name, Defs, Calls, Versions, Before, Absent, None

VARIABLES
    tree,       \* the content at each path, or Absent
    taken,      \* what has been read of it, None if nothing
    held,       \* the content whose symbols are stored, or None
    links       \* the stored links

store == <<tree, taken, held, links>>

Nothing == [f \in File |-> None]
Local(f, c) == {[from |-> f, to |-> f, name |-> n] : n \in Calls[c] \cap Defs[c]}
Holds(g, n) == held[g] # None /\ n \in Defs[held[g]]

\* The file whose symbol a name means: of those that hold it, the first.
Owner(n) == {g \in File : Holds(g, n) /\ \A d \in Before[g] : ~ Holds(d, n)}

Init ==
    /\ tree \in [File -> Content \cup {Absent}]
    /\ \A f \in File : tree[f] \in Versions[f]
    /\ taken = Nothing /\ held = Nothing /\ links = {}

-----------------------------------------------------------------------------
\* The user changes a file.
Change(f) ==
    /\ \E c \in Versions[f] \ {tree[f]} : tree' = [tree EXCEPT ![f] = c]
    /\ UNCHANGED <<taken, held, links>>

Forget == taken' = Nothing

\* A file is read, once.
Take(f) ==
    /\ taken[f] = None
    /\ taken' = [taken EXCEPT ![f] = IF tree[f] = Absent THEN None ELSE tree[f]]
    /\ UNCHANGED <<tree, held, links>>

\* A file's symbols go, and with them every link from and to it.
Clear(f) ==
    /\ held' = [held EXCEPT ![f] = None]
    /\ links' = {e \in links : e.from # f /\ e.to # f}
    /\ Forget \/ UNCHANGED taken
    /\ UNCHANGED tree

\* The symbols of some files appear, in place of none; their local links
\* with them, or in a later step.
Publish(F) ==
    /\ \A f \in F : taken[f] # None /\ held[f] \in {None, taken[f]}
    /\ held' = [f \in File |-> IF f \in F THEN taken[f] ELSE held[f]]
    /\ \/ links' = links \cup UNION {Local(f, taken[f]) : f \in F}
       \/ UNCHANGED links
    /\ UNCHANGED <<tree, taken>>

\* The links of some files are made anew.
Relink(F) ==
    /\ LET kept == {e \in links : e.from \notin F \/ e.from = e.to} IN
       /\ kept \subseteq links'
       /\ \A e \in links' \ kept :
            e.from \in F /\ held[e.from] # None /\ e.to \in Owner(e.name)
    /\ UNCHANGED <<tree, taken, held>>

Next ==
    \/ \E f \in File : Change(f) \/ Take(f) \/ Clear(f)
    \/ Forget /\ UNCHANGED <<tree, held, links>>
    \/ \E F \in SUBSET File : Publish(F) \/ Relink(F)

Spec == Init /\ [][Next]_store
=============================================================================
