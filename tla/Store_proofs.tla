---------------------------- MODULE Store_proofs ----------------------------
(***************************************************************************)
(* Proofs about Store: for any number of processes, of binaries, of        *)
(* migrations, of ids and of keys.                                         *)
(*                                                                         *)
(* A version is earned, because whoever writes it has been through the     *)
(* statements before it, from a version that was earned (MigrateOK).  What *)
(* a merge does to the tables is right because a merge that leaves no scar *)
(* has them to itself at each of its steps (Undisturbed): between two of   *)
(* them others may add rows of the canonical project, and nothing else, so *)
(* that what it found at its start it still knows at its end (MergeOK,     *)
(* CountsOK).                                                              *)
(***************************************************************************)
EXTENDS Store, FiniteSetTheorems, WellFoundedInduction, TLAPS

Entry == [count : Nat, binary : Nat, schema : Nat]
Plan == [winner : Id \cup {None}, loser : Id \cup {None}, rest : SUBSET Id, tab : Nat]
Label == Opening \cup Serving \cup Down

StoreTyping ==
    /\ version \in Nat
    /\ projects \in [DOMAIN projects -> Entry] /\ DOMAIN projects \subseteq Id
    /\ rows \in [Table -> SUBSET (Id \X Key)]
    /\ pc \in [Proc -> Label]
    /\ at \in [Proc -> Nat] /\ stmt \in [Proc -> Nat]
    /\ plan \in [Proc -> Plan]
    /\ batch \in [Proc -> SUBSET Key]
    /\ total \in [Proc -> Nat] /\ seen \in [Proc -> Nat]

\* Who holds the project lock is in a pass, and nobody else is.
LockOK == \A p \in Proc : lock = p <=> pc[p] \in InPass

\* A merge has two different projects before it, of which the loser is not the
\* one with the canonical id.
PlanOK ==
    \A p \in Proc : pc[p] \in Merging =>
        /\ plan[p].winner \in Id
        /\ pc[p] \in {"move", "drop", "unlink"} =>
            /\ plan[p].loser \in Id /\ plan[p].loser \notin {Canon, plan[p].winner}
            /\ Canon \notin plan[p].rest /\ plan[p].winner \notin plan[p].rest
        /\ pc[p] \in {"move", "drop", "rekey"} => plan[p].tab \in {1, 2}
        /\ pc[p] \in {"rename", "rekey"} => plan[p].winner # Canon

-----------------------------------------------------------------------------
(* The tables.                                                             *)

\* The tables of a merge.
LEMMA Numbers ==
  /\ Len(Moved) = 2 /\ DOMAIN Moved = {1, 2} /\ Moved[1] = "symbols" /\ Moved[2] = "files"
  /\ "symbols" \in Table /\ "files" \in Table /\ "closure" \in Table /\ "pending" \in Table
BY DEF Moved, Table

\* Rows can be counted.
LEMMA RowsFinite == \A R \in SUBSET (Id \X Key) : IsFiniteSet(R) /\ Cardinality(R) \in Nat
BY ConstantsOK, FS_Product, FS_Subset, FS_CardinalityType

\* Of a finite set of projects one has the most symbols.
LEMMA WinnerExists ==
  ASSUME StoreTyping, DOMAIN projects # {}
  PROVE  Winner \in DOMAIN projects
<1> DEFINE D == DOMAIN projects
           Above(i) == {j \in D : projects[j].count > projects[i].count}
           T == {Above(i) : i \in D}
<1>1. \A i \in D : projects[i].count \in Nat
  BY DEF StoreTyping, Entry
<1>2. IsFiniteSet(D)
  BY ConstantsOK, FS_Subset DEF StoreTyping
<1>3. IsWellFoundedOn(StrictSubsetOrdering(D), SUBSET D)
  BY <1>2, FS_StrictSubsetOrderingWellFounded, FS_FiniteSubsetsOfFinite
<1>4. T \subseteq SUBSET D /\ T # {}
  OBVIOUS
<1> HIDE DEF T
<1>5. PICK x \in T : \A y \in T : ~ (<<y, x>> \in StrictSubsetOrdering(D))
  BY <1>3, <1>4, WFMin
<1>6. PICK i \in D : x = Above(i)
  BY <1>5 DEF T
<1>7. Above(i) = {}
  <2> SUFFICES ASSUME NEW j \in Above(i) PROVE FALSE
    OBVIOUS
  <2>1. j \in D /\ Above(j) \in T /\ projects[j].count > projects[i].count
    BY DEF T
  <2>2. Above(j) \subseteq Above(i) /\ j \notin Above(j)
    BY <1>1, <2>1
  <2>3. <<Above(j), x>> \in StrictSubsetOrdering(D)
    BY <1>6, <2>1, <2>2 DEF StrictSubsetOrdering
  <2> QED
    BY <1>5, <2>1, <2>3
<1>8. \A j \in D : projects[j].count <= projects[i].count
  BY <1>1, <1>7
<1> QED
  BY <1>8 DEF Winner

\* What is made of the projects table.
LEMMA EntryTypes ==
  ASSUME StoreTyping
  PROVE  /\ \A i \in Id, e \in Entry :
                /\ With(projects, i, e) \in [DOMAIN projects \cup {i} -> Entry]
                /\ DOMAIN With(projects, i, e) = DOMAIN projects \cup {i}
         /\ \A i : /\ Without(projects, i) \in [DOMAIN projects \ {i} -> Entry]
                   /\ DOMAIN Without(projects, i) = DOMAIN projects \ {i}
BY DEF StoreTyping, With, Without

\* And of the rows.
LEMMA RekeyTypes ==
  ASSUME NEW S \in SUBSET (Id \X Key), NEW from \in Id, NEW to \in Id
  PROVE  Rekey(S, from, to) \in SUBSET (Id \X Key)
BY DEF Rekey

-----------------------------------------------------------------------------
(* Types.                                                                  *)

\* Every step keeps the types of the positions of the processes.
LEMMA PlaceTypeStep ==
  StoreTyping /\ PlanOK /\ [Next]_vars
  => /\ version' \in Nat /\ pc' \in [Proc -> Label]
     /\ at' \in [Proc -> Nat] /\ stmt' \in [Proc -> Nat]
     /\ plan' \in [Proc -> Plan]
<1> SUFFICES ASSUME StoreTyping, PlanOK, [Next]_vars
             PROVE  /\ version' \in Nat /\ pc' \in [Proc -> Label]
                    /\ at' \in [Proc -> Nat] /\ stmt' \in [Proc -> Nat]
                    /\ plan' \in [Proc -> Plan]
  OBVIOUS
<1> USE DEF schema, tables, migration, pass, ghosts
<1>0. /\ version \in Nat /\ pc \in [Proc -> Label] /\ at \in [Proc -> Nat]
      /\ stmt \in [Proc -> Nat] /\ plan \in [Proc -> Plan] /\ NoPlan \in Plan
  BY DEF StoreTyping, NoPlan, Plan
<1>1. ASSUME NEW p \in Proc, \E l \in Label : Goto(p, l) PROVE pc' \in [Proc -> Label]
  BY <1>0, <1>1 DEF Goto
<1>2. ASSUME NEW p \in Proc, Migrate(p)
      PROVE  /\ version' \in Nat /\ pc' \in [Proc -> Label]
             /\ at' \in [Proc -> Nat] /\ stmt' \in [Proc -> Nat]
             /\ plan' \in [Proc -> Plan]
  <2>1. pc' = pc \/ \E l \in Label : Goto(p, l)
    BY <1>2 DEF Migrate, OpenStart, Bootstrap, ReadVersion, RunStatement, BumpVersion,
                Migrated, Busy, Return, Label, Opening, Serving, Down
  <2>2. version' \in Nat
    BY <1>0, <1>2 DEF Migrate, OpenStart, Bootstrap, ReadVersion, RunStatement, BumpVersion,
                Migrated, Busy, Return
  <2>3. at' \in [Proc -> Nat]
    <3>1. \/ at' = at \/ at' = [at EXCEPT ![p] = version]
          \/ at' = [at EXCEPT ![p] = @ + 1]
      BY <1>2 DEF Migrate, OpenStart, Bootstrap, ReadVersion, RunStatement, BumpVersion,
                Migrated, Busy
    <3> QED
      BY <1>0, <3>1
  <2>4. stmt' \in [Proc -> Nat]
    <3>1. \/ stmt' = stmt \/ stmt' = [stmt EXCEPT ![p] = 1]
          \/ stmt' = [stmt EXCEPT ![p] = @ + 1]
      BY <1>2 DEF Migrate, OpenStart, Bootstrap, ReadVersion, RunStatement, BumpVersion,
                Migrated, Busy
    <3> QED
      BY <1>0, <3>1
  <2>5. plan' \in [Proc -> Plan]
    <3>1. plan' = plan \/ plan' = [plan EXCEPT ![p] = NoPlan]
      BY <1>2 DEF Migrate, OpenStart, Bootstrap, ReadVersion, RunStatement, BumpVersion,
                Migrated, Busy, Return
    <3> QED
      BY <1>0, <3>1
  <2> QED
    BY <1>0, <1>1, <2>1, <2>2, <2>3, <2>4, <2>5
<1>3. ASSUME NEW p \in Proc, Dedup(p)
      PROVE  /\ version' \in Nat /\ pc' \in [Proc -> Label]
             /\ at' \in [Proc -> Nat] /\ stmt' \in [Proc -> Nat]
             /\ plan' \in [Proc -> Plan]
  <2>1. \E l \in Label : Goto(p, l)
    BY <1>3 DEF Dedup, Scan, Move, Drop, Unlink, Rename, RekeyTable, Recount, Fail,
                Return, Label, Opening, Merging, Serving, Down
  <2>2. UNCHANGED <<version, at, stmt>>
    BY <1>3 DEF Dedup, Scan, Move, Drop, Unlink, Rename, RekeyTable, Recount
  <2>3. plan' \in [Proc -> Plan]
    <3>1. CASE Scan(p)
      <4>1. CASE plan' = plan
        BY <1>0, <4>1
      <4>2. CASE DOMAIN projects # {}
        <5>1. Winner \in Id /\ DOMAIN projects \subseteq Id
          BY <4>2, WinnerExists DEF StoreTyping
        <5>2. plan' = plan \/ \E l \in DOMAIN projects \ {Winner} :
                plan' = [plan EXCEPT ![p] =
                    [winner |-> Winner, loser |-> l, tab |-> 1,
                     rest |-> DOMAIN projects \ {Winner, l}]]
          BY <3>1 DEF Scan
        <5>3. \A l \in DOMAIN projects :
                [winner |-> Winner, loser |-> l, tab |-> 1,
                 rest |-> DOMAIN projects \ {Winner, l}] \in Plan
          BY <5>1 DEF Plan
        <5> QED
          BY <1>0, <5>2, <5>3
      <4>3. CASE DOMAIN projects = {}
        <5>1. Cardinality(DOMAIN projects) = 0
          BY <4>3, FS_EmptySet
        <5> QED
          BY <1>0, <3>1, <5>1 DEF Scan
      <4> QED
        BY <4>2, <4>3
    <3>2. CASE \/ plan' = plan \/ plan' = [plan EXCEPT ![p] = NoPlan]
               \/ plan' = [plan EXCEPT ![p].tab = @ + 1]
               \/ plan' = [plan EXCEPT ![p].tab = 1]
      BY SMTT(60), <1>0, <3>2 DEF Plan
    <3>3. CASE \E l \in plan[p].rest :
                  plan' = [plan EXCEPT ![p].loser = l, ![p].rest = @ \ {l}, ![p].tab = 1]
      <4>1. PICK l \in plan[p].rest :
                  plan' = [plan EXCEPT ![p].loser = l, ![p].rest = @ \ {l}, ![p].tab = 1]
        BY <3>3
      <4>2. plan[p] \in Plan /\ l \in Id
        BY <1>0 DEF Plan
      <4>3. [plan[p] EXCEPT !.loser = l, !.rest = @ \ {l}, !.tab = 1] \in Plan
        BY <4>2 DEF Plan
      <4>4. plan' = [plan EXCEPT ![p] =
                        [plan[p] EXCEPT !.loser = l, !.rest = @ \ {l}, !.tab = 1]]
        BY <4>1, <1>0 DEF Plan
      <4> QED
        BY <1>0, <4>3, <4>4
    <3> QED
      BY <1>3, <3>1, <3>2, <3>3
      DEF Dedup, Move, Drop, Unlink, Rename, RekeyTable, Recount, Fail
  <2> QED
    BY <1>0, <1>1, <2>1, <2>2, <2>3
<1>4. ASSUME NEW p \in Proc,
             \/ Pass(p) \/ ListEmpty(p) \/ Sweep(p)
             \/ \E id \in Id : DeleteProject(p, id)
      PROVE  /\ version' \in Nat /\ pc' \in [Proc -> Label]
             /\ at' \in [Proc -> Nat] /\ stmt' \in [Proc -> Nat]
             /\ plan' \in [Proc -> Plan]
  <2>1. UNCHANGED <<version, at, stmt, plan>>
    BY <1>4 DEF Pass, PassStart, PassReread, PassMeta, PassCommit, PassFlush,
        PassStats, PassLook, PassStamp, PassClosure,
                ListEmpty, Sweep, DeleteProject
  <2>2. pc' = pc \/ \E l \in Label : Goto(p, l)
    BY <1>4 DEF Pass, PassStart, PassReread, PassMeta, PassCommit, PassFlush,
        PassStats, PassLook, PassStamp, PassClosure,
                ListEmpty, Sweep, DeleteProject, Label, Serving, InPass
  <2> QED
    BY <1>0, <1>1, <2>1, <2>2
<1>5. ASSUME NEW p \in Proc, DriftTick(p) \/ Exit(p) \/ Crash(p)
      PROVE  /\ version' \in Nat /\ pc' \in [Proc -> Label]
             /\ at' \in [Proc -> Nat] /\ stmt' \in [Proc -> Nat]
             /\ plan' \in [Proc -> Plan]
  <2>1. Gone(p)
    BY <1>5 DEF DriftTick, Exit, Crash
  <2>2. \E l \in Label : Goto(p, l)
    BY <2>1 DEF Gone, Label, Down
  <2> QED
    BY <1>0, <1>1, <2>1, <2>2 DEF Gone
<1>6. CASE UNCHANGED vars
  BY <1>0, <1>6 DEF vars
<1> QED
  BY <1>2, <1>3, <1>4, <1>5, <1>6 DEF Next

\* Every step keeps the types of the tables, and of what a pass carries.
LEMMA TableTypeStep ==
  StoreTyping /\ PlanOK /\ [Next]_vars
  => /\ projects' \in [DOMAIN projects' -> Entry] /\ DOMAIN projects' \subseteq Id
     /\ rows' \in [Table -> SUBSET (Id \X Key)]
     /\ batch' \in [Proc -> SUBSET Key] /\ total' \in [Proc -> Nat] /\ seen' \in [Proc -> Nat]
<1> DEFINE Goal == /\ projects' \in [DOMAIN projects' -> Entry] /\ DOMAIN projects' \subseteq Id
                   /\ rows' \in [Table -> SUBSET (Id \X Key)]
                   /\ batch' \in [Proc -> SUBSET Key] /\ total' \in [Proc -> Nat]
                   /\ seen' \in [Proc -> Nat]
<1> SUFFICES ASSUME StoreTyping, PlanOK, [Next]_vars PROVE Goal
  OBVIOUS
<1> USE DEF schema, tables, migration, pass, ghosts
<1>0. /\ projects \in [DOMAIN projects -> Entry] /\ DOMAIN projects \subseteq Id
      /\ rows \in [Table -> SUBSET (Id \X Key)] /\ plan \in [Proc -> Plan]
      /\ batch \in [Proc -> SUBSET Key] /\ total \in [Proc -> Nat] /\ seen \in [Proc -> Nat]
      /\ Canon \in Id /\ \A p \in Proc : Knows[p] \in Nat /\ Binary[p] \in Nat
  BY ConstantsOK DEF StoreTyping, MaxVersion
<1> DEFINE POK == projects' \in [DOMAIN projects' -> Entry] /\ DOMAIN projects' \subseteq Id
           ROK == rows' \in [Table -> SUBSET (Id \X Key)]
           BOK == batch' \in [Proc -> SUBSET Key]
           TOK == total' \in [Proc -> Nat] /\ seen' \in [Proc -> Nat]
<1>a. ASSUME NEW i \in Id, NEW e \in Entry, projects' = With(projects, i, e) PROVE POK
  <2>1. projects' \in [DOMAIN projects \cup {i} -> Entry]
        /\ DOMAIN projects' = DOMAIN projects \cup {i}
    BY <1>a, EntryTypes
  <2> QED
    BY <1>0, <2>1
<1>b. ASSUME NEW i, projects' = Without(projects, i) PROVE POK
  <2>1. projects' \in [DOMAIN projects \ {i} -> Entry]
        /\ DOMAIN projects' = DOMAIN projects \ {i}
    BY <1>b, EntryTypes
  <2> QED
    BY <1>0, <2>1
<1>c. ASSUME NEW t \in Table, NEW S \in SUBSET (Id \X Key), rows' = [rows EXCEPT ![t] = S]
      PROVE  ROK
  BY <1>0, <1>c
<1>1. ASSUME NEW p \in Proc, Migrate(p) PROVE Goal
  BY <1>0, <1>1 DEF Migrate, OpenStart, Bootstrap, ReadVersion, RunStatement, BumpVersion,
                Migrated, Busy
<1>2. ASSUME NEW p \in Proc, Dedup(p) PROVE Goal
  <2>1. UNCHANGED <<batch, total, seen>>
    BY <1>2 DEF Dedup, Scan, Move, Drop, Unlink, Rename, RekeyTable, Recount
  <2>2. ASSUME pc[p] \in Merging, pc[p] \in {"move", "drop", "rekey"}
        PROVE  /\ Moved[plan[p].tab] \in Table /\ plan[p].winner \in Id
               /\ rows[Moved[plan[p].tab]] \in SUBSET (Id \X Key)
    BY <1>0, <2>2, Numbers DEF PlanOK
  <2>3. CASE Scan(p)
    BY <1>0, <2>1, <2>3 DEF Scan
  <2>4. CASE Move(p)
    <3> DEFINE t == Moved[plan[p].tab]
               go == {r \in Of(t, plan[p].loser) : <<plan[p].winner, r[2]>> \notin rows[t]}
    <3>1. pc[p] = "move" /\ pc[p] \in Merging
      BY <2>4 DEF Move, Merging
    <3>2. plan[p].loser \in Id /\ plan[p].winner \in Id /\ t \in Table
          /\ rows[t] \in SUBSET (Id \X Key)
      BY <2>2, <3>1 DEF PlanOK
    <3>3. go \in SUBSET (Id \X Key)
      BY <3>2 DEF Of
    <3>4. (rows[t] \ go) \cup Rekey(go, plan[p].loser, plan[p].winner) \in SUBSET (Id \X Key)
      <4> HIDE DEF go, t
      <4> QED
        BY <3>2, <3>3, RekeyTypes
    <3>5. rows' = rows \/ rows' = [rows EXCEPT ![t] =
                (rows[t] \ go) \cup Rekey(go, plan[p].loser, plan[p].winner)]
      BY <2>4 DEF Move
    <3>6. UNCHANGED projects
      BY <2>4 DEF Move
    <3>7. ROK
      <4> HIDE DEF go, t
      <4> QED
        BY <1>0, <1>c, <3>2, <3>4, <3>5
    <3> QED
      BY <1>0, <2>1, <3>6, <3>7
  <2>5. CASE Drop(p)
    <3>1. pc[p] = "drop" /\ pc[p] \in Merging /\ UNCHANGED projects
      BY <2>5 DEF Drop, Merging
    <3>2. rows' = [rows EXCEPT ![Moved[plan[p].tab]] =
                        rows[Moved[plan[p].tab]] \ Of(Moved[plan[p].tab], plan[p].loser)]
      BY <2>5 DEF Drop
    <3>3. ROK
      <4> DEFINE t == Moved[plan[p].tab]
      <4>1. t \in Table /\ rows[t] \ Of(t, plan[p].loser) \in SUBSET (Id \X Key)
        BY <2>2, <3>1
      <4>2. rows' = [rows EXCEPT ![t] = rows[t] \ Of(t, plan[p].loser)]
        BY <3>2
      <4> HIDE DEF t
      <4> QED
        BY <1>c, <4>1, <4>2
    <3> QED
      BY <1>0, <2>1, <3>1, <3>3
  <2>6. CASE Unlink(p)
    <3>1. plan[p].loser \in Id /\ UNCHANGED rows
      BY <2>6 DEF Unlink, PlanOK, Merging
    <3>2. projects' = projects \/ projects' = Without(projects, plan[p].loser)
      BY <2>6 DEF Unlink
    <3> QED
      BY <1>0, <1>b, <2>1, <3>1, <3>2
  <2>7. CASE Rename(p)
    <3> DEFINE w == plan[p].winner
    <3>1. w \in Id /\ UNCHANGED rows
      BY <2>7 DEF Rename, PlanOK, Merging
    <3>2. \/ projects' = projects
          \/ w \in DOMAIN projects
             /\ projects' = With(Without(projects, w), Canon, projects[w])
      BY <2>7 DEF Rename
    <3>3. ASSUME w \in DOMAIN projects, projects' = With(Without(projects, w), Canon, projects[w])
          PROVE  POK
      <4>1. /\ Without(projects, w) \in [DOMAIN projects \ {w} -> Entry]
            /\ DOMAIN Without(projects, w) = DOMAIN projects \ {w}
        BY <3>1, EntryTypes
      <4>2. projects[w] \in Entry
        BY <1>0, <3>3
      <4> HIDE DEF w
      <4> QED
        BY <1>0, <3>3, <4>1, <4>2 DEF With
    <3> QED
      BY <1>0, <2>1, <3>1, <3>2, <3>3
  <2>8. CASE RekeyTable(p)
    <3> DEFINE t == Moved[plan[p].tab]
    <3>1. pc[p] = "rekey" /\ pc[p] \in Merging /\ UNCHANGED projects
      BY <2>8 DEF RekeyTable, Merging
    <3>2. rows' = rows \/ rows' = [rows EXCEPT ![t] = Rekey(rows[t], plan[p].winner, Canon)]
      BY <2>8 DEF RekeyTable
    <3>3. Rekey(rows[t], plan[p].winner, Canon) \in SUBSET (Id \X Key)
      BY <1>0, <2>2, <3>1, RekeyTypes
    <3>4. ROK
      BY <1>0, <1>c, <2>2, <3>1, <3>2, <3>3
    <3> QED
      BY <1>0, <2>1, <3>1, <3>4
  <2>9. CASE Recount(p)
    <3>1. UNCHANGED rows
      BY <2>9 DEF Recount
    <3>2. Cardinality(Of("symbols", Canon)) \in Nat
      <4>1. Of("symbols", Canon) \in SUBSET (Id \X Key)
        BY <1>0, Numbers DEF Of
      <4> QED
        BY <4>1, RowsFinite
    <3>3. \/ projects' = projects
          \/ projects' = [projects EXCEPT ![Canon].count = Cardinality(Of("symbols", Canon))]
      BY <2>9 DEF Recount
    <3>4. POK
      BY <1>0, <3>2, <3>3 DEF Entry
    <3> QED
      BY <1>0, <2>1, <3>1, <3>4
  <2> QED
    BY <1>2, <2>3, <2>4, <2>5, <2>6, <2>7, <2>8, <2>9 DEF Dedup
<1>3. ASSUME NEW p \in Proc, Pass(p) PROVE Goal
  <2>0. See(p) => seen' \in [Proc -> Nat]
    <3>1. /\ seen \in [Proc -> Nat] /\ seen[p] \in Nat
          /\ (IF Canon \in DOMAIN projects THEN Larger(seen[p], projects[Canon].binary)
              ELSE seen[p]) \in Nat
      BY <1>0 DEF Entry, Larger
    <3> QED
      BY <3>1 DEF See
  <2>1. CASE PassStart(p) \/ PassReread(p) \/ PassLook(p)
    BY <1>0, <2>0, <2>1 DEF PassStart, PassReread, PassLook
  <2>7. CASE PassMeta(p)
    <3>1. UNCHANGED <<rows, batch>> /\ TOK
      BY <1>0, <2>7 DEF PassMeta
    <3>2. [count |-> 0, binary |-> seen[p], schema |-> Knows[p]] \in Entry
      BY <1>0 DEF Entry
    <3>3. Canon \in DOMAIN projects => Renewed(p, projects[Canon]) \in Entry
      BY <1>0 DEF Entry, Renewed, Larger
    <3>4. \E e \in Entry : projects' = With(projects, Canon, e)
      BY <2>7, <3>2, <3>3 DEF PassMeta
    <3> QED
      BY <1>0, <1>a, <3>1, <3>4
  <2>2. CASE PassCommit(p)
    <3>1. UNCHANGED <<projects, total, seen>>
      BY <2>2 DEF PassCommit
    <3>2. BOK
      BY <1>0, <2>2 DEF PassCommit
    <3>3. batch'[p] \in SUBSET Key
      BY <3>2
    <3>4. ROK
      BY <1>0, <2>2, <3>3 DEF PassCommit
    <3> QED
      BY <1>0, <3>1, <3>2, <3>4
  <2>3. CASE PassFlush(p)
    <3>1. UNCHANGED <<projects, total, seen>>
      BY <2>3 DEF PassFlush
    <3>2. BOK
      BY <1>0, <2>3 DEF PassFlush
    <3>3. rows["symbols"] \cup ({Canon} \X batch[p]) \in SUBSET (Id \X Key)
      BY <1>0, Numbers
    <3>4. ROK
      BY <1>0, <1>c, <2>3, <3>3, Numbers DEF PassFlush
    <3> QED
      BY <1>0, <3>1, <3>2, <3>4
  <2>4. CASE PassStats(p)
    <3>1. Cardinality(Of("symbols", Canon)) \in Nat
      <4>1. Of("symbols", Canon) \in SUBSET (Id \X Key)
        BY <1>0, Numbers DEF Of
      <4> QED
        BY <4>1, RowsFinite
    <3> QED
      BY <1>0, <2>4, <3>1 DEF PassStats
  <2>5. CASE PassStamp(p)
    <3>1. UNCHANGED <<rows, batch>> /\ TOK
      BY <1>0, <2>5 DEF PassStamp
    <3>2. [count |-> total[p], binary |-> Larger(Binary[p], seen[p]), schema |-> Knows[p]]
                \in Entry
      BY <1>0 DEF Entry, Larger
    <3>3. Canon \in DOMAIN projects => Stamped(p, projects[Canon]) \in Entry
      BY <1>0 DEF Entry, Stamped, Larger
    <3>4. \E e \in Entry : projects' = With(projects, Canon, e)
      BY <2>5, <3>2, <3>3 DEF PassStamp
    <3> QED
      BY <1>0, <1>a, <3>1, <3>4
  <2>6. CASE PassClosure(p)
    <3>1. UNCHANGED <<projects, batch, total, seen>>
      BY <2>6 DEF PassClosure
    <3>2. (rows["closure"] \ Of("closure", Canon)) \cup Of("symbols", Canon)
                \in SUBSET (Id \X Key)
      BY <1>0, Numbers DEF Of
    <3>3. ROK
      BY <1>0, <1>c, <2>6, <3>2, Numbers DEF PassClosure
    <3> QED
      BY <1>0, <3>1, <3>3
  <2> QED
    BY <1>3, <2>1, <2>2, <2>3, <2>4, <2>5, <2>6, <2>7 DEF Pass
<1>4. ASSUME NEW id, Deleted(id) PROVE POK /\ ROK
  BY <1>0, <1>b, <1>4 DEF Deleted, Of
<1>5. ASSUME NEW p \in Proc, ListEmpty(p) \/ Sweep(p) \/ \E id \in Id : DeleteProject(p, id)
      PROVE  Goal
  <2>1. UNCHANGED <<batch, total, seen>>
    BY <1>5 DEF ListEmpty, Sweep, DeleteProject
  <2>2. UNCHANGED <<projects, rows>> \/ \E id : Deleted(id)
    BY <1>5 DEF ListEmpty, Sweep, DeleteProject
  <2> QED
    BY <1>0, <1>4, <2>1, <2>2
<1>6. ASSUME NEW p \in Proc, DriftTick(p) \/ Exit(p) \/ Crash(p) PROVE Goal
  BY <1>0, <1>6 DEF DriftTick, Exit, Crash, Gone
<1>7. CASE UNCHANGED vars
  BY <1>0, <1>7 DEF vars
<1> QED
  BY <1>1, <1>2, <1>3, <1>5, <1>6, <1>7 DEF Next

\* A step is one process', and leaves the places and plans of the others.
LEMMA OneProcess ==
  ASSUME StoreTyping, NEW p \in Proc,
         \/ Migrate(p) \/ Dedup(p) \/ Pass(p) \/ ListEmpty(p) \/ Sweep(p)
         \/ \E id \in Id : DeleteProject(p, id)
         \/ DriftTick(p) \/ Exit(p) \/ Crash(p)
  PROVE  \A q \in Proc : q # p => /\ pc'[q] = pc[q] /\ plan'[q] = plan[q]
                                  /\ total'[q] = total[q] /\ seen'[q] = seen[q]
<1> USE DEF schema, tables, migration, pass, ghosts
<1>1. \/ pc' = pc \/ \E l : pc' = [pc EXCEPT ![p] = l]
  BY DEF Migrate, OpenStart, Bootstrap, ReadVersion, RunStatement, BumpVersion, Migrated,
         Busy, Dedup, Scan, Move, Drop, Unlink, Rename, RekeyTable, Recount, Fail,
         Pass, PassStart, PassReread, PassMeta, PassCommit, PassFlush, PassStats,
         PassLook, PassStamp, PassClosure,
         ListEmpty, Sweep, DeleteProject, DriftTick, Exit, Crash, Gone, Goto, Return
<1>2. \A q \in Proc : q # p => plan'[q] = plan[q]
  BY DEF Migrate, OpenStart, Bootstrap, ReadVersion, RunStatement, BumpVersion, Migrated,
         Busy, Dedup, Scan, Move, Drop, Unlink, Rename, RekeyTable, Recount, Fail,
         Pass, PassStart, PassReread, PassMeta, PassCommit, PassFlush, PassStats,
         PassLook, PassStamp, PassClosure,
         ListEmpty, Sweep, DeleteProject, DriftTick, Exit, Crash, Gone, StoreTyping
<1>3. \A q \in Proc : q # p => total'[q] = total[q] /\ seen'[q] = seen[q]
  BY DEF Migrate, OpenStart, Bootstrap, ReadVersion, RunStatement, BumpVersion, Migrated,
         Busy, Dedup, Scan, Move, Drop, Unlink, Rename, RekeyTable, Recount, Fail,
         Pass, PassStart, PassReread, PassMeta, PassCommit, PassFlush, PassStats,
         PassLook, PassStamp, PassClosure,
         ListEmpty, Sweep, DeleteProject, DriftTick, Exit, Crash, Gone, See, StoreTyping
<1> QED
  BY <1>1, <1>2, <1>3 DEF StoreTyping

\* Every step keeps the lock with the pass that has taken it.
LEMMA LockStep == StoreTyping /\ LockOK /\ [Next]_vars => LockOK'
<1> SUFFICES ASSUME StoreTyping, LockOK, [Next]_vars PROVE LockOK'
  OBVIOUS
<1> USE DEF schema, tables, migration, pass, ghosts
<1>1. None \notin Proc /\ pc \in [Proc -> Label]
  BY ConstantsOK DEF StoreTyping
<1>2. ASSUME NEW p \in Proc, UNCHANGED lock, \E l : Goto(p, l) /\ (l \in InPass <=> pc[p] \in InPass)
      PROVE  LockOK'
  BY <1>1, <1>2 DEF LockOK, Goto
<1>3. ASSUME NEW p \in Proc, Migrate(p) PROVE LockOK'
  <2>1. CASE UNCHANGED <<lock, pc>>
    BY <2>1 DEF LockOK
  <2>2. CASE UNCHANGED lock /\ \E l : Goto(p, l) /\ l \notin InPass /\ pc[p] \notin InPass
    BY <1>2, <2>2
  <2> QED
    BY <1>3, <2>1, <2>2
    DEF Migrate, OpenStart, Bootstrap, ReadVersion, RunStatement, BumpVersion, Migrated,
        Busy, Return, InPass, Down, Merging, Pending
<1>4. ASSUME NEW p \in Proc, Dedup(p) PROVE LockOK'
  <2>1. UNCHANGED lock /\ \E l : Goto(p, l) /\ l \notin InPass /\ pc[p] \notin InPass
    BY <1>4 DEF Dedup, Scan, Move, Drop, Unlink, Rename, RekeyTable, Recount, Fail,
                Return, InPass
  <2> QED
    BY <1>2, <2>1
<1>5. ASSUME NEW p \in Proc, Pass(p) PROVE LockOK'
  <2>1. CASE PassStart(p)
    BY <1>1, <2>1 DEF PassStart, LockOK, Goto, InPass
  <2>2. CASE PassClosure(p)
    BY <1>1, <2>2 DEF PassClosure, LockOK, Goto, InPass
  <2>3. CASE \/ PassReread(p) \/ PassMeta(p) \/ PassCommit(p) \/ PassFlush(p)
             \/ PassStats(p) \/ PassLook(p)
             \/ PassStamp(p)
    <3>1. UNCHANGED lock /\ \E l : Goto(p, l) /\ l \in InPass /\ pc[p] \in InPass
      BY <2>3 DEF PassReread, PassMeta, PassCommit, PassFlush, PassStats, PassLook,
          PassStamp, See, InPass
    <3> QED
      BY <1>2, <3>1
  <2> QED
    BY <1>5, <2>1, <2>2, <2>3 DEF Pass
<1>6. ASSUME NEW p \in Proc, ListEmpty(p) \/ Sweep(p) \/ \E id \in Id : DeleteProject(p, id)
      PROVE  LockOK'
  <2>1. CASE UNCHANGED <<lock, pc>>
    BY <2>1 DEF LockOK
  <2>2. CASE UNCHANGED lock /\ \E l : Goto(p, l) /\ l \notin InPass /\ pc[p] \notin InPass
    BY <1>2, <2>2
  <2> QED
    BY <1>6, <2>1, <2>2 DEF ListEmpty, Sweep, DeleteProject, InPass
<1>7. ASSUME NEW p \in Proc, DriftTick(p) \/ Exit(p) \/ Crash(p) PROVE LockOK'
  <2>1. Gone(p)
    BY <1>7 DEF DriftTick, Exit, Crash
  <2>2. "down" \notin InPass
    BY DEF InPass
  <2> QED
    BY <1>1, <2>1, <2>2 DEF Gone, Goto, LockOK
<1>8. CASE UNCHANGED vars
  BY <1>8 DEF vars, LockOK
<1> QED
  BY <1>3, <1>4, <1>5, <1>6, <1>7, <1>8 DEF Next

\* Every step keeps the plans of merges.
LEMMA PlanStep == StoreTyping /\ PlanOK /\ [Next]_vars => PlanOK'
<1> SUFFICES ASSUME StoreTyping, PlanOK, [Next]_vars PROVE PlanOK'
  OBVIOUS
<1> USE DEF schema, tables, migration, pass, ghosts
<1> DEFINE Good(q) ==
        pc'[q] \in Merging =>
            /\ plan'[q].winner \in Id
            /\ pc'[q] \in {"move", "drop", "unlink"} =>
                /\ plan'[q].loser \in Id /\ plan'[q].loser \notin {Canon, plan'[q].winner}
                /\ Canon \notin plan'[q].rest /\ plan'[q].winner \notin plan'[q].rest
            /\ pc'[q] \in {"move", "drop", "rekey"} => plan'[q].tab \in {1, 2}
            /\ pc'[q] \in {"rename", "rekey"} => plan'[q].winner # Canon
<1>1. ASSUME NEW p \in Proc, \A q \in Proc : q # p => pc'[q] = pc[q] /\ plan'[q] = plan[q],
             Good(p)
      PROVE  PlanOK'
  BY <1>1 DEF PlanOK
<1>2. pc \in [Proc -> Label] /\ plan \in [Proc -> Plan]
  BY DEF StoreTyping
<1>3. ASSUME NEW p \in Proc, pc'[p] \notin Merging,
             \A q \in Proc : q # p => pc'[q] = pc[q] /\ plan'[q] = plan[q]
      PROVE  PlanOK'
  BY <1>1, <1>3
<1>4. ASSUME NEW p \in Proc, Migrate(p) PROVE PlanOK'
  <2>1. pc'[p] \notin Merging
    BY <1>2, <1>4 DEF Migrate, OpenStart, Bootstrap, ReadVersion, RunStatement, BumpVersion,
        Migrated, Busy, Return, Goto, Merging, Pending
  <2> QED
    BY <1>3, <1>4, <2>1, OneProcess
<1>5. ASSUME NEW p \in Proc,
             \/ Pass(p) \/ ListEmpty(p) \/ Sweep(p) \/ \E id \in Id : DeleteProject(p, id)
             \/ DriftTick(p) \/ Exit(p) \/ Crash(p)
      PROVE  PlanOK'
  <2>1. pc'[p] \notin Merging
    BY <1>2, <1>5 DEF Pass, PassStart, PassReread, PassMeta, PassCommit, PassFlush,
        PassStats, PassLook, PassStamp,
        PassClosure, ListEmpty, Sweep, DeleteProject, DriftTick, Exit, Crash, Gone,
        Goto, Merging
  <2> QED
    BY <1>3, <1>5, <2>1, OneProcess
<1>6. ASSUME NEW p \in Proc, Dedup(p) PROVE PlanOK'
  <2>1. \A q \in Proc : q # p => pc'[q] = pc[q] /\ plan'[q] = plan[q]
    BY <1>6, OneProcess
  <2>2. ASSUME pc'[p] \notin Merging PROVE PlanOK'
    BY <1>3, <2>1, <2>2
  <2>3. ASSUME Fail(p) PROVE PlanOK'
    BY <1>2, <2>2, <2>3 DEF Fail, Return, Goto, Merging
  <2>4. CASE Scan(p) /\ pc'[p] \in Merging
    <3>1. DOMAIN projects # {}
      <4>1. CASE DOMAIN projects = {}
        <5>1. Cardinality(DOMAIN projects) = 0
          BY <4>1, FS_EmptySet
        <5>2. pc'[p] = "open"
          BY <1>2, <2>4, <5>1 DEF Scan, Return, Goto
        <5> QED
          BY <2>4, <5>2 DEF Merging
      <4> QED
        BY <4>1
    <3>2. Winner \in Id /\ DOMAIN projects \subseteq Id
      BY <3>1, WinnerExists DEF StoreTyping
    <3>3. \E l \in DOMAIN projects \ {Winner} :
            /\ plan' = [plan EXCEPT ![p] =
                    [winner |-> Winner, loser |-> l, tab |-> 1,
                     rest |-> DOMAIN projects \ {Winner, l}]]
            /\ pc' = [pc EXCEPT ![p] = "move"]
      <4>1. pc'[p] # "open"
        BY <2>4 DEF Merging
      <4> QED
        BY <1>2, <2>4, <4>1 DEF Scan, Return, Goto
    <3>4. Canon \in DOMAIN projects => Winner = Canon
      BY DEF Winner
    <3>5. PICK l \in DOMAIN projects \ {Winner} :
            /\ plan'[p] = [winner |-> Winner, loser |-> l, tab |-> 1,
                           rest |-> DOMAIN projects \ {Winner, l}]
            /\ pc'[p] = "move"
      BY <1>2, <3>3
    <3>6. Good(p)
      BY <3>2, <3>4, <3>5
    <3> QED
      BY <1>1, <2>1, <3>6
  <2>5. CASE Move(p) /\ ~ Fail(p)
    <3>1. pc[p] = "move" /\ pc[p] \in Merging /\ plan' = plan /\ pc'[p] = "drop"
      BY <1>2, <2>5 DEF Move, Merging, Goto
    <3> QED
      BY <1>1, <2>1, <3>1 DEF PlanOK
  <2>6. CASE Drop(p)
    <3>1. pc[p] = "drop" /\ pc[p] \in Merging
      BY <2>6 DEF Drop, Merging
    <3>2. plan[p].tab \in {1, 2}
      BY <3>1 DEF PlanOK
    <3>3. CASE plan[p].tab = 1
      <4>1. pc'[p] = "move" /\ plan' = [plan EXCEPT ![p].tab = @ + 1]
        BY <1>2, <2>6, <3>3, Numbers DEF Drop, Goto
      <4>2. /\ plan'[p].tab = 2 /\ plan'[p].winner = plan[p].winner
            /\ plan'[p].loser = plan[p].loser /\ plan'[p].rest = plan[p].rest
        BY <1>2, <3>3, <4>1 DEF Plan
      <4> QED
        BY <1>1, <2>1, <3>1, <4>1, <4>2 DEF PlanOK
    <3>4. CASE plan[p].tab = 2
      <4>1. pc'[p] = "unlink" /\ plan' = plan
        BY <1>2, <2>6, <3>4, Numbers DEF Drop, Goto
      <4> QED
        BY <1>1, <2>1, <3>1, <4>1 DEF PlanOK
    <3> QED
      BY <3>2, <3>3, <3>4
  <2>7. CASE Unlink(p) /\ ~ Fail(p)
    <3>1. pc[p] = "unlink" /\ pc[p] \in Merging
      BY <2>7 DEF Unlink, Merging
    <3>2. CASE plan[p].rest # {}
      <4>1. PICK l \in plan[p].rest : plan' = [plan EXCEPT ![p].loser = l,
                                        ![p].rest = @ \ {l}, ![p].tab = 1]
        BY <2>7, <3>2 DEF Unlink
      <4>2. plan[p] \in Plan
        BY <1>2
      <4>3. /\ plan'[p].loser = l /\ plan'[p].rest = plan[p].rest \ {l}
            /\ plan'[p].tab = 1 /\ plan'[p].winner = plan[p].winner
        BY <1>2, <4>1, <4>2 DEF Plan
      <4>4. pc'[p] = "move" /\ l \in Id
        BY <1>2, <2>7, <3>2, <4>2 DEF Unlink, Goto, Plan
      <4>5. Good(p)
        BY <3>1, <4>3, <4>4 DEF PlanOK
      <4> QED
        BY <1>1, <2>1, <4>5
    <3>3. CASE plan[p].rest = {}
      <4>1. /\ plan' = plan
            /\ pc'[p] = IF plan[p].winner = Canon THEN "recount" ELSE "rename"
        BY <1>2, <2>7, <3>3 DEF Unlink, Goto
      <4> QED
        BY <1>1, <2>1, <3>1, <4>1 DEF PlanOK
    <3> QED
      BY <3>2, <3>3
  <2>8. CASE Rename(p) /\ ~ Fail(p)
    <3>1. /\ pc[p] = "rename" /\ pc[p] \in Merging /\ pc'[p] = "rekey"
          /\ plan' = [plan EXCEPT ![p].tab = 1]
      BY <1>2, <2>8 DEF Rename, Merging, Goto
    <3>2. plan'[p].tab = 1 /\ plan'[p].winner = plan[p].winner
      BY <1>2, <3>1 DEF Plan
    <3> QED
      BY <1>1, <2>1, <3>1, <3>2 DEF PlanOK
  <2>9. CASE RekeyTable(p) /\ ~ Fail(p)
    <3>1. /\ pc[p] = "rekey" /\ pc[p] \in Merging
          /\ pc'[p] = IF plan[p].tab < 2 THEN "rekey" ELSE "recount"
          /\ plan' = [plan EXCEPT ![p].tab = @ + 1]
      BY <1>2, <2>9, Numbers DEF RekeyTable, Merging, Goto
    <3>2. plan[p].tab \in {1, 2}
      BY <3>1 DEF PlanOK
    <3>3. plan'[p].tab = plan[p].tab + 1 /\ plan'[p].winner = plan[p].winner
      BY <1>2, <3>1 DEF Plan
    <3> QED
      BY <1>1, <2>1, <3>1, <3>2, <3>3 DEF PlanOK
  <2>10. CASE Recount(p)
    BY <1>2, <2>2, <2>10 DEF Recount, Return, Goto, Merging
  <2> QED
    BY <1>6, <2>2, <2>3, <2>4, <2>5, <2>6, <2>7, <2>8, <2>9, <2>10 DEF Dedup
<1>7. CASE UNCHANGED vars
  BY <1>7 DEF vars, PlanOK
<1> QED
  BY <1>4, <1>5, <1>6, <1>7 DEF Next

-----------------------------------------------------------------------------
(* The schema version.                                                     *)

Earned(n) == \A v \in 1 .. (n - 1) : \A j \in DOMAIN Migration[v] : <<v, j>> \in ddl

\* Whatever version a process believes in is earned, and so far is the next.
MigrateOK ==
    /\ Earned(version)
    /\ \A p \in Proc : /\ Earned(at[p])
                       /\ \A j \in 1 .. (stmt[p] - 1) : <<at[p], j>> \in ddl

\* Every step keeps versions earned.
LEMMA MigrateStep == StoreTyping /\ MigrateOK /\ [Next]_vars => MigrateOK'
<1> SUFFICES ASSUME StoreTyping, MigrateOK, [Next]_vars PROVE MigrateOK'
  OBVIOUS
<1> USE DEF schema, tables, migration, pass, ghosts
<1>1. /\ version \in Nat /\ at \in [Proc -> Nat] /\ stmt \in [Proc -> Nat]
      /\ \A q \in Proc : at[q] \in Nat /\ stmt[q] \in Nat
  BY DEF StoreTyping
<1>2. ASSUME UNCHANGED <<version, ddl, at, stmt>> PROVE MigrateOK'
  BY <1>2 DEF MigrateOK, Earned
<1>3. ASSUME NEW p \in Proc, Migrate(p) PROVE MigrateOK'
  <2>1. CASE OpenStart(p) \/ Migrated(p) \/ Busy(p)
    BY <1>2, <2>1 DEF OpenStart, Migrated, Busy
  <2>2. CASE Bootstrap(p)
    <3>1. /\ UNCHANGED <<ddl, at, stmt>>
          /\ version' = version \/ version' = 1
      BY <2>2 DEF Bootstrap
    <3> QED
      BY <3>1 DEF MigrateOK, Earned
  <2>3. CASE ReadVersion(p)
    <3>1. /\ UNCHANGED <<version, ddl>>
          /\ at' = [at EXCEPT ![p] = version] /\ stmt' = [stmt EXCEPT ![p] = 1]
      BY <2>3 DEF ReadVersion
    <3>2. /\ at'[p] = version /\ stmt'[p] = 1
          /\ \A q \in Proc : q # p => at'[q] = at[q] /\ stmt'[q] = stmt[q]
      BY <1>1, <3>1
    <3> QED
      BY <3>1, <3>2 DEF MigrateOK, Earned
  <2>4. CASE RunStatement(p)
    <3>1. /\ UNCHANGED <<version, at>>
          /\ \/ UNCHANGED <<ddl, stmt>>
             \/ /\ ddl' = ddl \cup {<<at[p], stmt[p]>>}
                /\ stmt' = [stmt EXCEPT ![p] = @ + 1]
      BY <2>4 DEF RunStatement
    <3>2. CASE UNCHANGED <<ddl, stmt>>
      BY <1>2, <3>1, <3>2
    <3>3. CASE /\ ddl' = ddl \cup {<<at[p], stmt[p]>>}
               /\ stmt' = [stmt EXCEPT ![p] = @ + 1]
      <4>1. /\ stmt'[p] = stmt[p] + 1
            /\ \A q \in Proc : q # p => stmt'[q] = stmt[q]
        BY <1>1, <3>3
      <4>2. Earned(version)' /\ \A q \in Proc : Earned(at[q])'
        BY <3>1, <3>3 DEF MigrateOK, Earned
      <4>3. \A q \in Proc : \A j \in 1 .. (stmt'[q] - 1) : <<at'[q], j>> \in ddl'
        <5>1. ASSUME NEW j \in 1 .. (stmt'[p] - 1) PROVE <<at'[p], j>> \in ddl'
          <6>1. j = stmt[p] \/ j \in 1 .. (stmt[p] - 1)
            BY <1>1, <4>1
          <6> QED
            BY <3>1, <3>3, <6>1 DEF MigrateOK
        <5> QED
          BY <3>1, <3>3, <4>1, <5>1 DEF MigrateOK
      <4> QED
        BY <4>2, <4>3 DEF MigrateOK
    <3> QED
      BY <3>1, <3>2, <3>3
  <2>5. CASE BumpVersion(p)
    <3>1. /\ UNCHANGED ddl /\ version' = at[p] + 1
          /\ at' = [at EXCEPT ![p] = @ + 1] /\ stmt' = [stmt EXCEPT ![p] = 1]
          /\ at[p] < Knows[p] /\ stmt[p] > Len(Migration[at[p]])
      BY <2>5 DEF BumpVersion, Pending
    <3>2. /\ at'[p] = at[p] + 1 /\ stmt'[p] = 1
          /\ \A q \in Proc : q # p => at'[q] = at[q] /\ stmt'[q] = stmt[q]
      BY <1>1, <3>1
    <3>3. ASSUME NEW v \in 1 .. at[p], NEW j \in DOMAIN Migration[v] PROVE <<v, j>> \in ddl
      <4>1. CASE v < at[p]
        BY <1>1, <4>1 DEF MigrateOK, Earned
      <4>2. CASE v = at[p]
        <5>1. Knows[p] \in 1 .. MaxVersion /\ Migration \in Seq(Seq(BOOLEAN))
          BY ConstantsOK
        <5>2. at[p] \in 1 .. Len(Migration)
          BY <1>1, <3>1, <4>2, <5>1 DEF MaxVersion
        <5>3. Migration[v] \in Seq(BOOLEAN)
          BY <4>2, <5>1, <5>2
        <5>4. j \in 1 .. Len(Migration[v]) /\ Len(Migration[v]) \in Nat
          BY <5>3
        <5>5. j \in 1 .. (stmt[p] - 1)
          BY <1>1, <3>1, <4>2, <5>4
        <5> QED
          BY <4>2, <5>5 DEF MigrateOK
      <4> QED
        BY <1>1, <4>1, <4>2
    <3>4. Earned(at[p] + 1)
      <4>1. \A v \in 1 .. ((at[p] + 1) - 1) : v \in 1 .. at[p]
        BY <1>1
      <4> QED
        BY <3>3, <4>1 DEF Earned
    <3> QED
      BY <3>1, <3>2, <3>4 DEF MigrateOK, Earned
  <2> QED
    BY <1>3, <2>1, <2>2, <2>3, <2>4, <2>5 DEF Migrate
<1>4. ASSUME NEW p \in Proc, Dedup(p) \/ Pass(p) \/ ListEmpty(p) \/ Sweep(p)
                             \/ \E id \in Id : DeleteProject(p, id)
      PROVE  MigrateOK'
  <2>1. UNCHANGED <<version, ddl, at, stmt>>
    BY <1>4 DEF Dedup, Scan, Move, Drop, Unlink, Rename, RekeyTable, Recount, Pass,
        PassStart, PassReread, PassMeta, PassCommit, PassFlush, PassStats, PassLook,
        PassStamp, PassClosure,
        ListEmpty, Sweep, DeleteProject
  <2> QED
    BY <1>2, <2>1
<1>5. ASSUME NEW p \in Proc, DriftTick(p) \/ Exit(p) \/ Crash(p) PROVE MigrateOK'
  <2>1. /\ UNCHANGED <<version, ddl>>
        /\ at' = [at EXCEPT ![p] = 0] /\ stmt' = [stmt EXCEPT ![p] = 1]
    BY <1>5 DEF DriftTick, Exit, Crash, Gone
  <2>2. /\ at'[p] = 0 /\ stmt'[p] = 1
        /\ \A q \in Proc : q # p => at'[q] = at[q] /\ stmt'[q] = stmt[q]
    BY <1>1, <2>1
  <2> QED
    BY <2>1, <2>2 DEF MigrateOK, Earned
<1>6. CASE UNCHANGED vars
  BY <1>2, <1>6 DEF vars
<1> QED
  BY <1>3, <1>4, <1>5, <1>6 DEF Next

-----------------------------------------------------------------------------
(* Merges that nothing disturbs.                                           *)

\* The place and the plan of every merge stay.
Calm == \A q \in Proc : (pc[q] \in Merging \/ pc'[q] \in Merging)
                            => pc'[q] = pc[q] /\ plan'[q] = plan[q]

\* And so does the place of every pass.
Steady == \A q \in Proc : pc'[q] \in InPass =>
            pc'[q] = pc[q] /\ total'[q] = total[q] /\ seen'[q] = seen[q]

\* A merge has the tables to itself.
Alone(p) ==
    /\ lock = None /\ UNCHANGED lock
    /\ \A q \in Proc \ {p} : pc[q] \notin Merging /\ pc'[q] \notin Merging

MergeStep(p) ==
    /\ pc[p] \in Merging /\ ~ Fail(p) /\ Alone(p)
    /\ Move(p) \/ Drop(p) \/ Unlink(p) \/ Rename(p) \/ RekeyTable(p) \/ Recount(p)

Enter(p) == Scan(p) /\ pc'[p] = "move"

\* What a step can be that leaves no scar of a merge.
LEMMA Undisturbed ==
  ASSUME StoreTyping, LockOK, [Next]_vars, "dedup" \notin scars'
  PROVE  /\ scars \subseteq scars'
         /\ \/ \E p \in Proc : MergeStep(p)
            \/ \E p \in Proc : Enter(p) /\ \A q \in Proc \ {p} : pc'[q] = pc[q] /\ plan'[q] = plan[q]
            \/ \E p \in Proc : Pass(p) /\ Calm
            \/ (\E id : Deleted(id)) /\ UNCHANGED lock /\ Steady
               /\ \A q \in Proc : pc[q] \notin Merging /\ pc'[q] \notin Merging
            \/ Calm /\ Steady /\ UNCHANGED <<projects, rows>>
               /\ (UNCHANGED lock \/ "pass" \in scars')
<1> USE DEF schema, tables, migration, pass, ghosts
<1> DEFINE Goal == /\ scars \subseteq scars'
         /\ \/ \E p \in Proc : MergeStep(p)
            \/ \E p \in Proc : Enter(p) /\ \A q \in Proc \ {p} : pc'[q] = pc[q] /\ plan'[q] = plan[q]
            \/ \E p \in Proc : Pass(p) /\ Calm
            \/ (\E id : Deleted(id)) /\ UNCHANGED lock /\ Steady
               /\ \A q \in Proc : pc[q] \notin Merging /\ pc'[q] \notin Merging
            \/ Calm /\ Steady /\ UNCHANGED <<projects, rows>>
               /\ (UNCHANGED lock \/ "pass" \in scars')
<1>0. pc \in [Proc -> Label]
  BY DEF StoreTyping
<1>1. ASSUME NEW p \in Proc, Migrate(p) PROVE Goal
  <2>1. /\ pc[p] \notin Merging /\ pc'[p] \notin Merging /\ scars \subseteq scars'
        /\ UNCHANGED <<projects, rows, lock>>
    BY <1>0, <1>1 DEF Migrate, OpenStart, Bootstrap, ReadVersion, RunStatement, BumpVersion,
        Migrated, Busy, Return, Goto, Merging, Pending, Down
  <2>2. \A q \in Proc : q # p => pc'[q] = pc[q] /\ plan'[q] = plan[q]
    BY <1>1, OneProcess
  <2>3. Calm
    BY <2>1, <2>2 DEF Calm
  <2>4. pc'[p] \notin InPass
    BY <1>0, <1>1 DEF Migrate, OpenStart, Bootstrap, ReadVersion, RunStatement, BumpVersion,
        Migrated, Busy, Return, Goto, Pending, Down, InPass
  <2>5. Steady
    BY <1>1, <2>4, OneProcess DEF Steady
  <2> QED
    BY <2>1, <2>3, <2>5
<1>2. ASSUME NEW p \in Proc, Dedup(p) PROVE Goal
  <2>1. \A q \in Proc : q # p => pc'[q] = pc[q] /\ plan'[q] = plan[q]
    BY <1>2, OneProcess
  <2>2. CASE Scan(p)
    <3>1. UNCHANGED <<projects, rows, lock, scars>> /\ pc[p] = "dedup"
          /\ pc'[p] \in {"open", "move"}
      BY <1>0, <2>2 DEF Scan, Return, Goto
    <3>2. CASE pc'[p] = "move"
      BY <2>1, <2>2, <3>1, <3>2 DEF Enter
    <3>3. CASE pc'[p] = "open"
      <4>1. Calm
        BY <2>1, <3>1, <3>3 DEF Calm, Merging
      <4>2. Steady
        BY <1>2, <3>3, OneProcess DEF Steady, InPass
      <4> QED
        BY <3>1, <4>1, <4>2
    <3> QED
      BY <3>1, <3>2, <3>3
  <2>3. CASE Move(p) \/ Drop(p) \/ Unlink(p) \/ Rename(p) \/ RekeyTable(p) \/ Recount(p)
    <3>1. ~ Fail(p)
      BY DEF Fail
    <3>2. pc[p] \in Merging /\ UNCHANGED lock /\ Disturb(p)
      BY <2>3, <3>1 DEF Move, Drop, Unlink, Rename, RekeyTable, Recount, Merging
    <3>3. scars' = scars /\ lock = None /\ \A q \in Proc \ {p} : pc[q] \notin Merging
      BY <3>2 DEF Disturb
    <3>4. MergeStep(p)
      BY <2>1, <2>3, <3>1, <3>2, <3>3 DEF MergeStep, Alone
    <3> QED
      BY <3>3, <3>4
  <2> QED
    BY <1>2, <2>2, <2>3 DEF Dedup
<1>3. ASSUME NEW p \in Proc, Pass(p) PROVE Goal
  <2>1. pc[p] \notin Merging /\ pc'[p] \notin Merging /\ UNCHANGED scars
    BY <1>0, <1>3 DEF Pass, PassStart, PassReread, PassMeta, PassCommit, PassFlush,
        PassStats, PassLook, PassStamp,
        PassClosure, Goto, Merging
  <2>2. Calm
    BY <1>3, <2>1, OneProcess DEF Calm
  <2> QED
    BY <1>3, <2>1, <2>2
<1>4. ASSUME NEW p \in Proc, ListEmpty(p) \/ Sweep(p) \/ \E id \in Id : DeleteProject(p, id)
      PROVE  Goal
  <2>1. pc[p] \notin Merging /\ pc'[p] \notin Merging /\ UNCHANGED lock
    BY <1>0, <1>4 DEF ListEmpty, Sweep, DeleteProject, Goto, Merging
  <2>2. \A q \in Proc : q # p => pc'[q] = pc[q] /\ plan'[q] = plan[q]
    BY <1>4, OneProcess
  <2>3. CASE UNCHANGED <<projects, rows, scars>>
    <3>1. Calm
      BY <2>1, <2>2 DEF Calm
    <3>2. pc'[p] \notin InPass
      BY <1>0, <1>4 DEF ListEmpty, Sweep, DeleteProject, Goto, InPass
    <3>3. Steady
      BY <1>4, <3>2, OneProcess DEF Steady
    <3> QED
      BY <2>1, <2>3, <3>1, <3>3
  <2>4. ASSUME NEW id, Deleted(id) PROVE Goal
    <3>1. scars \subseteq scars' /\ \A q \in Proc : pc[q] \notin Merging
      BY <2>4 DEF Deleted
    <3>2. \A q \in Proc : pc'[q] \notin Merging
      BY <2>1, <2>2, <3>1
    <3>3. pc'[p] \notin InPass
      BY <1>0, <1>4 DEF ListEmpty, Sweep, DeleteProject, Goto, InPass
    <3>4. Steady
      BY <1>4, <3>3, OneProcess DEF Steady
    <3> QED
      BY <2>1, <2>4, <3>1, <3>2, <3>4
  <2>5. UNCHANGED <<projects, rows, scars>> \/ \E id : Deleted(id)
    BY <1>4 DEF ListEmpty, Sweep, DeleteProject
  <2> QED
    BY <2>3, <2>4, <2>5
<1>5. ASSUME NEW p \in Proc, DriftTick(p) \/ Exit(p) \/ Crash(p) PROVE Goal
  <2>1. Gone(p)
    BY <1>5 DEF DriftTick, Exit, Crash
  <2>2. /\ pc[p] \notin Merging /\ pc'[p] \notin Merging /\ scars \subseteq scars'
        /\ UNCHANGED <<projects, rows>>
    BY <1>0, <2>1 DEF Gone, Goto, Merging
  <2>3. Calm
    BY <1>5, <2>2, OneProcess DEF Calm
  <2>4. UNCHANGED lock \/ "pass" \in scars'
    BY <2>1, <2>2 DEF Gone, LockOK
  <2>5. pc'[p] \notin InPass
    BY <1>0, <2>1 DEF Gone, Goto, InPass
  <2>6. Steady
    BY <1>5, <2>5, OneProcess DEF Steady
  <2> QED
    BY <2>2, <2>3, <2>4, <2>6
<1>6. CASE UNCHANGED vars
  BY <1>6 DEF vars, Calm, Steady
<1> QED
  BY <1>1, <1>2, <1>3, <1>4, <1>5, <1>6 DEF Next

\* What a pass does to the tables it shares with a merge.
LEMMA PassTables ==
  ASSUME StoreTyping, NEW p \in Proc, Pass(p)
  PROVE  /\ DOMAIN projects \subseteq DOMAIN projects'
         /\ DOMAIN projects' \subseteq DOMAIN projects \cup {Canon}
         /\ \A i \in DOMAIN projects : i # Canon => projects'[i] = projects[i]
         /\ \A t \in {"symbols", "files"} :
                /\ rows[t] \subseteq rows'[t]
                /\ \A r \in rows'[t] \ rows[t] : r[1] = Canon
         /\ Canon \notin DOMAIN projects => rows'["symbols"] = rows["symbols"]
         /\ pc[p] # "flush" => rows'["symbols"] = rows["symbols"]
<1> USE DEF schema, tables, migration, pass, ghosts
<1>1. projects \in [DOMAIN projects -> Entry] /\ rows \in [Table -> SUBSET (Id \X Key)]
  BY DEF StoreTyping
<1>2. CASE PassStart(p) \/ PassReread(p) \/ PassLook(p)
  BY <1>1, <1>2 DEF PassStart, PassReread, PassLook
<1>8. CASE PassMeta(p)
  BY <1>1, <1>8 DEF PassMeta, With
<1>3. CASE PassCommit(p)
  BY <1>1, <1>3, Numbers DEF PassCommit
<1>4. CASE PassFlush(p)
  BY <1>1, <1>4, Numbers DEF PassFlush
<1>5. CASE PassStats(p)
  BY <1>1, <1>5 DEF PassStats
<1>6. CASE PassStamp(p)
  BY <1>1, <1>6 DEF PassStamp, With
<1>7. CASE PassClosure(p)
  <2>1. UNCHANGED projects /\ rows'["symbols"] = rows["symbols"] /\ rows'["files"] = rows["files"]
    BY <1>1, <1>7, Numbers DEF PassClosure
  <2> QED
    BY <2>1
<1> QED
  BY <1>2, <1>3, <1>4, <1>5, <1>6, <1>7, <1>8 DEF Pass

\* What a merge of p, which nothing disturbs, still has before it: its winner
\* is there, every project is one it knows of, and what it is about to drop
\* the winner has.
SpanOK(p) ==
    /\ pc[p] \in {"move", "drop", "unlink", "rename"} => plan[p].winner \in DOMAIN projects
    /\ pc[p] \in {"move", "drop", "unlink"} =>
        DOMAIN projects \subseteq {plan[p].winner, plan[p].loser, Canon} \cup plan[p].rest
    /\ pc[p] = "rename" => DOMAIN projects \subseteq {plan[p].winner, Canon}
    /\ pc[p] \in {"rekey", "recount"} => DOMAIN projects = {Canon}
    /\ pc[p] = "drop" =>
        \A r \in Of(Moved[plan[p].tab], plan[p].loser) :
            <<plan[p].winner, r[2]>> \in rows[Moved[plan[p].tab]]

\* A symbol without a project is one that a rename is about to move.
Homed ==
    \A r \in rows["symbols"] :
        \/ r[1] \in DOMAIN projects
        \/ \E p \in Proc : pc[p] = "rekey" /\ plan[p].tab = 1 /\ r[1] = plan[p].winner

MergeOK == "dedup" \notin scars => Homed /\ \A p \in Proc : SpanOK(p)

\* Rows under another id.
LEMMA Rekeyed ==
  ASSUME NEW S \in SUBSET (Id \X Key), NEW from \in Id, NEW to \in Id, from # to
  PROVE  /\ \A r \in Rekey(S, from, to) :
                \/ r \in S /\ r[1] # from
                \/ r[1] = to /\ <<from, r[2]>> \in S
         /\ \A r \in S : \E u \in Rekey(S, from, to) : u[2] = r[2]
<1>1. \A r \in S : r = <<r[1], r[2]>>
  OBVIOUS
<1>2. ASSUME NEW r \in Rekey(S, from, to)
      PROVE  (r \in S /\ r[1] # from) \/ (r[1] = to /\ <<from, r[2]>> \in S)
  <2>1. PICK u \in S : r = IF u[1] = from THEN <<to, u[2]>> ELSE u
    BY DEF Rekey
  <2>2. CASE u[1] = from
    BY <1>1, <2>1, <2>2
  <2>3. CASE u[1] # from
    BY <2>1, <2>3
  <2> QED
    BY <2>2, <2>3
<1>3. ASSUME NEW r \in S PROVE \E u \in Rekey(S, from, to) : u[2] = r[2]
  <2>1. (IF r[1] = from THEN <<to, r[2]>> ELSE r) \in Rekey(S, from, to)
    BY DEF Rekey
  <2>2. (IF r[1] = from THEN <<to, r[2]>> ELSE r)[2] = r[2]
    OBVIOUS
  <2> QED
    BY <2>1, <2>2
<1> QED
  BY <1>2, <1>3

\* A step of a merge keeps its promises.
LEMMA MergeStepOK ==
  ASSUME StoreTyping, PlanOK, StoreTyping', MergeOK, "dedup" \notin scars, NEW p \in Proc, MergeStep(p)
  PROVE  Homed' /\ SpanOK(p)'
<1> USE DEF schema, tables, migration, pass, ghosts
<1>0. /\ pc \in [Proc -> Label] /\ plan \in [Proc -> Plan] /\ plan[p] \in Plan
      /\ rows \in [Table -> SUBSET (Id \X Key)] /\ Canon \in Id
      /\ plan[p].winner \in Id /\ pc[p] \in Merging /\ ~ Fail(p)
  BY ConstantsOK DEF StoreTyping, MergeStep, PlanOK
<1>1. SpanOK(p) /\ Homed
  BY DEF MergeOK
<1>2. ASSUME pc[p] # "rekey"
      PROVE  \A r \in rows["symbols"] : r[1] \in DOMAIN projects
  BY <1>1, <1>2 DEF Homed, MergeStep, Alone, Merging
<1>3. CASE Move(p)
  <2> DEFINE w == plan[p].winner
             l == plan[p].loser
             t == Moved[plan[p].tab]
             go == {r \in Of(t, l) : <<w, r[2]>> \notin rows[t]}
  <2>1. /\ pc[p] = "move" /\ pc'[p] = "drop" /\ plan' = plan /\ UNCHANGED projects
        /\ rows' = [rows EXCEPT ![t] = (@ \ go) \cup Rekey(go, l, w)]
        /\ ~ (go # {} /\ t \in References /\ w \notin DOMAIN projects)
    BY <1>0, <1>3 DEF Move, Goto
  <2>2. /\ plan[p].tab \in {1, 2} /\ t \in {"symbols", "files"} /\ l \in Id /\ l # w
        /\ t \in Table
    BY <1>0, <2>1, Numbers DEF PlanOK
  <2>3. go \in SUBSET (Id \X Key)
    BY <1>0, <2>2 DEF Of
  <2>4. \A r \in Rekey(go, l, w) : r[1] = w
    <3>1. \A u \in go : u[1] = l
      BY DEF Of
    <3> HIDE DEF go, w, l
    <3> QED
      BY <2>3, <3>1 DEF Rekey
  <2>5. \A r \in rows'[t] : r \in rows[t] \ go \/ r[1] = w
    BY <1>0, <2>1, <2>2, <2>4
  <2>6. \A r \in rows[t] : r[1] = w => r \in rows'[t]
    BY <1>0, <2>1, <2>2 DEF Of
  <2>7. SpanOK(p)'
    <3>1. ASSUME NEW r \in rows'[t], r[1] = l PROVE <<w, r[2]>> \in rows'[t]
      <4>1. r \in rows[t] /\ r \notin go
        BY <2>2, <2>5, <3>1
      <4>2. <<w, r[2]>> \in rows[t]
        BY <3>1, <4>1 DEF Of
      <4> QED
        BY <2>6, <4>2
    <3>2. \A r \in Of(t, l)' : <<w, r[2]>> \in rows'[t]
      BY <3>1, <2>1 DEF Of
    <3> QED
      BY <1>1, <2>1, <3>2 DEF SpanOK
  <2>8. Homed'
    <3>1. w \in DOMAIN projects
      BY <1>1, <2>1 DEF SpanOK
    <3>2. \A r \in rows'["symbols"] : r \in rows["symbols"] \/ r[1] = w
      BY <1>0, <2>1, <2>2, <2>5, Numbers
    <3> QED
      BY <1>2, <2>1, <3>1, <3>2 DEF Homed
  <2> QED
    BY <2>7, <2>8
<1>4. CASE Drop(p)
  <2>1. /\ pc[p] = "drop" /\ UNCHANGED projects /\ pc'[p] \in {"move", "unlink"}
        /\ \/ plan' = plan \/ plan' = [plan EXCEPT ![p].tab = @ + 1]
        /\ \A t \in Table : rows'[t] \subseteq rows[t]
    BY <1>0, <1>4 DEF Drop, Goto
  <2>2. /\ plan'[p].winner = plan[p].winner /\ plan'[p].loser = plan[p].loser
        /\ plan'[p].rest = plan[p].rest
    BY <1>0, <2>1 DEF Plan
  <2> QED
    BY <1>1, <1>2, <2>1, <2>2, Numbers DEF SpanOK, Homed
<1>5. CASE Unlink(p)
  <2>1. /\ pc[p] = "unlink" /\ UNCHANGED rows
        /\ projects' = Without(projects, plan[p].loser)
        /\ Of("symbols", plan[p].loser) = {}
    BY <1>0, <1>5 DEF Unlink, References
  <2>2. /\ DOMAIN projects' = DOMAIN projects \ {plan[p].loser}
        /\ plan[p].loser \notin {Canon, plan[p].winner}
    BY <1>0, <2>1 DEF Without, PlanOK
  <2>3. Homed'
    BY <1>2, <2>1, <2>2 DEF Homed, Of
  <2>4. CASE plan[p].rest # {}
    <3>1. PICK l \in plan[p].rest : plan' = [plan EXCEPT ![p].loser = l,
                                        ![p].rest = @ \ {l}, ![p].tab = 1]
      BY <1>0, <1>5, <2>4 DEF Unlink
    <3>2. /\ plan'[p].loser = l /\ plan'[p].rest = plan[p].rest \ {l}
          /\ plan'[p].winner = plan[p].winner
      BY <1>0, <3>1 DEF Plan
    <3>3. pc'[p] = "move"
      BY <1>0, <1>5, <2>4 DEF Unlink, Goto
    <3>4. SpanOK(p)'
      BY <1>1, <2>1, <2>2, <3>2, <3>3 DEF SpanOK
    <3> QED
      BY <2>3, <3>4
  <2>5. CASE plan[p].rest = {}
    <3>1. /\ plan' = plan
          /\ pc'[p] = IF plan[p].winner = Canon THEN "recount" ELSE "rename"
      BY <1>0, <1>5, <2>5 DEF Unlink, Goto
    <3>2. plan[p].winner \in DOMAIN projects' /\ DOMAIN projects' \subseteq {plan[p].winner, Canon}
      BY <1>1, <2>1, <2>2, <2>5 DEF SpanOK
    <3>3. SpanOK(p)'
      BY <3>1, <3>2 DEF SpanOK
    <3> QED
      BY <2>3, <3>3
  <2> QED
    BY <2>4, <2>5
<1>6. CASE Rename(p)
  <2> DEFINE w == plan[p].winner
  <2>1. /\ pc[p] = "rename" /\ pc'[p] = "rekey" /\ UNCHANGED rows
        /\ plan' = [plan EXCEPT ![p].tab = 1]
        /\ w \in DOMAIN projects => Canon \notin DOMAIN projects
        /\ w \in DOMAIN projects => projects' = With(Without(projects, w), Canon, projects[w])
    BY <1>0, <1>6 DEF Rename, Goto
  <2>2. w \in DOMAIN projects /\ DOMAIN projects = {w}
    BY <1>1, <2>1 DEF SpanOK
  <2>3. DOMAIN projects' = {Canon}
    BY <2>1, <2>2 DEF With, Without
  <2>4. plan'[p].tab = 1 /\ plan'[p].winner = w
    BY <1>0, <2>1 DEF Plan
  <2>5. \A r \in rows'["symbols"] : r[1] = w
    BY <1>2, <2>1, <2>2
  <2> QED
    BY <2>1, <2>3, <2>4, <2>5 DEF SpanOK, Homed
<1>7. CASE RekeyTable(p)
  <2> DEFINE w == plan[p].winner
             t == Moved[plan[p].tab]
  <2>1. /\ pc[p] = "rekey" /\ UNCHANGED projects
        /\ rows' = [rows EXCEPT ![t] = Rekey(@, w, Canon)]
        /\ plan' = [plan EXCEPT ![p].tab = @ + 1]
        /\ pc'[p] \in {"rekey", "recount"}
    BY <1>0, <1>7 DEF RekeyTable, Goto
  <2>2. /\ plan[p].tab \in {1, 2} /\ t \in Table /\ w # Canon
        /\ plan[p].tab = 1 => t = "symbols"
        /\ plan[p].tab = 2 => t = "files"
    BY <1>0, <2>1, Numbers DEF PlanOK
  <2>3. DOMAIN projects = {Canon} /\ DOMAIN projects' = {Canon}
    BY <1>1, <2>1 DEF SpanOK
  <2>4. \A r \in rows["symbols"] : r[1] = Canon \/ (plan[p].tab = 1 /\ r[1] = w)
    BY <1>1, <2>1, <2>3, <1>0 DEF Homed, MergeStep, Alone, Merging
  <2>5. \A r \in rows'["symbols"] : r[1] = Canon
    <3>1. CASE plan[p].tab = 1
      <4>1. rows'["symbols"] = Rekey(rows["symbols"], w, Canon)
        BY <1>0, <2>1, <2>2, <3>1, Numbers
      <4> QED
        BY <2>4, <4>1 DEF Rekey
    <3>2. CASE plan[p].tab = 2
      <4>1. rows'["symbols"] = rows["symbols"]
        BY <1>0, <2>1, <2>2, <3>2, Numbers
      <4> QED
        BY <2>4, <3>2, <4>1
    <3> QED
      BY <2>2, <3>1, <3>2
  <2> QED
    BY <2>1, <2>3, <2>5 DEF SpanOK, Homed
<1>8. CASE Recount(p)
  <2>1. pc[p] = "recount" /\ UNCHANGED rows /\ DOMAIN projects' = DOMAIN projects /\ pc'[p] = "open"
    BY <1>0, <1>8 DEF Recount, Return, Goto
  <2> QED
    BY <1>2, <2>1 DEF SpanOK, Homed
<1> QED
  BY <1>3, <1>4, <1>5, <1>6, <1>7, <1>8 DEF MergeStep

\* Every step keeps what an undisturbed merge promises.
LEMMA MergeOKStep ==
  StoreTyping /\ StoreTyping' /\ LockOK /\ PlanOK /\ PlanOK' /\ MergeOK /\ [Next]_vars => MergeOK'
<1> SUFFICES ASSUME StoreTyping, StoreTyping', LockOK, PlanOK, PlanOK', MergeOK, [Next]_vars,
                    "dedup" \notin scars'
             PROVE  Homed' /\ \A p \in Proc : SpanOK(p)'
  BY DEF MergeOK
<1>1. "dedup" \notin scars /\ Homed /\ \A q \in Proc : SpanOK(q)
  BY Undisturbed DEF MergeOK
<1>0. rows \in [Table -> SUBSET (Id \X Key)] /\ pc \in [Proc -> Label] /\ plan \in [Proc -> Plan]
  BY DEF StoreTyping
<1>2. CASE \E p \in Proc : MergeStep(p)
  <2>1. PICK p \in Proc : MergeStep(p)
    BY <1>2
  <2>2. Homed' /\ SpanOK(p)'
    BY <1>1, <2>1, MergeStepOK
  <2>3. \A q \in Proc \ {p} : SpanOK(q)'
    BY <2>1 DEF MergeStep, Alone, SpanOK, Merging
  <2> QED
    BY <2>2, <2>3
<1>3. CASE \E p \in Proc : Enter(p) /\ \A q \in Proc \ {p} : pc'[q] = pc[q] /\ plan'[q] = plan[q]
  <2>1. PICK p \in Proc : Enter(p) /\ \A q \in Proc \ {p} : pc'[q] = pc[q] /\ plan'[q] = plan[q]
    BY <1>3
  <2>2. UNCHANGED <<projects, rows>> /\ pc[p] = "dedup" /\ pc'[p] = "move"
    BY <2>1 DEF Enter, Scan, tables
  <2>3. \A q \in Proc \ {p} : SpanOK(q)'
    BY <1>1, <2>1, <2>2 DEF SpanOK, Of
  <2>4. Homed'
    BY <1>1, <2>1, <2>2 DEF Homed
  <2>5. SpanOK(p)'
    <3>1. PICK l \in DOMAIN projects \ {Winner} :
                plan' = [plan EXCEPT ![p] =
                        [winner |-> Winner, loser |-> l, tab |-> 1,
                         rest |-> DOMAIN projects \ {Winner, l}]]
      BY <1>0, <2>1 DEF Enter, Scan, Return, Goto
    <3>2. /\ plan'[p].winner = Winner /\ plan'[p].loser = l
          /\ plan'[p].rest = DOMAIN projects \ {Winner, l}
      BY <1>0, <3>1
    <3>3. Winner \in DOMAIN projects
      BY <3>1, WinnerExists
    <3> QED
      BY <2>2, <3>2, <3>3 DEF SpanOK
  <2> QED
    BY <2>3, <2>4, <2>5
<1>4. CASE \E p \in Proc : Pass(p) /\ Calm
  <2>1. PICK p \in Proc : Pass(p) /\ Calm
    BY <1>4
  <2> DEFINE M == {"symbols", "files"}
  <2>2. /\ DOMAIN projects \subseteq DOMAIN projects'
        /\ DOMAIN projects' \subseteq DOMAIN projects \cup {Canon}
        /\ \A t \in M : /\ rows[t] \subseteq rows'[t]
                        /\ \A r \in rows'[t] \ rows[t] : r[1] = Canon
        /\ Canon \notin DOMAIN projects => rows'["symbols"] = rows["symbols"]
    BY <2>1, PassTables
  <2>3. ASSUME NEW q \in Proc PROVE SpanOK(q)'
    <3>1. CASE pc'[q] \notin Merging
      BY <3>1 DEF SpanOK, Merging
    <3>2. CASE pc'[q] \in Merging
      <4>1. pc'[q] = pc[q] /\ plan'[q] = plan[q] /\ SpanOK(q)
        BY <1>1, <2>1, <3>2 DEF Calm
      <4>2. ASSUME pc[q] = "drop"
            PROVE  \A r \in Of(Moved[plan[q].tab], plan[q].loser)' :
                        <<plan'[q].winner, r[2]>> \in rows'[Moved[plan'[q].tab]]
        <5>1. plan[q].loser # Canon /\ Moved[plan[q].tab] \in M
          BY <4>1, <4>2, <3>2, Numbers DEF PlanOK
        <5>2. \A r \in Of(Moved[plan[q].tab], plan[q].loser)' : r \in Of(Moved[plan[q].tab], plan[q].loser)
          BY <2>2, <4>1, <5>1 DEF Of
        <5> QED
          BY <2>2, <4>1, <4>2, <5>1, <5>2 DEF SpanOK
      <4> QED
        BY <2>2, <4>1, <4>2 DEF SpanOK
    <3> QED
      BY <3>1, <3>2
  <2>4. Homed'
    <3>1. SUFFICES ASSUME NEW r \in rows'["symbols"]
                   PROVE  \/ r[1] \in DOMAIN projects'
                          \/ \E q \in Proc : pc'[q] = "rekey" /\ plan'[q].tab = 1 /\ r[1] = plan'[q].winner
      BY DEF Homed
    <3>2. CASE r \in rows["symbols"]
      <4>1. CASE r[1] \in DOMAIN projects
        BY <2>2, <4>1
      <4>2. CASE \E q \in Proc : pc[q] = "rekey" /\ plan[q].tab = 1 /\ r[1] = plan[q].winner
        BY <2>1, <4>2 DEF Calm, Merging
      <4> QED
        BY <1>1, <3>2, <4>1, <4>2 DEF Homed
    <3>3. CASE r \notin rows["symbols"]
      BY <2>2, <3>3
    <3> QED
      BY <3>2, <3>3
  <2> QED
    BY <2>3, <2>4
<1>5. CASE (\E id : Deleted(id)) /\ \A q \in Proc : pc[q] \notin Merging /\ pc'[q] \notin Merging
  <2>1. \A q \in Proc : SpanOK(q)'
    BY <1>5 DEF SpanOK, Merging
  <2>2. PICK id : Deleted(id)
    BY <1>5
  <2>3. /\ rows'["symbols"] = {r \in rows["symbols"] : r[1] # id}
        /\ DOMAIN projects' = DOMAIN projects \ {id}
    BY <2>2, Numbers DEF Deleted, Of, Without
  <2>4. \A r \in rows["symbols"] : r[1] \in DOMAIN projects
    BY <1>1, <1>5 DEF Homed, Merging
  <2> QED
    BY <2>1, <2>3, <2>4 DEF Homed
<1>6. CASE Calm /\ UNCHANGED <<projects, rows>>
  <2>1. ASSUME NEW q \in Proc PROVE SpanOK(q)'
    <3>1. CASE pc'[q] \notin Merging
      BY <3>1 DEF SpanOK, Merging
    <3>2. CASE pc'[q] \in Merging
      <4>1. pc'[q] = pc[q] /\ plan'[q] = plan[q] /\ SpanOK(q)
        BY <1>1, <1>6, <3>2 DEF Calm
      <4> QED
        BY <1>6, <4>1 DEF SpanOK, Of
    <3> QED
      BY <3>1, <3>2
  <2>2. Homed'
    BY <1>1, <1>6 DEF Homed, Calm, Merging
  <2> QED
    BY <2>1, <2>2
<1> QED
  BY <1>2, <1>3, <1>4, <1>5, <1>6, Undisturbed

-----------------------------------------------------------------------------
(* The counts.                                                             *)

Exact(i) == projects[i].count = Cardinality(Of("symbols", i))

\* The counts are right but for that of the project a pass is working on, and
\* those that a merge has still to recount; the pass carries the right count
\* to its stamp, and leaves it there.
CountsOK ==
    scars = {} =>
        /\ (\A p \in Proc : pc[p] \notin Merging) =>
                \A i \in DOMAIN projects : (i # Canon \/ lock = None) => Exact(i)
        /\ \A p \in Proc : pc[p] \in {"look", "stamp"} => total[p] = Cardinality(Of("symbols", Canon))
        /\ \A p \in Proc : (pc[p] = "closure" /\ Canon \in DOMAIN projects) => Exact(Canon)

\* Every step keeps the counts.
LEMMA CountsStep ==
  StoreTyping /\ LockOK /\ LockOK' /\ MergeOK /\ CountsOK /\ [Next]_vars => CountsOK'
<1> SUFFICES ASSUME StoreTyping, LockOK, LockOK', MergeOK, CountsOK, [Next]_vars, scars' = {}
             PROVE  /\ (\A p \in Proc : pc'[p] \notin Merging) =>
                        \A i \in DOMAIN projects' : (i # Canon \/ lock' = None) => Exact(i)'
                    /\ \A p \in Proc : pc'[p] \in {"look", "stamp"}
                            => total'[p] = Cardinality(Of("symbols", Canon))'
                    /\ \A p \in Proc : (pc'[p] = "closure" /\ Canon \in DOMAIN projects')
                            => Exact(Canon)'
  BY DEF CountsOK
<1> USE DEF schema, tables, migration, pass, ghosts
<1>0. /\ rows \in [Table -> SUBSET (Id \X Key)] /\ pc \in [Proc -> Label]
      /\ projects \in [DOMAIN projects -> Entry] /\ total \in [Proc -> Nat]
      /\ None \notin Proc
  BY ConstantsOK DEF StoreTyping
<1>1. scars = {}
  BY Undisturbed
<1>2. /\ (\A p \in Proc : pc[p] \notin Merging) =>
            \A i \in DOMAIN projects : (i # Canon \/ lock = None) => Exact(i)
      /\ \A p \in Proc : pc[p] \in {"look", "stamp"} => total[p] = Cardinality(Of("symbols", Canon))
      /\ \A p \in Proc : (pc[p] = "closure" /\ Canon \in DOMAIN projects) => Exact(Canon)
  BY <1>1 DEF CountsOK
<1>3. ASSUME lock' = None PROVE \A p \in Proc : pc'[p] \notin {"look", "stamp", "closure"}
  BY <1>0, <1>3 DEF LockOK, InPass
<1>4. CASE \E p \in Proc : MergeStep(p)
  <2>1. PICK p \in Proc : MergeStep(p)
    BY <1>4
  <2>2. lock' = None
    BY <2>1 DEF MergeStep, Alone
  <2>3. CASE Recount(p)
    <3>1. DOMAIN projects = {Canon} /\ UNCHANGED rows
      BY <1>1, <2>3 DEF Recount, MergeOK, SpanOK
    <3>2. projects' = [projects EXCEPT ![Canon].count = Cardinality(Of("symbols", Canon))]
      BY <2>3, <3>1 DEF Recount
    <3>3. projects'[Canon].count = Cardinality(Of("symbols", Canon)) /\ DOMAIN projects' = {Canon}
      BY <1>0, <3>1, <3>2 DEF Entry
    <3>4. Of("symbols", Canon)' = Of("symbols", Canon)
      BY <3>1 DEF Of
    <3> QED
      BY <1>3, <2>2, <3>3, <3>4 DEF Exact
  <2>4. CASE ~ Recount(p)
    <3>1. ~ Fail(p) /\ (Move(p) \/ Drop(p) \/ Unlink(p) \/ Rename(p) \/ RekeyTable(p))
      BY <2>1, <2>4 DEF MergeStep
    <3>2. pc'[p] \in Merging
      BY <1>0, <3>1 DEF Move, Drop, Unlink, Rename, RekeyTable, Goto, Merging
    <3> QED
      BY <1>3, <2>2, <3>2
  <2> QED
    BY <2>3, <2>4
<1>5. CASE \E p \in Proc : Enter(p) /\ \A q \in Proc \ {p} : pc'[q] = pc[q] /\ plan'[q] = plan[q]
  <2>1. PICK p \in Proc : Enter(p) /\ \A q \in Proc \ {p} : pc'[q] = pc[q] /\ plan'[q] = plan[q]
    BY <1>5
  <2>2. UNCHANGED <<projects, rows, total>> /\ pc'[p] = "move"
    BY <2>1 DEF Enter, Scan
  <2>3. pc'[p] \in Merging
    BY <2>2 DEF Merging
  <2> QED
    BY <1>2, <2>1, <2>2, <2>3 DEF Exact, Of
<1>6. CASE \E p \in Proc : Pass(p) /\ Calm
  <2>1. PICK p \in Proc : Pass(p) /\ Calm
    BY <1>6
  <2>2. \A q \in Proc : pc'[q] \in Merging <=> pc[q] \in Merging
    BY <2>1 DEF Calm
  <2>3. \A q \in Proc : q # p => pc'[q] \notin InPass
    <3>1. lock = p \/ lock' = p
      BY <1>0, <2>1 DEF Pass, PassStart, PassReread, PassMeta, PassCommit, PassFlush,
          PassStats, PassLook, PassStamp,
          PassClosure, LockOK, InPass
    <3>2. \A q \in Proc : q # p => pc'[q] = pc[q]
      BY <2>1, OneProcess
    <3> QED
      BY <3>1, <3>2 DEF LockOK
  <2> DEFINE Kept == \A i \in DOMAIN projects' : i # Canon =>
                        /\ i \in DOMAIN projects
                        /\ projects'[i].count = projects[i].count
                        /\ Of("symbols", i)' = Of("symbols", i)
             Goal == /\ (\A q \in Proc : pc'[q] \notin Merging) =>
                         \A i \in DOMAIN projects' : (i # Canon \/ lock' = None) => Exact(i)'
                     /\ \A q \in Proc : pc'[q] \in {"look", "stamp"}
                             => total'[q] = Cardinality(Of("symbols", Canon))'
                     /\ \A q \in Proc : (pc'[q] = "closure" /\ Canon \in DOMAIN projects')
                             => Exact(Canon)'
  <2>4. ASSUME pc'[p] \notin {"look", "stamp", "closure"}, lock' # None, Kept
        PROVE  Goal
    <3>1. \A q \in Proc : pc'[q] \notin {"look", "stamp", "closure"}
      BY <2>3, <2>4 DEF InPass
    <3>2. ASSUME \A q \in Proc : pc'[q] \notin Merging, NEW i \in DOMAIN projects', i # Canon
          PROVE  Exact(i)'
      <4>1. Exact(i)
        BY <1>2, <2>2, <2>4, <3>2
      <4> QED
        BY <2>4, <3>2, <4>1 DEF Exact
    <3> QED
      BY <2>4, <3>1, <3>2
  <2>5. CASE PassStart(p) \/ PassReread(p) \/ PassMeta(p)
    <3>1. /\ pc'[p] \in {"renew", "meta", "commit"} /\ lock' = p /\ UNCHANGED rows
          /\ \A i \in DOMAIN projects' : i # Canon => /\ i \in DOMAIN projects
                                                     /\ projects'[i] = projects[i]
      BY <1>0, <2>5 DEF PassStart, PassReread, PassMeta, Goto, With, LockOK, InPass
    <3>9. Kept
      BY <1>0, <3>1 DEF Of
    <3>10. Goal
      <4> HIDE DEF Kept, Goal
      <4> QED
        BY <1>0, <2>4, <3>1, <3>9
    <3> QED
      BY <3>10
  <2>6. CASE PassCommit(p) \/ PassFlush(p)
    <3>1. /\ pc'[p] \in {"flush", "stats"} /\ UNCHANGED <<projects, lock>> /\ pc[p] \in InPass
      BY <1>0, <2>6 DEF PassCommit, PassFlush, Goto, InPass
    <3>2. lock' = p
      BY <3>1 DEF LockOK
    <3>3. \A i : i # Canon => Of("symbols", i)' = Of("symbols", i)
      BY <2>1, PassTables DEF Of
    <3>9. Kept
      BY <1>0, <3>1, <3>2, <3>3
    <3>10. Goal
      <4> HIDE DEF Kept, Goal
      <4> QED
        BY <1>0, <2>4, <3>1, <3>2, <3>9
    <3> QED
      BY <3>10
  <2>7. CASE PassStats(p) \/ PassLook(p)
    <3>1. /\ pc'[p] \in {"look", "stamp"} /\ UNCHANGED <<projects, rows, lock>>
          /\ total'[p] = Cardinality(Of("symbols", Canon)) /\ pc[p] \in InPass
      <4>1. CASE PassStats(p)
        BY <1>0, <4>1 DEF PassStats, Goto, InPass
      <4>2. CASE PassLook(p)
        BY <1>0, <1>2, <4>2 DEF PassLook, Goto, InPass
      <4> QED
        BY <2>7, <4>1, <4>2
    <3>2. \A i : Of("symbols", i)' = Of("symbols", i)
      BY <3>1 DEF Of
    <3>3. \A q \in Proc : pc'[q] # "closure" /\ (pc'[q] \in {"look", "stamp"} => q = p)
      BY <2>3, <3>1 DEF InPass
    <3> QED
      BY <1>2, <2>2, <3>1, <3>2, <3>3 DEF Exact
  <2>8. CASE PassStamp(p)
    <3>1. /\ pc[p] = "stamp" /\ pc'[p] = "closure" /\ UNCHANGED <<rows, lock>> /\ pc[p] \in InPass
      BY <1>0, <2>8 DEF PassStamp, Goto, InPass
    <3>2. \A i : Of("symbols", i)' = Of("symbols", i)
      BY <3>1 DEF Of
    <3>3. projects'[Canon].count = total[p]
      BY <2>8 DEF PassStamp, With, Stamped
    <3>4. Exact(Canon)'
      BY <1>2, <3>1, <3>2, <3>3 DEF Exact
    <3>5. \A i \in DOMAIN projects' : i # Canon => i \in DOMAIN projects /\ projects'[i] = projects[i]
      BY <2>8 DEF PassStamp, With
    <3>6. \A q \in Proc : pc'[q] \notin {"look", "stamp"}
      BY <2>3, <3>1 DEF InPass
    <3>7. lock' # None
      BY <1>0, <3>1 DEF LockOK
    <3>8. ASSUME \A q \in Proc : pc'[q] \notin Merging, NEW i \in DOMAIN projects', i # Canon
          PROVE  Exact(i)'
      BY <1>2, <2>2, <3>2, <3>5, <3>8 DEF Exact
    <3> QED
      BY <3>4, <3>6, <3>7, <3>8
  <2>9. CASE PassClosure(p)
    <3>1. /\ pc[p] = "closure" /\ pc'[p] = "open" /\ UNCHANGED projects /\ lock' = None
          /\ rows'["symbols"] = rows["symbols"]
      BY <1>0, <2>1, <2>9, PassTables DEF PassClosure, Goto
    <3>2. \A i : Of("symbols", i)' = Of("symbols", i)
      BY <3>1 DEF Of
    <3>3. ASSUME \A q \in Proc : pc'[q] \notin Merging, NEW i \in DOMAIN projects' PROVE Exact(i)'
      <4>1. Exact(i)
        BY <1>2, <2>2, <3>1, <3>3
      <4> QED
        BY <3>1, <3>2, <4>1 DEF Exact
    <3> QED
      BY <1>3, <3>1, <3>3
  <2> QED
    BY <2>1, <2>5, <2>6, <2>7, <2>8, <2>9 DEF Pass
<1>7. CASE (\E id : Deleted(id)) /\ UNCHANGED lock /\ Steady
           /\ \A q \in Proc : pc[q] \notin Merging /\ pc'[q] \notin Merging
  <2>1. PICK id : Deleted(id)
    BY <1>7
  <2>2. lock = None /\ lock' = None
    BY <1>7, <2>1 DEF Deleted
  <2>3. ASSUME NEW i \in DOMAIN projects' PROVE Exact(i)'
    <3>1. i \in DOMAIN projects /\ i # id /\ projects'[i] = projects[i]
      BY <2>1 DEF Deleted, Without
    <3>2. Of("symbols", i)' = Of("symbols", i)
      BY <2>1, <3>1, Numbers DEF Deleted, Of
    <3>3. Exact(i)
      BY <1>2, <1>7, <2>2, <3>1
    <3> QED
      BY <3>1, <3>2, <3>3 DEF Exact
  <2> QED
    BY <1>3, <2>2, <2>3
<1>8. CASE /\ Calm /\ Steady /\ UNCHANGED <<projects, rows>>
           /\ UNCHANGED lock \/ "pass" \in scars'
  <2>1. UNCHANGED lock
    BY <1>8
  <2>2. \A i : Of("symbols", i)' = Of("symbols", i)
    BY <1>8 DEF Of
  <2>3. \A i : Exact(i)' <=> Exact(i)
    BY <1>8, <2>2 DEF Exact
  <2>4. (\A p \in Proc : pc'[p] \notin Merging) => \A p \in Proc : pc[p] \notin Merging
    BY <1>8 DEF Calm
  <2>5. \A p \in Proc : pc'[p] \in {"look", "stamp", "closure"} => pc[p] = pc'[p] /\ total'[p] = total[p]
    BY <1>8 DEF Steady, InPass
  <2> QED
    BY <1>2, <1>8, <2>1, <2>2, <2>3, <2>4, <2>5
<1> QED
  BY <1>4, <1>5, <1>6, <1>7, <1>8, Undisturbed

-----------------------------------------------------------------------------
(* The stamps.                                                             *)

\* What a pass is about to write over the row's stamp is not older than it.
SeenOK ==
    "dedup" \notin scars =>
        \A p \in Proc : pc[p] \in {"meta", "stamp"} /\ Canon \in DOMAIN projects
                            => projects[Canon].binary <= seen[p]

\* Every step keeps that: only a pass writes a stamp, and only a dedup brings
\* another row.
LEMMA SeenStep == StoreTyping /\ LockOK /\ LockOK' /\ SeenOK /\ [Next]_vars => SeenOK'
<1> SUFFICES ASSUME StoreTyping, LockOK, LockOK', SeenOK, [Next]_vars, "dedup" \notin scars',
                    NEW p \in Proc, pc'[p] \in {"meta", "stamp"}, Canon \in DOMAIN projects'
             PROVE  projects'[Canon].binary <= seen'[p]
  BY DEF SeenOK
<1> USE DEF schema, tables, migration, pass, ghosts
<1>1. /\ pc \in [Proc -> Label] /\ seen \in [Proc -> Nat]
      /\ projects \in [DOMAIN projects -> Entry] /\ None \notin Proc
  BY ConstantsOK DEF StoreTyping
<1>2. (pc[p] \in {"meta", "stamp"} /\ Canon \in DOMAIN projects) => projects[Canon].binary <= seen[p]
  BY Undisturbed DEF SeenOK
<1>3. lock' = p
  BY DEF LockOK, InPass
<1>4. CASE \E q \in Proc : MergeStep(q)
  BY <1>1, <1>3, <1>4 DEF MergeStep, Alone
<1>5. CASE \E q \in Proc : Enter(q) /\ \A o \in Proc \ {q} : pc'[o] = pc[o] /\ plan'[o] = plan[o]
  BY <1>2, <1>5 DEF Enter, Scan
<1>6. CASE \E q \in Proc : Pass(q) /\ Calm
  <2>1. PICK q \in Proc : Pass(q)
    BY <1>6
  <2>2. q = p
    <3>1. lock = q \/ lock' = q
      BY <1>1, <2>1 DEF Pass, PassStart, PassReread, PassMeta, PassCommit, PassFlush,
          PassStats, PassLook,
          PassStamp, PassClosure, LockOK, InPass
    <3>2. q # p => pc[p] = pc'[p]
      BY <2>1, OneProcess
    <3> QED
      BY <1>3, <3>1, <3>2 DEF LockOK, InPass
  <2>3. PassStart(p) \/ PassReread(p) \/ PassLook(p)
    BY <1>1, <2>1, <2>2 DEF Pass, PassMeta, PassCommit, PassFlush, PassStats, PassStamp,
        PassClosure, Goto
  <2>4. UNCHANGED projects /\ seen'[p] = Larger(seen[p], projects[Canon].binary)
    BY <1>1, <2>3 DEF PassStart, PassReread, PassLook, See
  <2>5. projects[Canon].binary \in Nat /\ seen[p] \in Nat
    BY <1>1, <2>4 DEF Entry
  <2> QED
    BY <2>4, <2>5 DEF Larger
<1>7. CASE (\E id : Deleted(id)) /\ UNCHANGED lock /\ Steady
           /\ \A q \in Proc : pc[q] \notin Merging /\ pc'[q] \notin Merging
  <2>1. pc[p] = pc'[p] /\ seen'[p] = seen[p]
    BY <1>7 DEF Steady, InPass
  <2>2. Canon \in DOMAIN projects /\ projects'[Canon] = projects[Canon]
    BY <1>7 DEF Deleted, Without
  <2> QED
    BY <1>2, <2>1, <2>2
<1>8. CASE /\ Calm /\ Steady /\ UNCHANGED <<projects, rows>>
           /\ UNCHANGED lock \/ "pass" \in scars'
  BY <1>2, <1>8 DEF Steady, InPass
<1> QED
  BY <1>4, <1>5, <1>6, <1>7, <1>8, Undisturbed

\* No step turns a stamp back, unless a dedup was disturbed.
LEMMA StampStep ==
  StoreTyping /\ LockOK /\ SeenOK /\ [Next]_vars
  => \A i \in DOMAIN projects \cap DOMAIN projects' :
        /\ "dedup" \notin scars' => projects'[i].binary >= projects[i].binary
        /\ projects'[i].schema >= projects[i].schema
<1> DEFINE Forward == \A i \in DOMAIN projects \cap DOMAIN projects' :
                        /\ "dedup" \notin scars' => projects'[i].binary >= projects[i].binary
                        /\ projects'[i].schema >= projects[i].schema
<1> SUFFICES ASSUME StoreTyping, LockOK, SeenOK, [Next]_vars PROVE Forward
  OBVIOUS
<1> USE DEF schema, tables, migration, pass, ghosts
<1>1. /\ projects \in [DOMAIN projects -> Entry]
      /\ \A i \in DOMAIN projects : projects[i].binary \in Nat /\ projects[i].schema \in Nat
  BY DEF StoreTyping, Entry
<1>2. ASSUME \A i \in DOMAIN projects \cap DOMAIN projects' :
                projects'[i].binary = projects[i].binary /\ projects'[i].schema = projects[i].schema
      PROVE  Forward
  BY <1>1, <1>2
<1>3. ASSUME UNCHANGED projects PROVE Forward
  BY <1>2, <1>3
<1>4. ASSUME NEW id, projects' = Without(projects, id) PROVE Forward
  BY <1>2, <1>4 DEF Without
<1>5. ASSUME NEW p \in Proc, Dedup(p) PROVE Forward
  <2>1. CASE Scan(p) \/ Move(p) \/ Drop(p) \/ RekeyTable(p)
    BY <1>3, <2>1 DEF Scan, Move, Drop, RekeyTable
  <2>2. CASE Unlink(p)
    BY <1>3, <1>4, <2>2 DEF Unlink
  <2>3. CASE Rename(p)
    <3> DEFINE w == plan[p].winner
    <3>1. CASE w \in DOMAIN projects /\ Canon \notin DOMAIN projects
               /\ projects' = With(Without(projects, w), Canon, projects[w])
      <4>1. \A i \in DOMAIN projects \cap DOMAIN projects' :
                i # Canon /\ projects'[i] = projects[i]
        BY <3>1 DEF With, Without
      <4> QED
        BY <1>2, <4>1
    <3> QED
      BY <1>3, <2>3, <3>1 DEF Rename
  <2>4. CASE Recount(p)
    <3>1. \/ projects' = projects
          \/ projects' = [projects EXCEPT ![Canon].count = Cardinality(Of("symbols", Canon))]
      BY <2>4 DEF Recount
    <3> QED
      BY <1>1, <1>2, <1>3, <3>1 DEF Entry
  <2> QED
    BY <1>5, <2>1, <2>2, <2>3, <2>4 DEF Dedup
<1>6. ASSUME NEW p \in Proc, Pass(p) PROVE Forward
  <2>1. Knows[p] \in Nat /\ Binary[p] \in Nat
    BY ConstantsOK DEF MaxVersion
  <2>2. CASE PassMeta(p) \/ PassStamp(p)
    <3>1. \A i \in DOMAIN projects : i # Canon => projects'[i] = projects[i]
      BY <2>2 DEF PassMeta, PassStamp, With
    <3>2. Canon \in DOMAIN projects =>
            \/ projects'[Canon] = Renewed(p, projects[Canon])
            \/ projects'[Canon] = Stamped(p, projects[Canon])
      BY <2>2 DEF PassMeta, PassStamp, With
    <3>3. pc[p] \in {"meta", "stamp"} /\ seen[p] \in Nat
      BY <2>2 DEF PassMeta, PassStamp, StoreTyping
    <3>4. ASSUME Canon \in DOMAIN projects, "dedup" \notin scars'
          PROVE  projects[Canon].binary <= seen[p]
      BY <3>3, <3>4, Undisturbed DEF SeenOK
    <3>5. Canon \in DOMAIN projects =>
            /\ "dedup" \notin scars' => projects'[Canon].binary >= projects[Canon].binary
            /\ projects'[Canon].schema >= projects[Canon].schema
      <4> SUFFICES ASSUME Canon \in DOMAIN projects
                   PROVE  /\ "dedup" \notin scars'
                                => projects'[Canon].binary >= projects[Canon].binary
                          /\ projects'[Canon].schema >= projects[Canon].schema
        OBVIOUS
      <4>1. projects[Canon] \in Entry
        BY <1>1
      <4>2. CASE projects'[Canon] = Renewed(p, projects[Canon])
        BY <1>1, <2>1, <3>3, <3>4, <4>1, <4>2 DEF Renewed, Larger, Entry
      <4>3. CASE projects'[Canon] = Stamped(p, projects[Canon])
        BY <1>1, <2>1, <3>3, <3>4, <4>3 DEF Stamped, Larger
      <4> QED
        BY <3>2, <4>2, <4>3
    <3> QED
      BY <1>1, <3>1, <3>5
  <2>4. CASE \/ PassStart(p) \/ PassReread(p) \/ PassCommit(p) \/ PassFlush(p)
             \/ PassStats(p) \/ PassLook(p)
             \/ PassClosure(p)
    BY <1>3, <2>4 DEF PassStart, PassReread, PassCommit, PassFlush, PassStats,
        PassLook, PassClosure
  <2> QED
    BY <1>6, <2>2, <2>4 DEF Pass
<1>7. ASSUME NEW p \in Proc, Migrate(p) \/ DriftTick(p) \/ Exit(p) \/ Crash(p) \/ ListEmpty(p)
      PROVE  Forward
  BY <1>3, <1>7 DEF Migrate, OpenStart, Bootstrap, ReadVersion, RunStatement, BumpVersion,
        Migrated, Busy, DriftTick, Exit, Crash, Gone, ListEmpty
<1>8. ASSUME NEW p \in Proc, Sweep(p) \/ \E id \in Id : DeleteProject(p, id) PROVE Forward
  <2>1. UNCHANGED projects \/ \E id : projects' = Without(projects, id)
    BY <1>8 DEF Sweep, DeleteProject, Deleted
  <2> QED
    BY <1>3, <1>4, <2>1
<1>9. CASE UNCHANGED vars
  BY <1>3, <1>9 DEF vars
<1> QED
  BY <1>5, <1>6, <1>7, <1>8, <1>9 DEF Next

-----------------------------------------------------------------------------
(* A merge and the keys.                                                   *)

\* A step of a merge that nothing disturbs keeps every key.
LEMMA KeysStep ==
  ASSUME StoreTyping, LockOK, PlanOK, MergeOK, [Next]_vars, "dedup" \notin scars',
         NEW p \in Proc, pc[p] \in Merging, pc'[p] # pc[p], NEW i \in DOMAIN Moved
  PROVE  Keys(Moved[i]) \subseteq Keys(Moved[i])'
<1> USE DEF schema, tables, migration, pass, ghosts
<1>1. MergeStep(p)
  <2>1. "dedup" \notin scars
    BY Undisturbed
  <2>2. /\ ~ Calm
        /\ ~ \A q \in Proc : pc[q] \notin Merging /\ pc'[q] \notin Merging
    BY DEF Calm
  <2>3. ASSUME NEW q \in Proc, Enter(q), \A o \in Proc \ {q} : pc'[o] = pc[o] PROVE FALSE
    BY <2>3 DEF Enter, Scan, Merging
  <2>4. PICK q \in Proc : MergeStep(q)
    BY <2>2, <2>3, Undisturbed
  <2>5. q = p
    BY <2>4 DEF MergeStep, Alone
  <2> QED
    BY <2>4, <2>5
<1>2. /\ rows \in [Table -> SUBSET (Id \X Key)] /\ ~ Fail(p) /\ Canon \in Id
      /\ plan[p].winner \in Id /\ SpanOK(p) /\ pc \in [Proc -> Label]
      /\ Moved[i] \in Table
  <2>1. "dedup" \notin scars
    BY Undisturbed
  <2> QED
    BY <1>1, <2>1, ConstantsOK, Numbers DEF StoreTyping, MergeStep, PlanOK, MergeOK
<1>3. ASSUME UNCHANGED rows PROVE Keys(Moved[i]) \subseteq Keys(Moved[i])'
  BY <1>3 DEF Keys
<1>4. ASSUME NEW t \in Table, NEW S, rows' = [rows EXCEPT ![t] = S],
             \A r \in rows[t] : \E u \in S : u[2] = r[2]
      PROVE  Keys(Moved[i]) \subseteq Keys(Moved[i])'
  <2>1. ASSUME NEW r \in rows[Moved[i]] PROVE \E u \in rows'[Moved[i]] : u[2] = r[2]
    BY <1>2, <1>4, <2>1
  <2> QED
    BY <2>1 DEF Keys
<1>5. CASE Move(p)
  <2> DEFINE w == plan[p].winner
             l == plan[p].loser
             t == Moved[plan[p].tab]
             go == {r \in Of(t, l) : <<w, r[2]>> \notin rows[t]}
             S == (rows[t] \ go) \cup Rekey(go, l, w)
  <2>1. pc[p] = "move" /\ rows' = [rows EXCEPT ![t] = S]
    BY <1>2, <1>5 DEF Move
  <2>2. t \in Table /\ l \in Id /\ l # w /\ w \in Id
    BY <1>1, <2>1, Numbers DEF PlanOK, MergeStep
  <2>3. go \in SUBSET (Id \X Key)
    BY <1>2, <2>2 DEF Of
  <2>4. \A r \in rows[t] : \E u \in S : u[2] = r[2]
    <3>1. \A r \in go : \E u \in Rekey(go, l, w) : u[2] = r[2]
      <4> HIDE DEF go, t, l, w
      <4> QED
        BY <2>2, <2>3, Rekeyed
    <3> HIDE DEF go, t, l, w
    <3> QED
      BY <3>1
  <2> HIDE DEF S, t
  <2> QED
    BY <1>4, <2>1, <2>2, <2>4
<1>6. CASE Drop(p)
  <2> DEFINE t == Moved[plan[p].tab]
             S == rows[t] \ Of(t, plan[p].loser)
  <2>1. pc[p] = "drop" /\ rows' = [rows EXCEPT ![t] = S]
    BY <1>6 DEF Drop
  <2>2. t \in Table /\ plan[p].loser # plan[p].winner
    BY <1>1, <2>1, Numbers DEF PlanOK, MergeStep
  <2>3. \A r \in rows[t] : \E u \in S : u[2] = r[2]
    <3>1. ASSUME NEW r \in Of(t, plan[p].loser)
          PROVE  <<plan[p].winner, r[2]>> \in S
      BY <1>2, <2>1, <2>2 DEF SpanOK, Of
    <3>2. ASSUME NEW r \in rows[t] PROVE \E u \in S : u[2] = r[2]
      <4>1. CASE r \in Of(t, plan[p].loser)
        <5>1. <<plan[p].winner, r[2]>>[2] = r[2]
          OBVIOUS
        <5> QED
          BY <3>1, <4>1, <5>1
      <4>2. CASE r \notin Of(t, plan[p].loser)
        BY <3>2, <4>2
      <4> QED
        BY <4>1, <4>2
    <3> QED
      BY <3>2
  <2> HIDE DEF S, t
  <2> QED
    BY <1>4, <2>1, <2>2, <2>3
<1>7. CASE RekeyTable(p)
  <2> DEFINE w == plan[p].winner
             t == Moved[plan[p].tab]
             S == Rekey(rows[t], w, Canon)
  <2>1. pc[p] = "rekey" /\ rows' = [rows EXCEPT ![t] = S]
    BY <1>2, <1>7 DEF RekeyTable
  <2>2. t \in Table /\ w # Canon
    BY <1>1, <2>1, Numbers DEF PlanOK, MergeStep
  <2>3. \A r \in rows[t] : \E u \in S : u[2] = r[2]
    BY <1>2, <2>2, Rekeyed
  <2> HIDE DEF S, t
  <2> QED
    BY <1>4, <2>1, <2>2, <2>3
<1>8. CASE Unlink(p) \/ Rename(p) \/ Recount(p)
  BY <1>3, <1>8 DEF Unlink, Rename, Recount
<1> QED
  BY <1>1, <1>5, <1>6, <1>7, <1>8 DEF MergeStep

-----------------------------------------------------------------------------
(* The theorems.                                                           *)

\* The inductive invariant.
StoreInv ==
    /\ StoreTyping /\ LockOK /\ PlanOK
    /\ MigrateOK
    /\ MergeOK /\ CountsOK /\ SeenOK

\* It holds of the databases that there are.
LEMMA StoreInit == Init => StoreInv
<1> SUFFICES ASSUME Init PROVE StoreInv
  OBVIOUS
<1>1. PICK P \in Projects0, S \in SUBSET (Id \X Key), cl \in {{}, Key}, by \in Stamps0 :
        LET held == {r \in S : r[1] \in P} IN
        /\ S = held /\ (version <= 1 => P = {})
        /\ rows = [t \in Table |->
                    IF t = "closure"
                    THEN {r \in held : Closure /\ r[2] \in cl} ELSE held]
        /\ projects = [i \in P |->
                    [count |-> Cardinality({r \in held : r[1] = i}),
                     binary |-> by[1], schema |-> by[2]]]
  BY DEF Init
<1>b. by[1] \in Nat /\ by[2] \in Nat
  BY ConstantsOK DEF Stamps0, MaxVersion
<1>2. P \subseteq Id /\ P = DOMAIN projects /\ rows["symbols"] = S /\ \A r \in S : r[1] \in P
  BY <1>1, ConstantsOK, Numbers
<1>3. \A i \in P : /\ projects[i].count = Cardinality({r \in S : r[1] = i})
                   /\ projects[i] \in Entry
  <2>1. \A i \in P : Cardinality({r \in S : r[1] = i}) \in Nat
    BY RowsFinite
  <2>2. \A i \in P : projects[i] = [count |-> Cardinality({r \in S : r[1] = i}),
                                    binary |-> by[1], schema |-> by[2]]
    BY <1>1
  <2>3. ASSUME NEW i \in P
        PROVE  projects[i].count = Cardinality({r \in S : r[1] = i}) /\ projects[i] \in Entry
    <3> DEFINE c == Cardinality({r \in S : r[1] = i})
    <3>1. c \in Nat /\ projects[i] = [count |-> c, binary |-> by[1], schema |-> by[2]]
      BY <2>1, <2>2
    <3>2. projects[i].count = c /\ projects[i] \in Entry
      <4> HIDE DEF c
      <4> QED
        BY <1>b, <3>1 DEF Entry
    <3> QED
      BY <3>2
  <2> QED
    BY <2>3
<1>4. pc = [p \in Proc |-> "down"] /\ lock = None /\ None \notin Proc /\ \A p \in Proc : pc[p] = "down"
  BY ConstantsOK DEF Init
<1>5. StoreTyping
  <2>1. version \in Nat
    BY ConstantsOK DEF Init, MaxVersion
  <2>2. projects \in [DOMAIN projects -> Entry] /\ DOMAIN projects \subseteq Id
    BY <1>1, <1>2, <1>3
  <2>3. rows \in [Table -> SUBSET (Id \X Key)]
    BY <1>1
  <2>4. plan \in [Proc -> Plan]
    BY DEF Init, NoPlan, Plan
  <2>5. pc \in [Proc -> Label]
    BY <1>4 DEF Label, Down
  <2> QED
    BY <2>1, <2>2, <2>3, <2>4, <2>5 DEF StoreTyping, Init
<1>6. LockOK /\ PlanOK /\ \A p \in Proc : SpanOK(p)
  BY <1>4 DEF LockOK, PlanOK, SpanOK, InPass, Merging
<1>7. MigrateOK
  <2>1. Earned(version)
    BY DEF Earned, Init
  <2>2. \A p \in Proc : at[p] = 0 /\ stmt[p] = 1
    BY DEF Init
  <2> QED
    BY <2>1, <2>2 DEF MigrateOK, Earned
<1>8. Homed
  BY <1>2 DEF Homed
<1>9. CountsOK
  <2>1. \A i \in P : Exact(i)
    BY <1>2, <1>3 DEF Exact, Of
  <2> QED
    BY <1>2, <1>4, <2>1 DEF CountsOK
<1>10. SeenOK
  BY <1>4 DEF SeenOK
<1> QED
  BY <1>5, <1>6, <1>7, <1>8, <1>9, <1>10 DEF StoreInv, MergeOK

\* And every step keeps it.
LEMMA StoreStep == StoreInv /\ [Next]_vars => StoreInv'
<1> SUFFICES ASSUME StoreInv, [Next]_vars PROVE StoreInv'
  OBVIOUS
<1>1. StoreTyping'
  BY PlaceTypeStep, TableTypeStep DEF StoreInv, StoreTyping
<1>2. LockOK' /\ PlanOK' /\ MigrateOK'
  BY LockStep, PlanStep, MigrateStep DEF StoreInv
<1>3. MergeOK'
  BY <1>1, <1>2, MergeOKStep DEF StoreInv
<1>4. CountsOK'
  BY <1>2, CountsStep DEF StoreInv
<1>5. SeenOK'
  BY <1>2, SeenStep DEF StoreInv
<1> QED
  BY <1>1, <1>2, <1>3, <1>4, <1>5 DEF StoreInv

\* Whichever processes open the database, crash, merge, index and delete, the
\* store keeps its types, its lock, its versions, its merges and its counts
\* (internal/db/db.go).
THEOREM StoreCorrect == Spec => []StoreInv
<1> QED
  BY StoreInit, StoreStep, PTL DEF Spec

\* schema_version never claims a migration some statement of which has not
\* run (migrate).
THEOREM VersionEarned == Spec => []VersionIsEarned
<1>1. StoreInv => VersionIsEarned
  BY DEF StoreInv, MigrateOK, Earned, VersionIsEarned
<1> QED
  BY <1>1, StoreCorrect, PTL

\* Symbols have their projects, and projects the counts of their symbols,
\* as long as no merge or pass has been cut short or disturbed
\* (dedupProjectsByCanonicalPath, recomputeProjectCounts, UpsertProject).
THEOREM ProjectsAdd == Spec => []ProjectsAddUp
<1>1. StoreInv => ProjectsAddUp
  <2> SUFFICES ASSUME StoreInv PROVE ProjectsAddUp
    OBVIOUS
  <2>1. ("dedup" \notin scars /\ \A p \in Proc : pc[p] # "rekey") =>
            \A r \in rows["symbols"] : r[1] \in DOMAIN projects
    BY DEF StoreInv, MergeOK, Homed
  <2>2. (scars = {} /\ lock = None /\ \A p \in Proc : pc[p] \notin Merging) =>
            \A i \in DOMAIN projects :
                projects[i].count = Cardinality(Of("symbols", i))
    BY DEF StoreInv, CountsOK, Exact
  <2> QED
    BY <2>1, <2>2 DEF ProjectsAddUp
<1> QED
  BY <1>1, StoreCorrect, PTL

\* A merge that nothing disturbs loses no file and no symbol
\* (mergeProjectInto, renameProjectID).
THEOREM MergeKeeps == Spec => MergeLosesNoKey
<1>1. StoreInv /\ [Next]_vars
      => [("dedup" \notin scars' /\ \E p \in Proc : pc[p] \in Merging /\ pc'[p] # pc[p]) =>
            \A i \in DOMAIN Moved : Keys(Moved[i]) \subseteq Keys(Moved[i])']_vars
  BY KeysStep DEF StoreInv
<1> QED
  BY <1>1, StoreCorrect, PTL DEF Spec, MergeLosesNoKey

\* No stamp of a project goes back as long as its row lives, although it is
\* read before the statement that writes it, unless a dedup met a pass
\* (UpsertProject, UpsertProjectMeta).
THEOREM StampForward == Spec => StampNeverGoesBack
<1>1. StoreInv /\ [Next]_vars
      => [\A i \in DOMAIN projects \cap DOMAIN projects' :
            /\ "dedup" \notin scars' => projects'[i].binary >= projects[i].binary
            /\ projects'[i].schema >= projects[i].schema]_vars
  BY StampStep DEF StoreInv
<1> QED
  BY <1>1, StoreCorrect, PTL DEF Spec, StampNeverGoesBack
=============================================================================
