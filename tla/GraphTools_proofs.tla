-------------------------- MODULE GraphTools_proofs --------------------------
(***************************************************************************)
(* Proofs about the tools that walk the graph, for any graph, any question *)
(* and any edit.                                                           *)
(*                                                                         *)
(* A walk of n edges is one relation, whichever end it is grown from       *)
(* (WalkedFirst, WalkedLast).  The closure holds the ends of the walks of  *)
(* each length that no shorter walk joins (ClosureIsFirst), and the SQL,   *)
(* which keeps every distance, is cut to the least of them (CteIsNear), so *)
(* both list the same rows (TraceByIdFits), and what trace, match and      *)
(* changes make of those follows.  For an edit, a changed line is in a run *)
(* of lines that are not kept, as long as can be, and the new lines before *)
(* it are counted the same way by git's hunk and by the index, so the hunk *)
(* and the symbol's lines meet (RunTouches, ChangeIsFound).                *)
(***************************************************************************)
EXTENDS GraphTools, FiniteSetTheorems, WellFoundedInduction, TLAPS

\* Of some numbers one is the least.
LEMMA LeastExists ==
  ASSUME NEW T \in SUBSET Nat, T # {}
  PROVE  \E i \in T : \A j \in T : i <= j
<1>1. PICK i \in T : \A j \in T : ~ (<<j, i>> \in OpToRel(<, Nat))
  BY NatLessThanWellFounded, WFMin
<1>2. \A j \in T : ~ (j < i)
  BY <1>1 DEF OpToRel
<1> QED
  BY <1>2

\* Min is the least of some numbers.
LEMMA MinIsLeast ==
  ASSUME NEW T \in SUBSET Nat, T # {}
  PROVE  Min(T) \in T /\ \A j \in T : Min(T) <= j
BY LeastExists DEF Min

\* And whatever is the least of them is Min.
LEMMA LeastIsMin ==
  ASSUME NEW T \in SUBSET Nat, NEW n \in T, \A j \in T : n <= j
  PROVE  Min(T) = n
<1>1. Min(T) \in Nat /\ n \in Nat /\ n <= Min(T) /\ Min(T) <= n
  BY MinIsLeast
<1> QED
  BY <1>1

-----------------------------------------------------------------------------
(* The recursive functions are what their definitions say.                 *)

ReachTo(edges, kinds, dir, start, f, m) ==
    f = [d \in 0 .. m |-> IF d = 0 THEN {start}
                          ELSE Neighbours(edges, kinds, dir, f[d - 1])]

\* There is a function such as Reach asks for.
LEMMA ReachExists ==
  ASSUME NEW edges, NEW kinds, NEW dir, NEW start, NEW m \in Nat
  PROVE  \E f : ReachTo(edges, kinds, dir, start, f, m)
<1> DEFINE Bad == {n \in Nat : ~ \E f : ReachTo(edges, kinds, dir, start, f, n)}
<1>1. SUFFICES ASSUME Bad # {} PROVE FALSE
  OBVIOUS
<1>2. PICK n \in Bad : \A j \in Bad : n <= j
  <2> HIDE DEF Bad
  <2>1. Bad \in SUBSET Nat
    BY DEF Bad
  <2> QED
    BY <1>1, <2>1, LeastExists
<1>3. n # 0
  <2>1. ReachTo(edges, kinds, dir, start, [d \in 0 .. 0 |-> {start}], 0)
    BY DEF ReachTo
  <2> QED
    BY <2>1
<1>4. n - 1 \in Nat /\ n - 1 \notin Bad
  BY <1>2, <1>3
<1>5. PICK g : ReachTo(edges, kinds, dir, start, g, n - 1)
  BY <1>4
<1> DEFINE f == [d \in 0 .. n |-> IF d = n THEN Neighbours(edges, kinds, dir, g[n - 1])
                                  ELSE g[d]]
<1>6. ReachTo(edges, kinds, dir, start, f, n)
  <2>1. \A d \in 0 .. n : f[d] = IF d = 0 THEN {start}
                                 ELSE Neighbours(edges, kinds, dir, f[d - 1])
    <3> TAKE d \in 0 .. n
    <3>1. CASE d = n
      BY <1>3, <3>1
    <3>2. CASE d # n
      <4>1. d \in 0 .. (n - 1) /\ (d # 0 => d - 1 \in 0 .. (n - 1) /\ d - 1 # n)
        BY <1>4, <3>2
      <4>2. g[d] = IF d = 0 THEN {start} ELSE Neighbours(edges, kinds, dir, g[d - 1])
        BY <1>5, <4>1 DEF ReachTo
      <4> QED
        BY <3>2, <4>1, <4>2
    <3> QED
      BY <3>1, <3>2
  <2>2. f = [d \in 0 .. n |-> f[d]]
    OBVIOUS
  <2> HIDE DEF f
  <2> QED
    BY <2>1, <2>2 DEF ReachTo
<1> HIDE DEF f
<1> QED
  BY <1>6

\* Reach step by step.
LEMMA ReachUnfolds ==
  ASSUME NEW edges, NEW kinds, NEW dir, NEW start, NEW m \in Nat
  PROVE  ReachTo(edges, kinds, dir, start, Reach(edges, kinds, dir, start, m), m)
<1>1. Reach(edges, kinds, dir, start, m)
      = CHOOSE f : ReachTo(edges, kinds, dir, start, f, m)
  BY DEF Reach, ReachTo
<1> QED
  BY <1>1, ReachExists

FrontiersTo(edges, source, f, m) ==
    f = [d \in 0 .. m |->
            IF d = 0 THEN [new |-> {source}, seen |-> {source}]
            ELSE LET next == Neighbours(edges, CallKinds, "outbound", f[d - 1].new)
                                \ f[d - 1].seen
                 IN  [new |-> next, seen |-> f[d - 1].seen \cup next]]

\* There is a function such as Frontiers asks for.
LEMMA FrontiersExist ==
  ASSUME NEW edges, NEW source, NEW m \in Nat
  PROVE  \E f : FrontiersTo(edges, source, f, m)
<1> DEFINE Bad == {n \in Nat : ~ \E f : FrontiersTo(edges, source, f, n)}
<1>1. SUFFICES ASSUME Bad # {} PROVE FALSE
  OBVIOUS
<1>2. PICK n \in Bad : \A j \in Bad : n <= j
  <2> HIDE DEF Bad
  <2>1. Bad \in SUBSET Nat
    BY DEF Bad
  <2> QED
    BY <1>1, <2>1, LeastExists
<1>3. n # 0
  <2>1. FrontiersTo(edges, source,
            [d \in 0 .. 0 |-> [new |-> {source}, seen |-> {source}]], 0)
    BY DEF FrontiersTo
  <2> QED
    BY <2>1
<1>4. n - 1 \in Nat /\ n - 1 \notin Bad
  BY <1>2, <1>3
<1>5. PICK g : FrontiersTo(edges, source, g, n - 1)
  BY <1>4
<1> DEFINE more == Neighbours(edges, CallKinds, "outbound", g[n - 1].new) \ g[n - 1].seen
           f == [d \in 0 .. n |->
                    IF d = n THEN [new |-> more, seen |-> g[n - 1].seen \cup more]
                    ELSE g[d]]
           step(h, d) == LET next == Neighbours(edges, CallKinds, "outbound", h[d - 1].new)
                                        \ h[d - 1].seen
                         IN  [new |-> next, seen |-> h[d - 1].seen \cup next]
<1>6. FrontiersTo(edges, source, f, n)
  <2>1. \A d \in 0 .. n : f[d] = IF d = 0 THEN [new |-> {source}, seen |-> {source}]
                                 ELSE step(f, d)
    <3> TAKE d \in 0 .. n
    <3>1. CASE d = n
      <4>1. d # 0 /\ d - 1 \in 0 .. n /\ d - 1 # n
        BY <1>3, <1>4, <3>1
      <4>2. f[d] = [new |-> more, seen |-> g[n - 1].seen \cup more] /\ f[d - 1] = g[n - 1]
        BY <3>1, <4>1
      <4> HIDE DEF f
      <4> QED
        BY <3>1, <4>1, <4>2
    <3>2. CASE d # n
      <4>1. d \in 0 .. (n - 1) /\ (d # 0 => d - 1 \in 0 .. (n - 1) /\ d - 1 # n)
        BY <1>4, <3>2
      <4>2. g[d] = IF d = 0 THEN [new |-> {source}, seen |-> {source}] ELSE step(g, d)
        BY <1>5, <4>1 DEF FrontiersTo
      <4>3. f[d] = g[d] /\ (d # 0 => f[d - 1] = g[d - 1])
        BY <3>2, <4>1
      <4> HIDE DEF f
      <4> QED
        BY <4>2, <4>3
    <3> QED
      BY <3>1, <3>2
  <2>2. f = [d \in 0 .. n |-> f[d]]
    OBVIOUS
  <2> HIDE DEF f
  <2> QED
    BY <2>1, <2>2 DEF FrontiersTo
<1> HIDE DEF f
<1> QED
  BY <1>6

\* Frontiers step by step.
LEMMA FrontiersUnfold ==
  ASSUME NEW edges, NEW source, NEW m \in Nat
  PROVE  FrontiersTo(edges, source, Frontiers(edges, source, m), m)
<1>1. Frontiers(edges, source, m) = CHOOSE f : FrontiersTo(edges, source, f, m)
  BY DEF Frontiers, FrontiersTo
<1> QED
  BY <1>1, FrontiersExist

-----------------------------------------------------------------------------
(* Walks, one after another.                                               *)

Ends(edges) == {e.from : e \in edges} \cup {e.to : e \in edges}

Steps(edges, kinds) == {<<e.from, e.to>> : e \in {f \in edges : f.kind \in kinds}}

Longer(edges, kinds, r) ==
    {p \in Ends(edges) \X Ends(edges) :
        \E mid \in Ends(edges) :
            <<p[1], mid>> \in r /\ <<mid, p[2]>> \in Steps(edges, kinds)}

WalksTo(edges, kinds, w, m) ==
    w = [n \in 1 .. m |->
            IF n = 1 THEN Steps(edges, kinds)
            ELSE Longer(edges, kinds, w[n - 1])]

\* There is a function such as Walks asks for.
LEMMA WalksExist ==
  ASSUME NEW edges, NEW kinds, NEW m \in Nat
  PROVE  \E w : WalksTo(edges, kinds, w, m)
<1> DEFINE Bad == {n \in Nat : ~ \E w : WalksTo(edges, kinds, w, n)}
<1>1. SUFFICES ASSUME Bad # {} PROVE FALSE
  OBVIOUS
<1>2. PICK n \in Bad : \A j \in Bad : n <= j
  <2> HIDE DEF Bad
  <2>1. Bad \in SUBSET Nat
    BY DEF Bad
  <2> QED
    BY <1>1, <2>1, LeastExists
<1>3. n # 0
  <2>1. WalksTo(edges, kinds, [k \in 1 .. 0 |-> {}], 0)
    BY DEF WalksTo
  <2> QED
    BY <2>1
<1>4. n - 1 \in Nat /\ n - 1 \notin Bad
  BY <1>2, <1>3
<1>5. PICK g : WalksTo(edges, kinds, g, n - 1)
  BY <1>4
<1> DEFINE w == [k \in 1 .. n |-> IF k = n THEN IF n = 1 THEN Steps(edges, kinds)
                                                ELSE Longer(edges, kinds, g[n - 1])
                                  ELSE g[k]]
<1>6. WalksTo(edges, kinds, w, n)
  <2>1. \A k \in 1 .. n : w[k] = IF k = 1 THEN Steps(edges, kinds) ELSE Longer(edges, kinds, w[k - 1])
    <3> TAKE k \in 1 .. n
    <3>1. CASE k = n
      BY <1>3, <3>1
    <3>2. CASE k # n
      <4>1. k \in 1 .. (n - 1) /\ (k # 1 => k - 1 \in 1 .. (n - 1) /\ k - 1 # n /\ k - 1 \in 1 .. n)
        BY <1>4, <3>2
      <4>2. g[k] = IF k = 1 THEN Steps(edges, kinds) ELSE Longer(edges, kinds, g[k - 1])
        BY <1>5, <4>1 DEF WalksTo
      <4>3. w[k] = g[k] /\ (k # 1 => w[k - 1] = g[k - 1])
        BY <3>2, <4>1
      <4> HIDE DEF w
      <4> QED
        BY <4>2, <4>3
    <3> QED
      BY <3>1, <3>2
  <2>2. w = [k \in 1 .. n |-> w[k]]
    OBVIOUS
  <2> HIDE DEF w
  <2> QED
    BY <2>1, <2>2 DEF WalksTo
<1> HIDE DEF w
<1> QED
  BY <1>6

\* Walks step by step.
LEMMA WalksUnfold ==
  ASSUME NEW edges, NEW kinds, NEW m \in Nat
  PROVE  WalksTo(edges, kinds, Walks(edges, kinds, m), m)
<1>1. Walks(edges, kinds, m) = CHOOSE w : WalksTo(edges, kinds, w, m)
  BY DEF Walks, WalksTo, Longer, Steps, Ends
<1> QED
  BY <1>1, WalksExist

Linked(edges, kinds, a, b) == <<a, b>> \in Steps(edges, kinds)

\* n edges of these kinds lead from a to b: the reference, whatever its bound.
Walked(edges, kinds, a, b, n) ==
    IF n = 0 THEN a = b ELSE <<a, b>> \in Walks(edges, kinds, n)[n]

\* What Walks says of a length does not depend on how far it goes.
LEMMA WalksAgain ==
  ASSUME NEW edges, NEW kinds, NEW m \in Nat, NEW n \in 1 .. m
  PROVE  Walks(edges, kinds, m)[n] = Walks(edges, kinds, n)[n]
<1> DEFINE Bad == {k \in Nat : \E l \in Nat : k \in 1 .. l
                    /\ Walks(edges, kinds, l)[k] # Walks(edges, kinds, k)[k]}
<1>1. SUFFICES ASSUME Bad # {} PROVE FALSE
  OBVIOUS
<1>2. PICK k \in Bad : \A j \in Bad : k <= j
  <2> HIDE DEF Bad
  <2>1. Bad \in SUBSET Nat
    BY DEF Bad
  <2> QED
    BY <1>1, <2>1, LeastExists
<1>3. PICK l \in Nat : k \in 1 .. l /\ Walks(edges, kinds, l)[k] # Walks(edges, kinds, k)[k]
  BY <1>2
<1>4. \A j \in Nat : k \in 1 .. j =>
        Walks(edges, kinds, j)[k] = IF k = 1 THEN Steps(edges, kinds)
                                    ELSE Longer(edges, kinds, Walks(edges, kinds, j)[k - 1])
  BY WalksUnfold DEF WalksTo
<1>5. CASE k = 1
  BY <1>3, <1>4, <1>5
<1>6. CASE k # 1
  <2>1. k \in Nat /\ k \in 1 .. k /\ k - 1 \in Nat /\ k - 1 \notin Bad
        /\ k - 1 \in 1 .. l /\ k - 1 \in 1 .. k
    BY <1>2, <1>3, <1>6
  <2>2. Walks(edges, kinds, l)[k - 1] = Walks(edges, kinds, k)[k - 1]
    BY <1>3, <2>1
  <2> QED
    BY <1>3, <1>4, <1>6, <2>1, <2>2
<1> QED
  BY <1>5, <1>6

\* So every bound gives the same reference.
LEMMA WalksAreWalked ==
  ASSUME NEW edges, NEW kinds, NEW m \in Nat, NEW n \in 1 .. m, NEW a, NEW b
  PROVE  <<a, b>> \in Walks(edges, kinds, m)[n] <=> Walked(edges, kinds, a, b, n)
BY WalksAgain DEF Walked

\* A walk ends in a step.
LEMMA WalkedLast ==
  ASSUME NEW edges, NEW kinds, NEW n \in Nat, NEW a, NEW b
  PROVE  Walked(edges, kinds, a, b, n + 1)
         <=> \E mid : Walked(edges, kinds, a, mid, n) /\ Linked(edges, kinds, mid, b)
<1>1. Walks(edges, kinds, n + 1)[n + 1]
      = IF n + 1 = 1 THEN Steps(edges, kinds)
        ELSE Longer(edges, kinds, Walks(edges, kinds, n + 1)[n])
  <2>1. n + 1 \in 1 .. n + 1 /\ n + 1 \in Nat /\ (n + 1) - 1 = n
    OBVIOUS
  <2> QED
    BY <2>1, WalksUnfold DEF WalksTo
<1>2. CASE n = 0
  <2>1. Walked(edges, kinds, a, b, n + 1) <=> Linked(edges, kinds, a, b)
    BY <1>1, <1>2 DEF Walked, Linked
  <2>2. \A mid : Walked(edges, kinds, a, mid, n) <=> a = mid
    BY <1>2 DEF Walked
  <2> QED
    BY <2>1, <2>2
<1>3. CASE n # 0
  <2>1. \A x, y : <<x, y>> \in Walks(edges, kinds, n + 1)[n] <=> Walked(edges, kinds, x, y, n)
    <3>1. n \in 1 .. n + 1 /\ n + 1 \in Nat
      BY <1>3
    <3> QED
      BY <3>1, WalksAreWalked
  <2>2. Walked(edges, kinds, a, b, n + 1)
        <=> <<a, b>> \in Longer(edges, kinds, Walks(edges, kinds, n + 1)[n])
    BY <1>1, <1>3 DEF Walked
  <2>3. \A x, y : <<x, y>> \in Steps(edges, kinds) => x \in Ends(edges) /\ y \in Ends(edges)
    BY DEF Steps, Ends
  <2>4. \A x, y : Walked(edges, kinds, x, y, n) => x \in Ends(edges)
    <3>1. Walks(edges, kinds, n)[n] = IF n = 1 THEN Steps(edges, kinds)
                                      ELSE Longer(edges, kinds, Walks(edges, kinds, n)[n - 1])
      BY <1>3, WalksUnfold DEF WalksTo
    <3>2. \A x, y : <<x, y>> \in Longer(edges, kinds, Walks(edges, kinds, n)[n - 1])
                        => x \in Ends(edges)
      BY DEF Longer
    <3> QED
      BY <1>3, <2>3, <3>1, <3>2 DEF Walked
  <2>5. <<a, b>> \in Longer(edges, kinds, Walks(edges, kinds, n + 1)[n])
        <=> /\ a \in Ends(edges) /\ b \in Ends(edges)
            /\ \E mid \in Ends(edges) :
                /\ <<a, mid>> \in Walks(edges, kinds, n + 1)[n]
                /\ <<mid, b>> \in Steps(edges, kinds)
    BY DEF Longer
  <2> QED
    BY <2>1, <2>2, <2>3, <2>4, <2>5 DEF Linked
<1> QED
  BY <1>2, <1>3

\* And it begins with one.
LEMMA WalkedFirst ==
  ASSUME NEW edges, NEW kinds, NEW n \in Nat, NEW a, NEW b
  PROVE  Walked(edges, kinds, a, b, n + 1)
         <=> \E mid : Linked(edges, kinds, a, mid) /\ Walked(edges, kinds, mid, b, n)
<1> DEFINE by(x, y, k) == \E mid : Linked(edges, kinds, x, mid) /\ Walked(edges, kinds, mid, y, k)
           Bad == {k \in Nat : \E x, y : ~ (Walked(edges, kinds, x, y, k + 1) <=> by(x, y, k))}
<1>1. SUFFICES ASSUME Bad # {} PROVE FALSE
  OBVIOUS
<1>2. PICK k \in Bad : \A j \in Bad : k <= j
  <2> HIDE DEF Bad
  <2>1. Bad \in SUBSET Nat
    BY DEF Bad
  <2> QED
    BY <1>1, <2>1, LeastExists
<1>3. PICK x, y : ~ (Walked(edges, kinds, x, y, k + 1) <=> by(x, y, k))
  BY <1>2
<1>4. \A z : Walked(edges, kinds, x, z, 0) <=> x = z
  BY DEF Walked
<1>5. \A z : Walked(edges, kinds, z, y, 0) <=> z = y
  BY DEF Walked
<1>6. CASE k = 0
  <2>1. Walked(edges, kinds, x, y, k + 1) <=> Linked(edges, kinds, x, y)
    <3>1. Walked(edges, kinds, x, y, k + 1)
          <=> \E mid : Walked(edges, kinds, x, mid, k) /\ Linked(edges, kinds, mid, y)
      BY WalkedLast
    <3> QED
      BY <1>4, <1>6, <3>1
  <2>2. by(x, y, 0) <=> Linked(edges, kinds, x, y)
    BY <1>5
  <2> HIDE DEF by
  <2> QED
    BY <1>3, <1>6, <2>1, <2>2
<1>7. CASE k # 0
  <2>1. PICK j \in Nat : k = j + 1
    <3>1. k - 1 \in Nat /\ k = (k - 1) + 1
      BY <1>7
    <3> QED
      BY <3>1
  <2>2. j \notin Bad
    BY <1>2, <2>1
  <2>3. \A z : Walked(edges, kinds, x, z, k) <=> by(x, z, j)
    BY <2>1, <2>2
  <2>4. Walked(edges, kinds, x, y, k + 1)
        <=> \E z : Walked(edges, kinds, x, z, k) /\ Linked(edges, kinds, z, y)
    BY WalkedLast
  <2>5. \A z : Walked(edges, kinds, z, y, k)
               <=> \E u : Walked(edges, kinds, z, u, j) /\ Linked(edges, kinds, u, y)
    BY <2>1, WalkedLast
  <2> HIDE DEF Bad
  <2> QED
    BY <1>3, <2>3, <2>4, <2>5
<1> QED
  BY <1>6, <1>7

-----------------------------------------------------------------------------
(* The walks of SQL and of the closure are those of the reference.         *)

\* n edges lead from a in this direction to b.
Away(edges, kinds, dir, a, b, n) ==
    IF dir = "inbound" THEN Walked(edges, kinds, b, a, n) ELSE Walked(edges, kinds, a, b, n)

\* What an id is joined with is one step away.
LEMMA NeighboursAreLinked ==
  ASSUME NEW edges, NEW kinds, NEW dir \in {"inbound", "outbound"}, NEW ids, NEW b
  PROVE  b \in Neighbours(edges, kinds, dir, ids)
         <=> \E a \in ids : IF dir = "inbound" THEN Linked(edges, kinds, b, a)
                            ELSE Linked(edges, kinds, a, b)
BY DEF Neighbours, Linked, Steps

\* A walk that is one longer ends in one step more, in either direction.
LEMMA AwayNext ==
  ASSUME NEW edges, NEW kinds, NEW dir \in {"inbound", "outbound"}, NEW n \in Nat,
         NEW a, NEW b
  PROVE  Away(edges, kinds, dir, a, b, n + 1)
         <=> \E mid : /\ Away(edges, kinds, dir, a, mid, n)
                      /\ IF dir = "inbound" THEN Linked(edges, kinds, b, mid)
                         ELSE Linked(edges, kinds, mid, b)
<1>1. CASE dir = "inbound"
  <2>1. Walked(edges, kinds, b, a, n + 1)
        <=> \E mid : Linked(edges, kinds, b, mid) /\ Walked(edges, kinds, mid, a, n)
    BY WalkedFirst
  <2> QED
    BY <1>1, <2>1 DEF Away
<1>2. CASE dir = "outbound"
  <2>1. Walked(edges, kinds, a, b, n + 1)
        <=> \E mid : Walked(edges, kinds, a, mid, n) /\ Linked(edges, kinds, mid, b)
    BY WalkedLast
  <2> QED
    BY <1>2, <2>1 DEF Away
<1> QED
  BY <1>1, <1>2

\* reach has at each depth what is that many steps away.
LEMMA ReachIsAway ==
  ASSUME NEW edges, NEW kinds, NEW dir \in {"inbound", "outbound"}, NEW start,
         NEW m \in Nat, NEW d \in 0 .. m, NEW b
  PROVE  b \in Reach(edges, kinds, dir, start, m)[d]
         <=> Away(edges, kinds, dir, start, b, d)
<1> DEFINE f == Reach(edges, kinds, dir, start, m)
           Bad == {k \in Nat : k \in 0 .. m
                    /\ \E x : ~ (x \in f[k] <=> Away(edges, kinds, dir, start, x, k))}
<1>1. SUFFICES ASSUME Bad # {} PROVE FALSE
  OBVIOUS
<1>2. PICK k \in Bad : \A j \in Bad : k <= j
  <2> HIDE DEF Bad
  <2>1. Bad \in SUBSET Nat
    BY DEF Bad
  <2> QED
    BY <1>1, <2>1, LeastExists
<1>3. PICK x : ~ (x \in f[k] <=> Away(edges, kinds, dir, start, x, k))
  BY <1>2
<1> HIDE DEF f
<1>4. f[k] = IF k = 0 THEN {start} ELSE Neighbours(edges, kinds, dir, f[k - 1])
  <2>1. ReachTo(edges, kinds, dir, start, f, m)
    BY ReachUnfolds DEF f
  <2>2. k \in 0 .. m
    BY <1>2
  <2> HIDE DEF Bad
  <2> QED
    BY <2>1, <2>2 DEF ReachTo
<1>5. CASE k = 0
  <2>1. Away(edges, kinds, dir, start, x, k) <=> start = x
    BY <1>5 DEF Away, Walked
  <2> QED
    BY <1>3, <1>4, <1>5, <2>1
<1>6. CASE k # 0
  <2>1. PICK j \in Nat : k = j + 1
    <3>1. k - 1 \in Nat /\ k = (k - 1) + 1
      BY <1>2, <1>6
    <3> QED
      BY <3>1
  <2>2. j \in 0 .. m /\ j \notin Bad /\ k - 1 = j
    BY <1>2, <2>1
  <2>3. \A y : y \in f[j] <=> Away(edges, kinds, dir, start, y, j)
    BY <2>2
  <2>4. x \in Neighbours(edges, kinds, dir, f[j])
        <=> \E a \in f[j] : IF dir = "inbound" THEN Linked(edges, kinds, x, a)
                            ELSE Linked(edges, kinds, a, x)
    BY NeighboursAreLinked
  <2>5. Away(edges, kinds, dir, start, x, k)
        <=> \E a : /\ Away(edges, kinds, dir, start, a, j)
                   /\ IF dir = "inbound" THEN Linked(edges, kinds, x, a)
                      ELSE Linked(edges, kinds, a, x)
    BY <2>1, AwayNext
  <2> HIDE DEF Bad
  <2> QED
    BY <1>3, <1>4, <1>6, <2>2, <2>3, <2>4, <2>5
<1> QED
  BY <1>5, <1>6

\* The shortest walk from a to b has n edges.
First(edges, kinds, a, b, n) ==
    /\ Walked(edges, kinds, a, b, n)
    /\ \A j \in 0 .. n - 1 : ~ Walked(edges, kinds, a, b, j)

\* A frontier has what is first reached there, and no earlier one.
LEMMA FrontiersAreFirst ==
  ASSUME NEW edges, NEW source, NEW m \in Nat, NEW d \in 0 .. m, NEW t
  PROVE  LET f == Frontiers(edges, source, m) IN
         /\ t \in f[d].new <=> First(edges, CallKinds, source, t, d)
         /\ t \in f[d].seen <=> \E j \in 0 .. d : Walked(edges, CallKinds, source, t, j)
<1> DEFINE f == Frontiers(edges, source, m)
           W(x, n) == Walked(edges, CallKinds, source, x, n)
           isNew(x, k) == x \in f[k].new <=> First(edges, CallKinds, source, x, k)
           isSeen(x, k) == x \in f[k].seen <=> \E j \in 0 .. k : W(x, j)
           Bad == {k \in Nat : k \in 0 .. m /\ \E x : ~ (isNew(x, k) /\ isSeen(x, k))}
<1>1. SUFFICES ASSUME Bad # {} PROVE FALSE
  <2>1. d \in 0 .. m /\ d \in Nat
    OBVIOUS
  <2> QED
    BY <2>1
<1>2. PICK k \in Bad : \A j \in Bad : k <= j
  <2> HIDE DEF Bad
  <2>1. Bad \in SUBSET Nat
    BY DEF Bad
  <2> QED
    BY <1>1, <2>1, LeastExists
<1>3. PICK x : ~ (isNew(x, k) /\ isSeen(x, k))
  BY <1>2
<1> HIDE DEF f
<1> DEFINE next == Neighbours(edges, CallKinds, "outbound", f[k - 1].new) \ f[k - 1].seen
<1>4. f[k] = IF k = 0 THEN [new |-> {source}, seen |-> {source}]
             ELSE [new |-> next, seen |-> f[k - 1].seen \cup next]
  <2>1. FrontiersTo(edges, source, f, m)
    BY FrontiersUnfold DEF f
  <2>2. k \in 0 .. m
    BY <1>2
  <2> HIDE DEF Bad
  <2> QED
    BY <2>1, <2>2 DEF FrontiersTo
<1>5. CASE k = 0
  <2>1. W(x, 0) <=> source = x
    BY DEF Walked
  <2>2. f[k].new = {source} /\ f[k].seen = {source}
    BY <1>4, <1>5
  <2>3. First(edges, CallKinds, source, x, k) <=> W(x, 0)
    BY <1>5 DEF First
  <2>4. (\E j \in 0 .. k : W(x, j)) <=> W(x, 0)
    BY <1>5
  <2> HIDE DEF W
  <2> QED
    BY <1>3, <2>1, <2>2, <2>3, <2>4
<1>6. CASE k # 0
  <2>1. PICK i \in Nat : k = i + 1
    <3>1. k - 1 \in Nat /\ k = (k - 1) + 1
      BY <1>2, <1>6
    <3> QED
      BY <3>1
  <2>2. i \in 0 .. m /\ i \notin Bad /\ k - 1 = i
    BY <1>2, <2>1
  <2>3. \A y : isNew(y, i) /\ isSeen(y, i)
    BY <2>2
  <2>4. f[k].new = next /\ f[k].seen = f[i].seen \cup next
    BY <1>4, <1>6, <2>2
  <2>5. x \in Neighbours(edges, CallKinds, "outbound", f[i].new)
        <=> \E a \in f[i].new : Linked(edges, CallKinds, a, x)
    BY NeighboursAreLinked
  <2>6. \A n \in Nat : W(x, n + 1) <=> \E a : W(a, n) /\ Linked(edges, CallKinds, a, x)
    BY WalkedLast
  <2> HIDE DEF W, Bad, next
  <2>7. x \in f[k].new => First(edges, CallKinds, source, x, k)
    <3> SUFFICES ASSUME x \in f[k].new PROVE First(edges, CallKinds, source, x, k)
      OBVIOUS
    <3>1. PICK a \in f[i].new : Linked(edges, CallKinds, a, x)
      BY <2>2, <2>4, <2>5 DEF next
    <3>2. W(a, i)
      BY <2>3 DEF First, W
    <3>3. W(x, k)
      BY <2>1, <2>6, <3>1, <3>2
    <3>4. x \notin f[i].seen
      BY <2>2, <2>4 DEF next
    <3>5. \A j \in 0 .. i : ~ W(x, j)
      BY <2>3, <3>4
    <3>6. k - 1 = i
      BY <2>1
    <3> QED
      BY <3>3, <3>5, <3>6 DEF First, W
  <2>8. First(edges, CallKinds, source, x, k) => x \in f[k].new
    <3> SUFFICES ASSUME First(edges, CallKinds, source, x, k) PROVE x \in f[k].new
      OBVIOUS
    <3>1. W(x, k) /\ \A j \in 0 .. i : ~ W(x, j)
      BY <2>2 DEF First, W
    <3>2. PICK a : W(a, i) /\ Linked(edges, CallKinds, a, x)
      BY <2>1, <2>6, <3>1
    <3>3. ASSUME NEW j \in 0 .. i - 1, W(a, j) PROVE FALSE
      <4>1. j \in Nat /\ j + 1 \in 0 .. i
        OBVIOUS
      <4> QED
        BY <2>6, <3>1, <3>2, <3>3, <4>1
    <3>4. First(edges, CallKinds, source, a, i)
      BY <3>2, <3>3 DEF First, W
    <3>5. a \in f[i].new
      BY <2>3, <3>4
    <3>6. x \notin f[i].seen
      BY <2>3, <3>1
    <3> QED
      BY <2>2, <2>4, <2>5, <3>2, <3>5, <3>6 DEF next
  <2>9. isSeen(x, k)
    <3>1. \A j : j \in 0 .. k <=> j \in 0 .. i \/ j = k
      BY <2>1
    <3>2. First(edges, CallKinds, source, x, k) <=> W(x, k) /\ ~ \E j \in 0 .. i : W(x, j)
      BY <2>2 DEF First, W
    <3>3. x \in f[i].seen <=> \E j \in 0 .. i : W(x, j)
      BY <2>3
    <3> QED
      BY <2>4, <2>7, <2>8, <3>1, <3>2, <3>3
  <2> QED
    BY <1>3, <2>7, <2>8, <2>9
<1> QED
  BY <1>5, <1>6

\* The closure has the pairs that a walk joins, with the length of the shortest
\* one, up to the depth it was built to.
LEMMA ClosureIsFirst ==
  ASSUME NEW edges, NEW m \in Nat, NEW r
  PROVE  r \in BuildClosure(edges, m)
         <=> \E s, t : \E d \in 1 .. m :
                r = [from |-> s, to |-> t, depth |-> d] /\ First(edges, CallKinds, s, t, d)
<1> DEFINE sources == {e.from : e \in {f \in edges : f.kind \in CallKinds}}
<1>1. r \in BuildClosure(edges, m)
      <=> \E s \in sources : \E d \in 1 .. m : \E t \in Frontiers(edges, s, m)[d].new :
            r = [from |-> s, to |-> t, depth |-> d]
  BY DEF BuildClosure
<1>2. ASSUME NEW s, NEW t, NEW d \in 1 .. m
      PROVE  t \in Frontiers(edges, s, m)[d].new <=> First(edges, CallKinds, s, t, d)
  <2>1. d \in 0 .. m
    OBVIOUS
  <2> QED
    BY <2>1, FrontiersAreFirst
<1>3. ASSUME NEW s, NEW t, NEW d \in 1 .. m, First(edges, CallKinds, s, t, d)
      PROVE  s \in sources
  <2>1. PICK n \in Nat : d = n + 1
    <3>1. d - 1 \in Nat /\ d = (d - 1) + 1
      OBVIOUS
    <3> QED
      BY <3>1
  <2>2. Walked(edges, CallKinds, s, t, n + 1)
    BY <1>3, <2>1 DEF First
  <2>3. PICK mid : Linked(edges, CallKinds, s, mid)
    BY <2>2, WalkedFirst
  <2> QED
    BY <2>3 DEF Linked, Steps
<1> HIDE DEF sources
<1> QED
  BY <1>1, <1>2, <1>3

-----------------------------------------------------------------------------
(* The rows of a trace, whichever way they are computed.                   *)

\* How far apart two symbols are, in a direction and up to m edges.
Apart(edges, kinds, dir, a, b, m) ==
    {n \in 1 .. m : \/ dir # "inbound" /\ Walked(edges, kinds, a, b, n)
                    \/ dir # "outbound" /\ Walked(edges, kinds, b, a, n)}

\* The row of another symbol, with its distance from start.
Near(edges, kinds, dir, start, m, r) ==
    \E id : /\ id # start /\ Apart(edges, kinds, dir, start, id, m) # {}
            /\ r = [id |-> id, depth |-> Min(Apart(edges, kinds, dir, start, id, m))]

\* Rows with every symbol's distance, and perhaps with longer walks to it.
Fit(edges, kinds, dir, start, m, rows) ==
    /\ \A r \in rows : \E id : \E n \in Apart(edges, kinds, dir, start, id, m) :
            id # start /\ r = [id |-> id, depth |-> n]
    /\ \A r : Near(edges, kinds, dir, start, m, r) => r \in rows

\* The reference of the properties, whatever the bound of its walks.
LEMMA BetweenIsApart ==
  ASSUME NEW edges, NEW kinds, NEW dir, NEW a, NEW b, NEW l \in Nat, NEW m \in 0 .. l
  PROVE  Between(Walks(edges, kinds, l), dir, a, b, 1 .. m)
         = Apart(edges, kinds, dir, a, b, m)
<1>1. \A n \in 1 .. m : n \in 1 .. l
  OBVIOUS
<1>2. \A n \in 1 .. m : \A x, y :
        <<x, y>> \in Walks(edges, kinds, l)[n] <=> Walked(edges, kinds, x, y, n)
  BY <1>1, WalksAreWalked
<1> QED
  BY <1>2 DEF Between, Apart

\* The least distance is one of them.
LEMMA ApartLeast ==
  ASSUME NEW edges, NEW kinds, NEW dir, NEW a, NEW b, NEW m \in Nat,
         Apart(edges, kinds, dir, a, b, m) # {}
  PROVE  LET D == Apart(edges, kinds, dir, a, b, m) IN
         /\ D \in SUBSET Nat /\ Min(D) \in D /\ Min(D) \in 1 .. m
         /\ \A n \in D : Min(D) <= n
<1> DEFINE D == Apart(edges, kinds, dir, a, b, m)
<1>1. D \in SUBSET Nat /\ D \subseteq 1 .. m
  BY DEF Apart
<1> HIDE DEF D
<1>2. D # {}
  BY DEF D
<1>3. Min(D) \in D /\ \A n \in D : Min(D) <= n
  BY <1>1, <1>2, MinIsLeast
<1> QED
  BY <1>1, <1>3 DEF D

\* The lengths of the walks in one direction.
Lengths(edges, kinds, dir, a, b, min, max) ==
    {n \in min .. max : Away(edges, kinds, dir, a, b, n)}

\* The rows with some of the names, up to some depth.
Kept(rows, keep, k) == {h \in rows : h.id \in keep /\ h.depth <= k}

\* What Shortest finds of a walk in one direction.
LEMMA ShortestRows ==
  ASSUME NEW edges, NEW kinds, NEW dir \in {"inbound", "outbound"}, NEW start,
         NEW m \in Nat, NEW min \in Nat, NEW r
  PROVE  r \in Shortest(Reach(edges, kinds, dir, start, m), start, min, m)
         <=> \E id : LET D == Lengths(edges, kinds, dir, start, id, min, m) IN
                id # start /\ D # {} /\ r = [id |-> id, depth |-> Min(D)]
<1> DEFINE reach == Reach(edges, kinds, dir, start, m)
           D(id) == Lengths(edges, kinds, dir, start, id, min, m)
           lengths(id) == {d \in min .. m : id \in reach[d]}
<1>1. \A d \in min .. m : \A id : id \in reach[d] <=> Away(edges, kinds, dir, start, id, d)
  <2>1. \A d \in min .. m : d \in 0 .. m
    OBVIOUS
  <2> QED
    BY <2>1, ReachIsAway
<1>2. \A id : lengths(id) = D(id)
  <2> HIDE DEF reach
  <2> QED
    BY <1>1 DEF Lengths
<1>3. r \in Shortest(reach, start, min, m)
      <=> \E id : id # start /\ (\E d \in min .. m : id \in reach[d])
                  /\ r = [id |-> id, depth |-> Min(lengths(id))]
  <2> DEFINE ends == (UNION {reach[d] : d \in min .. m}) \ {start}
  <2> HIDE DEF reach
  <2>1. Shortest(reach, start, min, m)
        = {[id |-> id, depth |-> Min(lengths(id))] : id \in ends}
    BY DEF Shortest
  <2>2. \A id : id \in ends <=> id # start /\ \E d \in min .. m : id \in reach[d]
    OBVIOUS
  <2> HIDE DEF ends, lengths
  <2> QED
    BY <2>1, <2>2
<1>4. \A id : (\E d \in min .. m : id \in reach[d]) <=> D(id) # {}
  <2> HIDE DEF reach
  <2> QED
    BY <1>1 DEF Lengths
<1> HIDE DEF reach, lengths, D
<1>5. r \in Shortest(reach, start, min, m)
      <=> \E id : id # start /\ D(id) # {} /\ r = [id |-> id, depth |-> Min(D(id))]
  BY <1>2, <1>3, <1>4
<1> QED
  BY <1>5 DEF D, reach

\* Distances in one direction.
LEMMA ApartIsAway ==
  ASSUME NEW edges, NEW kinds, NEW dir \in {"inbound", "outbound"}, NEW a, NEW b, NEW m
  PROVE  Apart(edges, kinds, dir, a, b, m)
         = Lengths(edges, kinds, dir, a, b, 1, m)
BY DEF Apart, Away, Lengths

\* Of rows that fit, the nearest ones are the distances, however many of them
\* are left out by name or by depth.
LEMMA NearestIsNear ==
  ASSUME NEW edges, NEW kinds, NEW dir, NEW start, NEW m \in Nat, NEW rows,
         Fit(edges, kinds, dir, start, m, rows), NEW keep, NEW k \in Nat, NEW r
  PROVE  r \in Nearest(Kept(rows, keep, k))
         <=> Near(edges, kinds, dir, start, m, r) /\ r.id \in keep /\ r.depth <= k
<1> DEFINE D(id) == Apart(edges, kinds, dir, start, id, m)
           S == Kept(rows, keep, k)
<1>1. \A id : D(id) # {} => Min(D(id)) \in D(id) /\ \A n \in D(id) : Min(D(id)) <= n
  BY ApartLeast
<1>2. \A id : D(id) \subseteq Nat
  BY DEF Apart
<1>3. \A h \in rows : \E id : \E n \in D(id) : id # start /\ h = [id |-> id, depth |-> n]
  BY DEF Fit
<1>4. \A id : id # start /\ D(id) # {} => [id |-> id, depth |-> Min(D(id))] \in rows
  BY DEF Fit, Near
<1>5. Near(edges, kinds, dir, start, m, r)
      <=> \E id : id # start /\ D(id) # {} /\ r = [id |-> id, depth |-> Min(D(id))]
  BY DEF Near
<1> HIDE DEF D
<1>6. ASSUME r \in Nearest(S)
      PROVE  Near(edges, kinds, dir, start, m, r) /\ r.id \in keep /\ r.depth <= k
  <2>1. r \in rows /\ r.id \in keep /\ r.depth <= k
        /\ \A o \in S : o.id = r.id => r.depth <= o.depth
    BY <1>6 DEF Nearest, Kept
  <2>2. PICK id : \E n \in D(id) : id # start /\ r = [id |-> id, depth |-> n]
    BY <1>3, <2>1
  <2>3. PICK n \in D(id) : id # start /\ r = [id |-> id, depth |-> n]
    BY <2>2
  <2>4. PICK l : l = Min(D(id))
    OBVIOUS
  <2>5. l \in D(id) /\ l <= n /\ l \in Nat /\ n \in Nat
    BY <1>1, <1>2, <2>3, <2>4
  <2>6. [id |-> id, depth |-> l] \in S
    BY <1>4, <2>1, <2>3, <2>4, <2>5 DEF Kept
  <2>7. n <= l
    BY <2>1, <2>3, <2>6
  <2>8. n = l
    BY <2>5, <2>7
  <2> QED
    BY <1>5, <2>1, <2>3, <2>4, <2>8
<1>7. ASSUME Near(edges, kinds, dir, start, m, r), r.id \in keep, r.depth <= k
      PROVE  r \in Nearest(S)
  <2>1. PICK id : id # start /\ D(id) # {} /\ r = [id |-> id, depth |-> Min(D(id))]
    BY <1>5, <1>7
  <2>2. r \in S
    BY <1>4, <1>7, <2>1 DEF Kept
  <2>3. ASSUME NEW o \in S, o.id = r.id PROVE r.depth <= o.depth
    <3>1. PICK x : \E n \in D(x) : x # start /\ o = [id |-> x, depth |-> n]
      BY <1>3 DEF Kept
    <3>2. PICK n \in D(x) : x # start /\ o = [id |-> x, depth |-> n]
      BY <3>1
    <3>3. x = id
      BY <2>1, <2>3, <3>2
    <3> QED
      BY <1>1, <2>1, <3>2, <3>3
  <2> QED
    BY <2>2, <2>3 DEF Nearest
<1> QED
  BY <1>6, <1>7

\* The recursive queries list every symbol with its distance.
LEMMA CteIsNear ==
  ASSUME NEW edges, NEW kinds, NEW start, NEW dir \in {"inbound", "outbound", "both"},
         NEW m \in Nat, NEW r
  PROVE  r \in TraceViaCTE(edges, kinds, start, dir, m)
         <=> Near(edges, kinds, dir, start, m, r)
<1> DEFINE way(d) == Shortest(Reach(edges, kinds, d, start, m), start, 1, m)
           dirs == IF dir = "both" THEN {"inbound", "outbound"} ELSE {dir}
           U == UNION {way(d) : d \in dirs}
           D(d, id) == Apart(edges, kinds, d, start, id, m)
<1>1. ASSUME NEW d \in {"inbound", "outbound"}, NEW h
      PROVE  h \in way(d) <=> \E id : id # start /\ D(d, id) # {}
                                      /\ h = [id |-> id, depth |-> Min(D(d, id))]
  <2>1. \A id : D(d, id) = Lengths(edges, kinds, d, start, id, 1, m)
    BY ApartIsAway
  <2>2. 1 \in Nat
    OBVIOUS
  <2>3. h \in way(d) <=> \E id : LET L == Lengths(edges, kinds, d, start, id, 1, m) IN
                            id # start /\ L # {} /\ h = [id |-> id, depth |-> Min(L)]
    BY <2>2, ShortestRows
  <2> HIDE DEF D, way
  <2> QED
    BY <2>1, <2>3
<1>2. \A id : D("both", id) = D("inbound", id) \cup D("outbound", id)
  BY DEF Apart
<1>3. \A d, id : D(d, id) # {} =>
        D(d, id) \in SUBSET Nat /\ Min(D(d, id)) \in D(d, id)
        /\ \A n \in D(d, id) : Min(D(d, id)) <= n
  BY ApartLeast
<1>4. \A h : Near(edges, kinds, dir, start, m, h)
             <=> \E id : id # start /\ D(dir, id) # {}
                         /\ h = [id |-> id, depth |-> Min(D(dir, id))]
  BY DEF Near
<1>5. \A h \in U : \E id : \E n \in D(dir, id) : id # start /\ h = [id |-> id, depth |-> n]
  <2> TAKE h \in U
  <2>1. PICK d \in dirs : h \in way(d)
    OBVIOUS
  <2>2. d \in {"inbound", "outbound"}
    OBVIOUS
  <2> HIDE DEF way, D
  <2>3. PICK id : id # start /\ D(d, id) # {} /\ h = [id |-> id, depth |-> Min(D(d, id))]
    BY <1>1, <2>1, <2>2
  <2>4. Min(D(d, id)) \in D(d, id)
    BY <1>3, <2>3
  <2>5. Min(D(d, id)) \in D(dir, id)
    BY <1>2, <2>4
  <2> QED
    BY <2>3, <2>5
<1>6. ASSUME NEW h, Near(edges, kinds, dir, start, m, h) PROVE h \in U
  <2> HIDE DEF way, D
  <2>1. PICK id : id # start /\ D(dir, id) # {} /\ h = [id |-> id, depth |-> Min(D(dir, id))]
    BY <1>4, <1>6
  <2>2. Min(D(dir, id)) \in D(dir, id)
    BY <1>3, <2>1
  <2>3. PICK d \in dirs : Min(D(dir, id)) \in D(d, id)
    BY <1>2, <2>2
  <2>4. D(d, id) \subseteq D(dir, id) /\ d \in {"inbound", "outbound"}
    BY <1>2
  <2>5. D(d, id) # {}
    BY <2>3
  <2>6. Min(D(d, id)) = Min(D(dir, id))
    <3>1. D(d, id) \in SUBSET Nat
      BY <1>3, <2>5
    <3>2. \A n \in D(d, id) : Min(D(dir, id)) <= n
      BY <1>3, <2>1, <2>4
    <3> QED
      BY <2>3, <3>1, <3>2, LeastIsMin
  <2>7. h \in way(d)
    BY <1>1, <2>1, <2>4, <2>5, <2>6
  <2> QED
    BY <2>7
<1> HIDE DEF U
<1>7. Fit(edges, kinds, dir, start, m, U)
  BY <1>5, <1>6 DEF Fit
<1>8. TraceViaCTE(edges, kinds, start, dir, m) = Nearest(U)
  BY DEF TraceViaCTE, U
<1> DEFINE keep == {h.id : h \in U}
<1>9. U = Kept(U, keep, m)
  <2>1. \A h \in U : h.depth <= m
    <3> TAKE h \in U
    <3>1. PICK id : \E n \in D(dir, id) : id # start /\ h = [id |-> id, depth |-> n]
      BY <1>5
    <3>2. D(dir, id) \subseteq 1 .. m
      BY DEF Apart
    <3> QED
      BY <3>1, <3>2
  <2> QED
    BY <2>1 DEF Kept
<1>10. r \in Nearest(Kept(U, keep, m))
       <=> Near(edges, kinds, dir, start, m, r) /\ r.id \in keep /\ r.depth <= m
  <2> HIDE DEF keep
  <2> QED
    BY <1>7, NearestIsNear
<1>11. Near(edges, kinds, dir, start, m, r) => r.id \in keep /\ r.depth <= m
  BY <1>6, <1>9 DEF Kept
<1> HIDE DEF keep
<1> QED
  BY <1>8, <1>9, <1>10, <1>11

Lesser(a, b) == IF a < b THEN a ELSE b

\* A row of the closure is about another symbol, found in the asked direction.
LEMMA ClosureRows ==
  ASSUME NEW edges, NEW built \in Nat, NEW start, NEW dir, NEW depth \in Nat, NEW r
  PROVE  r \in TraceViaClosure(BuildClosure(edges, built), start, dir, depth)
         <=> \E id : \E n \in 1 .. Lesser(built, depth) :
                /\ r = [id |-> id, depth |-> n]
                /\ \/ dir # "inbound" /\ First(edges, CallKinds, start, id, n)
                   \/ dir # "outbound" /\ First(edges, CallKinds, id, start, n)
<1> DEFINE c == BuildClosure(edges, built)
<1>1. \A h : h \in c <=> \E s, t : \E d \in 1 .. built :
                h = [from |-> s, to |-> t, depth |-> d] /\ First(edges, CallKinds, s, t, d)
  BY ClosureIsFirst
<1>2. \A n : n \in 1 .. Lesser(built, depth) <=> n \in 1 .. built /\ n <= depth
  BY DEF Lesser
<1> HIDE DEF c
<1>3. r \in TraceViaClosure(c, start, dir, depth)
      <=> \E h \in c :
            /\ h.depth <= depth
            /\ \/ dir # "inbound" /\ h.from = start /\ r = [id |-> h.to, depth |-> h.depth]
               \/ dir # "outbound" /\ h.to = start /\ r = [id |-> h.from, depth |-> h.depth]
  BY DEF TraceViaClosure
<1>4. ASSUME NEW h \in c, h.depth <= depth,
             \/ dir # "inbound" /\ h.from = start /\ r = [id |-> h.to, depth |-> h.depth]
             \/ dir # "outbound" /\ h.to = start /\ r = [id |-> h.from, depth |-> h.depth]
      PROVE  \E id : \E n \in 1 .. Lesser(built, depth) :
                /\ r = [id |-> id, depth |-> n]
                /\ \/ dir # "inbound" /\ First(edges, CallKinds, start, id, n)
                   \/ dir # "outbound" /\ First(edges, CallKinds, id, start, n)
  <2>1. PICK s, t : \E d \in 1 .. built :
            h = [from |-> s, to |-> t, depth |-> d] /\ First(edges, CallKinds, s, t, d)
    BY <1>1
  <2>2. PICK d \in 1 .. built :
            h = [from |-> s, to |-> t, depth |-> d] /\ First(edges, CallKinds, s, t, d)
    BY <2>1
  <2>3. d \in 1 .. Lesser(built, depth)
    BY <1>2, <1>4, <2>2
  <2> QED
    BY <1>4, <2>2, <2>3
<1>5. ASSUME NEW id, NEW n \in 1 .. Lesser(built, depth), r = [id |-> id, depth |-> n],
             \/ dir # "inbound" /\ First(edges, CallKinds, start, id, n)
             \/ dir # "outbound" /\ First(edges, CallKinds, id, start, n)
      PROVE  r \in TraceViaClosure(c, start, dir, depth)
  <2>1. n \in 1 .. built /\ n <= depth
    BY <1>2
  <2>2. CASE dir # "inbound" /\ First(edges, CallKinds, start, id, n)
    <3>1. PICK h : h = [from |-> start, to |-> id, depth |-> n]
      OBVIOUS
    <3>2. h \in c
      BY <1>1, <2>1, <2>2, <3>1
    <3> QED
      BY <1>3, <1>5, <2>1, <2>2, <3>1, <3>2
  <2>3. CASE dir # "outbound" /\ First(edges, CallKinds, id, start, n)
    <3>1. PICK h : h = [from |-> id, to |-> start, depth |-> n]
      OBVIOUS
    <3>2. h \in c
      BY <1>1, <2>1, <2>3, <3>1
    <3> QED
      BY <1>3, <1>5, <2>1, <2>3, <3>1, <3>2
  <2> QED
    BY <1>5, <2>2, <2>3
<1> QED
  BY <1>3, <1>4, <1>5 DEF c

\* The first walk is the least of the distances, and there is a first one.
LEMMA FirstIsLeast ==
  ASSUME NEW edges, NEW kinds, NEW a, NEW b, a # b, NEW m \in Nat,
         NEW n \in 1 .. m
  PROVE  First(edges, kinds, a, b, n)
         <=> /\ Walked(edges, kinds, a, b, n)
             /\ \A j \in 1 .. m : Walked(edges, kinds, a, b, j) => n <= j
<1>1. ~ Walked(edges, kinds, a, b, 0)
  BY DEF Walked
<1> QED
  BY <1>1 DEF First

\* A symbol is not one of its own first walks.
LEMMA FirstOfAnother ==
  ASSUME NEW edges, NEW kinds, NEW a, NEW b, NEW n \in Nat \ {0},
         First(edges, kinds, a, b, n)
  PROVE  a # b
<1>1. 0 \in 0 .. n - 1
  OBVIOUS
<1> QED
  BY <1>1 DEF First, Walked

\* What is read of the closure fits, and where only one direction is asked for
\* it lists nothing twice.
LEMMA ClosureFits ==
  ASSUME NEW edges, NEW built \in Nat, NEW start,
         NEW dir \in {"inbound", "outbound", "both"}, NEW depth \in Nat
  PROVE  LET m == Lesser(built, depth)
             rows == TraceViaClosure(BuildClosure(edges, built), start, dir, depth)
         IN  /\ Fit(edges, CallKinds, dir, start, m, rows)
             /\ dir # "both" => \A r \in rows : Near(edges, CallKinds, dir, start, m, r)
<1> DEFINE m == Lesser(built, depth)
           rows == TraceViaClosure(BuildClosure(edges, built), start, dir, depth)
           D(id) == Apart(edges, CallKinds, dir, start, id, m)
<1>0. m \in Nat
  BY DEF Lesser
<1>1. \A r : r \in rows <=> \E id : \E n \in 1 .. m :
                /\ r = [id |-> id, depth |-> n]
                /\ \/ dir # "inbound" /\ First(edges, CallKinds, start, id, n)
                   \/ dir # "outbound" /\ First(edges, CallKinds, id, start, n)
  BY ClosureRows
<1> HIDE DEF rows, m
<1>2. \A r : Near(edges, CallKinds, dir, start, m, r)
             <=> \E id : id # start /\ D(id) # {} /\ r = [id |-> id, depth |-> Min(D(id))]
  BY DEF Near
<1>3. \A id, n : n \in D(id) <=>
        /\ n \in 1 .. m
        /\ \/ dir # "inbound" /\ Walked(edges, CallKinds, start, id, n)
           \/ dir # "outbound" /\ Walked(edges, CallKinds, id, start, n)
  BY DEF Apart
<1>4. \A id : D(id) # {} => Min(D(id)) \in D(id) /\ \A n \in D(id) : Min(D(id)) <= n
  BY <1>0, ApartLeast
<1>5. \A id : D(id) \in SUBSET Nat
  BY <1>0, <1>3
<1> HIDE DEF D
<1>6. ASSUME NEW r \in rows
      PROVE  \E id : \E n \in D(id) : id # start /\ r = [id |-> id, depth |-> n]
  <2>1. PICK id : \E n \in 1 .. m :
                /\ r = [id |-> id, depth |-> n]
                /\ \/ dir # "inbound" /\ First(edges, CallKinds, start, id, n)
                   \/ dir # "outbound" /\ First(edges, CallKinds, id, start, n)
    BY <1>1
  <2>2. PICK n \in 1 .. m :
                /\ r = [id |-> id, depth |-> n]
                /\ \/ dir # "inbound" /\ First(edges, CallKinds, start, id, n)
                   \/ dir # "outbound" /\ First(edges, CallKinds, id, start, n)
    BY <2>1
  <2>3. id # start
    BY <1>0, <2>2, FirstOfAnother
  <2>4. n \in D(id)
    BY <1>3, <2>2 DEF First
  <2> QED
    BY <2>2, <2>3, <2>4
<1>7. ASSUME NEW r, Near(edges, CallKinds, dir, start, m, r) PROVE r \in rows
  <2>1. PICK id : id # start /\ D(id) # {} /\ r = [id |-> id, depth |-> Min(D(id))]
    BY <1>2, <1>7
  <2>2. PICK n : n = Min(D(id))
    OBVIOUS
  <2>3. n \in 1 .. m /\ n \in D(id) /\ \A j \in D(id) : n <= j
    BY <1>3, <1>4, <2>1, <2>2
  <2>4. CASE dir # "inbound" /\ Walked(edges, CallKinds, start, id, n)
    <3>1. \A j \in 1 .. m : Walked(edges, CallKinds, start, id, j) => n <= j
      BY <1>3, <2>3, <2>4
    <3>2. First(edges, CallKinds, start, id, n)
      BY <1>0, <2>1, <2>3, <2>4, <3>1, FirstIsLeast
    <3> QED
      BY <1>1, <2>1, <2>2, <2>3, <2>4, <3>2
  <2>5. CASE dir # "outbound" /\ Walked(edges, CallKinds, id, start, n)
    <3>1. \A j \in 1 .. m : Walked(edges, CallKinds, id, start, j) => n <= j
      BY <1>3, <2>3, <2>5
    <3>2. First(edges, CallKinds, id, start, n)
      BY <1>0, <2>1, <2>3, <2>5, <3>1, FirstIsLeast
    <3> QED
      BY <1>1, <2>1, <2>2, <2>3, <2>5, <3>2
  <2> QED
    BY <1>3, <2>3, <2>4, <2>5
<1>8. ASSUME dir # "both", NEW r \in rows PROVE Near(edges, CallKinds, dir, start, m, r)
  <2>1. PICK id : \E n \in 1 .. m :
                /\ r = [id |-> id, depth |-> n]
                /\ \/ dir # "inbound" /\ First(edges, CallKinds, start, id, n)
                   \/ dir # "outbound" /\ First(edges, CallKinds, id, start, n)
    BY <1>1
  <2>2. PICK n \in 1 .. m :
                /\ r = [id |-> id, depth |-> n]
                /\ \/ dir # "inbound" /\ First(edges, CallKinds, start, id, n)
                   \/ dir # "outbound" /\ First(edges, CallKinds, id, start, n)
    BY <2>1
  <2>3. id # start
    BY <1>0, <2>2, FirstOfAnother
  <2>4. n \in D(id)
    BY <1>3, <2>2 DEF First
  <2>5. \A j \in D(id) : n <= j
    <3>1. CASE dir = "outbound"
      <4>1. \A j \in 1 .. m : Walked(edges, CallKinds, start, id, j) => n <= j
        BY <1>0, <2>2, <2>3, <3>1, FirstIsLeast
      <4> QED
        BY <1>3, <3>1, <4>1
    <3>2. CASE dir = "inbound"
      <4>1. \A j \in 1 .. m : Walked(edges, CallKinds, id, start, j) => n <= j
        BY <1>0, <2>2, <2>3, <3>2, FirstIsLeast
      <4> QED
        BY <1>3, <3>2, <4>1
    <3> QED
      BY <1>8, <3>1, <3>2
  <2>6. Min(D(id)) = n
    BY <1>5, <2>4, <2>5, LeastIsMin
  <2> QED
    BY <1>2, <2>2, <2>3, <2>4, <2>6
<1>9. Fit(edges, CallKinds, dir, start, m, rows)
  BY <1>6, <1>7 DEF Fit, D
<1> QED
  BY <1>8, <1>9 DEF rows, m

-----------------------------------------------------------------------------
(* The trace tool.                                                         *)

\* How far an answer can see: a closure that was built less deep ends there.
Horizon(graph, kinds, built, depth) ==
    IF TakesClosure(BuiltClosure(graph, built), kinds, built > 0) /\ built < depth
    THEN built ELSE depth

\* Whichever of the two computes a trace, its rows fit, and only both directions
\* of the closure have a symbol twice.
LEMMA TraceByIdFits ==
  ASSUME NEW graph, NEW built \in Nat, NEW kinds, NEW start,
         NEW dir \in {"inbound", "outbound", "both"}, NEW asks \in Int
  PROVE  LET closure == BuiltClosure(graph, built)
             depth == ClampedDepth(asks)
             m == Horizon(graph, kinds, built, depth)
         IN  \E rows :
                /\ TraceByID(graph, closure, built > 0, kinds, start, dir, asks)
                   = {r \in rows : r.id \in graph.rows}
                /\ Fit(graph.edges, kinds, dir, start, m, rows)
                /\ ~ (TakesClosure(closure, kinds, built > 0) /\ dir = "both")
                    => \A r \in rows : Near(graph.edges, kinds, dir, start, m, r)
<1> DEFINE closure == BuiltClosure(graph, built)
           depth == ClampedDepth(asks)
           takes == TakesClosure(closure, kinds, built > 0)
<1>1. depth \in Nat
  BY DEF ClampedDepth
<1>2. CASE takes
  <2>1. kinds = CallKinds /\ closure = BuildClosure(graph.edges, built)
    BY <1>2 DEF TakesClosure, BuiltClosure
  <2>2. Horizon(graph, kinds, built, depth) = Lesser(built, depth)
    <3> HIDE DEF depth
    <3> QED
      BY <1>2 DEF Horizon, Lesser
  <2>3. TraceByID(graph, closure, built > 0, kinds, start, dir, asks)
        = {r \in TraceViaClosure(closure, start, dir, depth) : r.id \in graph.rows}
    BY <1>2 DEF TraceByID
  <2> HIDE DEF depth, closure
  <2> QED
    BY <1>1, <1>2, <2>1, <2>2, <2>3, ClosureFits DEF depth, closure
<1>3. CASE ~ takes
  <2>1. Horizon(graph, kinds, built, depth) = depth
    <3> HIDE DEF depth
    <3> QED
      BY <1>3 DEF Horizon
  <2>2. TraceByID(graph, closure, built > 0, kinds, start, dir, asks)
        = {r \in TraceViaCTE(graph.edges, kinds, start, dir, depth) : r.id \in graph.rows}
    BY <1>3 DEF TraceByID
  <2>3. \A r : r \in TraceViaCTE(graph.edges, kinds, start, dir, depth)
               <=> Near(graph.edges, kinds, dir, start, depth, r)
    <3> HIDE DEF depth
    <3> QED
      BY <1>1, CteIsNear
  <2>4. ASSUME NEW r, Near(graph.edges, kinds, dir, start, depth, r)
        PROVE  \E id : \E n \in Apart(graph.edges, kinds, dir, start, id, depth) :
                    id # start /\ r = [id |-> id, depth |-> n]
    <3> HIDE DEF depth
    <3>1. PICK id : /\ id # start /\ Apart(graph.edges, kinds, dir, start, id, depth) # {}
                    /\ r = [id |-> id, depth |->
                                Min(Apart(graph.edges, kinds, dir, start, id, depth))]
      BY <2>4 DEF Near
    <3>2. Min(Apart(graph.edges, kinds, dir, start, id, depth))
          \in Apart(graph.edges, kinds, dir, start, id, depth)
      BY <1>1, <3>1, ApartLeast
    <3> QED
      BY <3>1, <3>2
  <2>5. Fit(graph.edges, kinds, dir, start, depth,
            TraceViaCTE(graph.edges, kinds, start, dir, depth))
    <3> HIDE DEF depth
    <3> QED
      BY <2>3, <2>4 DEF Fit
  <2> HIDE DEF depth, closure
  <2> QED
    BY <2>1, <2>2, <2>3, <2>5 DEF depth, closure
<1> QED
  BY <1>2, <1>3

\* A trace answers as the reference does.
LEMMA TraceIsRight ==
  ASSUME NEW q, q.built \in Nat, q.asked \in Int,
         q.direction \in {"inbound", "outbound", "both"}
  PROVE  TraceAgrees(q, Trace(q.graph, BuiltClosure(q.graph, q.built), q.built > 0,
                              q.kinds, q.start, q.direction, q.asked, Tests(q.graph),
                              Enough))
<1> DEFINE closure == BuiltClosure(q.graph, q.built)
           dir == q.direction
           deep == ClampedDepth(q.asked)
           m == Horizon(q.graph, q.kinds, q.built, deep)
           asks == IF q.asked = 0 THEN 3 ELSE q.asked
           twice == TakesClosure(closure, q.kinds, q.built > 0) /\ dir = "both"
           keep == q.graph.rows \ Tests(q.graph)
           near(r) == Near(q.graph.edges, q.kinds, dir, q.start, m, r)
           D(id) == Apart(q.graph.edges, q.kinds, dir, q.start, id, m)
           hops == {h \in TraceByID(q.graph, closure, q.built > 0, q.kinds, q.start,
                                    dir, asks) : h.id \notin Tests(q.graph)}
           reply == IF q.asked = 0 THEN Deepened(hops, asks, Enough) ELSE hops
           walks == Walks(q.graph.edges, q.kinds, deep)
           distances(id) == Between(walks, dir, q.start, id, 1 .. m)
           expected == {id \in q.graph.rows \ (Tests(q.graph) \cup {q.start}) :
                            distances(id) # {}}
           nearest == {[id |-> id, depth |-> Min(distances(id))] : id \in expected}
           shown == IF twice THEN Nearest(reply) ELSE reply
<1>1. asks \in Int /\ ClampedDepth(asks) = deep /\ deep \in 1 .. 5 /\ (q.asked = 0 => asks = 3)
  BY DEF ClampedDepth
<1>2. m \in 0 .. deep /\ m \in Nat /\ deep \in Nat
  BY <1>1 DEF Horizon
<1>3. PICK rows :
        /\ TraceByID(q.graph, closure, q.built > 0, q.kinds, q.start, dir, asks)
           = {r \in rows : r.id \in q.graph.rows}
        /\ Fit(q.graph.edges, q.kinds, dir, q.start, m, rows)
        /\ ~ twice => \A r \in rows : near(r)
  <2> HIDE DEF asks
  <2>1. m = Horizon(q.graph, q.kinds, q.built, ClampedDepth(asks))
    BY <1>1
  <2>2. \E rows :
        /\ TraceByID(q.graph, closure, q.built > 0, q.kinds, q.start, dir, asks)
           = {r \in rows : r.id \in q.graph.rows}
        /\ Fit(q.graph.edges, q.kinds, dir, q.start,
               Horizon(q.graph, q.kinds, q.built, ClampedDepth(asks)), rows)
        /\ ~ twice => \A r \in rows :
            Near(q.graph.edges, q.kinds, dir, q.start,
                 Horizon(q.graph, q.kinds, q.built, ClampedDepth(asks)), r)
    BY <1>1, TraceByIdFits
  <2> HIDE DEF m, twice
  <2> QED
    BY <2>1, <2>2
<1>4. \A r : r \in nearest <=> near(r) /\ r.id \in keep
  <2> HIDE DEF m, deep
  <2>1. \A id : distances(id) = D(id)
    BY <1>2, BetweenIsApart
  <2>2. \A r : near(r) <=> \E id : /\ id # q.start /\ D(id) # {}
                                   /\ r = [id |-> id, depth |-> Min(D(id))]
    BY DEF Near
  <2>3. \A r : r \in nearest
               <=> \E id \in keep : /\ id # q.start /\ distances(id) # {}
                                    /\ r = [id |-> id, depth |-> Min(distances(id))]
    <3> HIDE DEF distances
    <3> QED
      OBVIOUS
  <2> HIDE DEF distances, D, near, nearest, keep
  <2> QED
    BY <2>1, <2>2, <2>3
<1>5. hops = {h \in rows : h.id \in keep}
  BY <1>3
<1>6. \A r \in rows : r.depth \in 1 .. m
  <2> HIDE DEF m, deep
  <2> QED
    BY <1>3 DEF Fit, Apart
<1> HIDE DEF m, deep, hops, keep, near, nearest, asks
<1>7. \A k \in Nat : \A r : r \in Nearest(Kept(rows, keep, k))
                            <=> near(r) /\ r.id \in keep /\ r.depth <= k
  BY <1>2, <1>3, NearestIsNear DEF near
<1>8. \A r : near(r) => r \in rows
  BY <1>3 DEF Fit, near
\* What is shown of the answer: everything, or what is near enough.
<1>9. \E k \in Nat : /\ reply = Kept(rows, keep, k)
                     /\ \/ k = m
                        \/ q.asked = 0 /\ Cardinality(reply) >= Enough
  <2>1. hops = Kept(rows, keep, m)
    BY <1>5, <1>6 DEF Kept
  <2> DEFINE upTo(d) == {h \in hops : h.depth <= d}
             full == {d \in 1 .. asks : Cardinality(upTo(d)) >= Enough}
  <2>2. CASE q.asked # 0 \/ full = {}
    <3>1. reply = hops
      BY <2>2 DEF Deepened
    <3> QED
      BY <1>2, <2>1, <3>1
  <2>3. CASE q.asked = 0 /\ full # {}
    <3>1. reply = upTo(Min(full))
      BY <2>3 DEF Deepened
    <3>2. PICK k : k = Min(full)
      OBVIOUS
    <3>3. k \in full
      <4>1. full \in SUBSET Nat
        OBVIOUS
      <4> HIDE DEF full
      <4> QED
        BY <2>3, <3>2, <4>1, MinIsLeast
    <3>4. k \in Nat /\ Cardinality(reply) >= Enough
      BY <3>1, <3>2, <3>3
    <3>5. reply = Kept(rows, keep, k)
      BY <1>5, <3>1, <3>2 DEF Kept
    <3> QED
      BY <2>3, <3>4, <3>5
  <2> QED
    BY <2>2, <2>3
<1> HIDE DEF reply
<1>10. PICK k \in Nat : /\ reply = Kept(rows, keep, k)
                        /\ \/ k = m
                           \/ q.asked = 0 /\ Cardinality(reply) >= Enough
  BY <1>9
<1>11. \A r : r \in shown <=> near(r) /\ r.id \in keep /\ r.depth <= k
  <2>1. CASE twice
    BY <1>7, <1>10, <2>1
  <2>2. CASE ~ twice
    <3>1. \A r : r \in reply <=> r \in rows /\ r.id \in keep /\ r.depth <= k
      BY <1>10 DEF Kept
    <3> QED
      BY <1>3, <1>8, <2>2, <3>1
  <2> QED
    BY <2>1, <2>2
<1> HIDE DEF shown
<1>12. shown \subseteq nearest
  BY <1>4, <1>11
<1>13. ASSUME NEW h \in nearest \ shown
       PROVE  /\ q.asked = 0 /\ Cardinality(reply) >= Enough
              /\ \A s \in shown : s.depth < h.depth
  <2>1. near(h) /\ ~ (h.depth <= k) /\ h \in rows
    BY <1>4, <1>8, <1>11
  <2>2. h.depth \in Nat /\ k < h.depth /\ h.depth <= m
    BY <1>2, <1>6, <2>1
  <2>3. k # m
    BY <1>2, <2>2
  <2>4. ASSUME NEW s \in shown PROVE s.depth < h.depth
    <3>1. s \in rows /\ s.depth <= k
      BY <1>8, <1>11
    <3>2. s.depth \in Nat
      BY <1>2, <1>6, <3>1
    <3> QED
      BY <2>2, <3>1, <3>2
  <2> QED
    BY <1>10, <2>3, <2>4
<1>14. Trace(q.graph, closure, q.built > 0, q.kinds, q.start, dir, q.asked, Tests(q.graph),
             Enough) = reply
  BY DEF Trace, reply, hops, asks
<1> QED
  BY <1>12, <1>13, <1>14 DEF TraceAgrees, nearest, shown, m, deep, Horizon

-----------------------------------------------------------------------------
(* Patterns of several steps.                                              *)

Between2(edges, a, b, min, max) ==
    {n \in min .. max : Walked(edges, CallKinds, a, b, n)}

\* A pattern's rows are the pairs that a walk of an asked length joins, from
\* whichever end it is computed.
LEMMA MatchIsRight ==
  ASSUME NEW q, q.pattern.min \in Int, q.pattern.max \in Int
  PROVE  MatchAgrees(q, Bfs(q.graph, Bounded(q.pattern), CallKinds,
                            ShouldInvert(q.pattern, Nobody), Nobody))
<1> DEFINE p == Bounded(q.pattern)
           g == q.graph
           inverted == ShouldInvert(p, Nobody)
           walks == Walks(g.edges, CallKinds, p.max)
           between(a, b) == {n \in p.min .. p.max : <<a, b>> \in walks[n]}
           W(a, b) == Between2(g.edges, a, b, p.min, p.max)
           isOrNot(s, is) == is # Nobody => s = is
           wanted(a, b) ==
              /\ isOrNot(a, p.fromIs) /\ isOrNot(b, p.toIs)
              /\ isOrNot(g.label[a], IF inverted THEN Nobody ELSE p.fromLabel)
              /\ isOrNot(g.label[b], IF inverted THEN p.toLabel ELSE Nobody)
           pairs == {r \in g.rows \X g.rows :
                        /\ r[1] # r[2] /\ between(r[1], r[2]) # {}
                        /\ isOrNot(r[1], p.fromIs) /\ isOrNot(r[2], p.toIs)
                        /\ isOrNot(g.label[r[1]], IF inverted THEN Nobody ELSE p.fromLabel)
                        /\ isOrNot(g.label[r[2]], IF inverted THEN p.toLabel ELSE Nobody)}
           expected == {[a |-> r[1], b |-> r[2], hop |-> Min(between(r[1], r[2]))]
                        : r \in pairs}
           rows == Bfs(g, p, CallKinds, inverted, Nobody)
           \* What both of them are.
           fits(x) == \E a, b \in g.rows :
                        /\ a # b /\ W(a, b) # {} /\ wanted(a, b)
                        /\ x = [a |-> a, b |-> b, hop |-> Min(W(a, b))]
<1>1. /\ p.min \in Nat \ {0} /\ p.max \in Nat
      /\ p.fromIs = q.pattern.fromIs /\ p.toIs = q.pattern.toIs
  BY DEF Bounded
<1>2. inverted = ShouldInvert(q.pattern, Nobody)
  <2> HIDE DEF p
  <2> QED
    BY <1>1 DEF ShouldInvert
<1> HIDE DEF p
<1>3. \A a, b : between(a, b) = W(a, b)
  <2>1. \A n \in p.min .. p.max : n \in 1 .. p.max
    BY <1>1
  <2>2. \A n \in p.min .. p.max : \A a, b :
            <<a, b>> \in walks[n] <=> Walked(g.edges, CallKinds, a, b, n)
    BY <1>1, <2>1, WalksAreWalked
  <2> HIDE DEF walks
  <2> QED
    BY <2>2 DEF Between2
<1> HIDE DEF walks, W, inverted
<1>4. \A x : x \in expected <=> fits(x)
  <2>1. \A a, b : <<a, b>> \in pairs <=>
            a \in g.rows /\ b \in g.rows /\ a # b /\ between(a, b) # {} /\ wanted(a, b)
    <3> HIDE DEF between
    <3> QED
      OBVIOUS
  <2>2. \A r \in pairs : r = <<r[1], r[2]>>
    OBVIOUS
  <2> HIDE DEF pairs, between, wanted
  <2>3. \A x : x \in expected <=> \E r \in pairs :
            x = [a |-> r[1], b |-> r[2], hop |-> Min(between(r[1], r[2]))]
    OBVIOUS
  <2>4. \A x : x \in expected <=> \E a, b : <<a, b>> \in pairs
            /\ x = [a |-> a, b |-> b, hop |-> Min(between(a, b))]
    <3>1. ASSUME NEW x \in expected
          PROVE  \E a, b : <<a, b>> \in pairs
                    /\ x = [a |-> a, b |-> b, hop |-> Min(between(a, b))]
      BY <2>2, <2>3
    <3>2. ASSUME NEW x, NEW a, NEW b, <<a, b>> \in pairs,
                 x = [a |-> a, b |-> b, hop |-> Min(between(a, b))]
          PROVE  x \in expected
      <4>1. PICK r \in pairs : r = <<a, b>>
        BY <3>2
      <4>2. r[1] = a /\ r[2] = b
        BY <4>1
      <4> QED
        BY <2>3, <3>2, <4>2
    <3> HIDE DEF expected
    <3> QED
      BY <3>1, <3>2
  <2> HIDE DEF expected
  <2>5. ASSUME NEW x, x \in expected PROVE fits(x)
    <3>1. PICK a, b : <<a, b>> \in pairs
                      /\ x = [a |-> a, b |-> b, hop |-> Min(between(a, b))]
      BY <2>4, <2>5
    <3> QED
      BY <1>3, <2>1, <3>1
  <2>6. ASSUME NEW x, fits(x) PROVE x \in expected
    <3>1. PICK a \in g.rows, b \in g.rows :
            /\ a # b /\ W(a, b) # {} /\ wanted(a, b)
            /\ x = [a |-> a, b |-> b, hop |-> Min(W(a, b))]
      BY <2>6
    <3>2. between(a, b) = W(a, b)
      BY <1>3
    <3> QED
      BY <2>1, <2>4, <3>1, <3>2
  <2> HIDE DEF fits
  <2> QED
    BY <2>5, <2>6
<1> DEFINE way == IF inverted THEN "inbound" ELSE "outbound"
           first == IF inverted THEN [label |-> p.toLabel, is |-> p.toIs]
                    ELSE [label |-> p.fromLabel, is |-> p.fromIs]
           starts == {s \in g.rows : /\ first.label # Nobody => g.label[s] = first.label
                                     /\ first.is # Nobody => s = first.is}
           hops(s) == Shortest(Reach(g.edges, CallKinds, way, s, p.max), s, p.min, p.max)
           row(s, h) == IF inverted THEN [a |-> h.id, b |-> s, hop |-> h.depth]
                        ELSE [a |-> s, b |-> h.id, hop |-> h.depth]
<1>5. \A x : x \in rows <=> \E s \in starts : \E h \in hops(s) :
                /\ h.id \in g.rows /\ x = row(s, h)
                /\ isOrNot(x.a, p.fromIs) /\ isOrNot(x.b, p.toIs)
  <2>1. rows = {r \in UNION {{row(s, h) : h \in {k \in hops(s) : k.id \in g.rows}}
                             : s \in starts} :
                    /\ p.fromIs # Nobody => r.a = p.fromIs
                    /\ p.toIs # Nobody => r.b = p.toIs}
    BY DEF Bfs
  <2> HIDE DEF rows, row, hops, starts
  <2> QED
    BY <2>1
<1>6. \A s, h : h \in hops(s)
        <=> \E id : LET L == Lengths(g.edges, CallKinds, way, s, id, p.min, p.max) IN
                id # s /\ L # {} /\ h = [id |-> id, depth |-> Min(L)]
  <2>1. way \in {"inbound", "outbound"}
    OBVIOUS
  <2>2. p.max \in Nat /\ p.min \in Nat
    BY <1>1
  <2> HIDE DEF way
  <2> TAKE s, h
  <2>3. h \in Shortest(Reach(g.edges, CallKinds, way, s, p.max), s, p.min, p.max)
        <=> \E id : LET L == Lengths(g.edges, CallKinds, way, s, id, p.min, p.max) IN
                id # s /\ L # {} /\ h = [id |-> id, depth |-> Min(L)]
    <3>1. PICK lo \in Nat, hi \in Nat : lo = p.min /\ hi = p.max
      BY <2>2
    <3>e. PICK es : es = g.edges
      OBVIOUS
    <3>2. h \in Shortest(Reach(es, CallKinds, way, s, hi), s, lo, hi)
          <=> \E id : LET L == Lengths(es, CallKinds, way, s, id, lo, hi) IN
                id # s /\ L # {} /\ h = [id |-> id, depth |-> Min(L)]
      BY <2>1, ShortestRows
    <3> QED
      BY <3>1, <3>e, <3>2
  <2> QED
    BY <2>3
<1>7. \A s, id : Lengths(g.edges, CallKinds, way, s, id, p.min, p.max)
                 = IF inverted THEN W(id, s) ELSE W(s, id)
  BY DEF Lengths, Away, Between2, W
<1> HIDE DEF hops, rows, expected
<1>8. \A s, h : h \in hops(s)
        <=> \E id : LET L == IF inverted THEN W(id, s) ELSE W(s, id) IN
                id # s /\ L # {} /\ h = [id |-> id, depth |-> Min(L)]
  BY <1>6, <1>7
<1>9. ASSUME NEW x, x \in rows PROVE fits(x)
  <2>1. PICK s \in starts : \E h \in hops(s) :
            /\ h.id \in g.rows /\ x = row(s, h)
            /\ isOrNot(x.a, p.fromIs) /\ isOrNot(x.b, p.toIs)
    BY <1>5, <1>9
  <2>2. PICK h \in hops(s) :
            /\ h.id \in g.rows /\ x = row(s, h)
            /\ isOrNot(x.a, p.fromIs) /\ isOrNot(x.b, p.toIs)
    BY <2>1
  <2>3. PICK id : LET L == IF inverted THEN W(id, s) ELSE W(s, id) IN
                id # s /\ L # {} /\ h = [id |-> id, depth |-> Min(L)]
    BY <1>8
  <2>4. s \in g.rows /\ id \in g.rows
    BY <2>2, <2>3
  <2>5. CASE inverted
    <3>1. x = [a |-> id, b |-> s, hop |-> Min(W(id, s))] /\ W(id, s) # {} /\ id # s
      BY <2>2, <2>3, <2>5
    <3>2. wanted(id, s)
      BY <2>1, <2>2, <2>5, <3>1
    <3> QED
      BY <2>4, <3>1, <3>2
  <2>6. CASE ~ inverted
    <3>1. x = [a |-> s, b |-> id, hop |-> Min(W(s, id))] /\ W(s, id) # {} /\ id # s
      BY <2>2, <2>3, <2>6
    <3>2. wanted(s, id)
      BY <2>1, <2>2, <2>6, <3>1
    <3> QED
      BY <2>4, <3>1, <3>2
  <2> QED
    BY <2>5, <2>6
<1>10. ASSUME NEW x, fits(x) PROVE x \in rows
  <2>1. PICK a \in g.rows, b \in g.rows :
            /\ a # b /\ W(a, b) # {} /\ wanted(a, b)
            /\ x = [a |-> a, b |-> b, hop |-> Min(W(a, b))]
    BY <1>10
  <2>2. CASE inverted
    <3>1. PICK h : h = [id |-> a, depth |-> Min(W(a, b))]
      OBVIOUS
    <3>2. h \in hops(b)
      BY <1>8, <2>1, <2>2, <3>1
    <3>3. b \in starts
      BY <2>1, <2>2
    <3>4. h.id \in g.rows /\ x = row(b, h) /\ isOrNot(x.a, p.fromIs) /\ isOrNot(x.b, p.toIs)
      BY <2>1, <2>2, <3>1
    <3> QED
      BY <1>5, <3>2, <3>3, <3>4
  <2>3. CASE ~ inverted
    <3>1. PICK h : h = [id |-> b, depth |-> Min(W(a, b))]
      OBVIOUS
    <3>2. h \in hops(a)
      BY <1>8, <2>1, <2>3, <3>1
    <3>3. a \in starts
      BY <2>1, <2>3
    <3>4. h.id \in g.rows /\ x = row(a, h) /\ isOrNot(x.a, p.fromIs) /\ isOrNot(x.b, p.toIs)
      BY <2>1, <2>3, <3>1
    <3> QED
      BY <1>5, <3>2, <3>3, <3>4
  <2> QED
    BY <2>2, <2>3
<1>11. rows = expected
  <2> HIDE DEF fits
  <2> QED
    BY <1>4, <1>9, <1>10
<1>12. Bfs(q.graph, Bounded(q.pattern), CallKinds, ShouldInvert(q.pattern, Nobody), Nobody)
       = rows
  BY <1>2 DEF rows, p, inverted
<1> QED
  BY <1>11, <1>12 DEF MatchAgrees, expected, p, inverted, walks

-----------------------------------------------------------------------------
(* Who reaches the changed symbols.                                        *)

\* What changes tells of the changed symbols is what the reference says.
LEMMA ImpactIsRight ==
  ASSUME NEW q, q.built \in Nat, q.depth \in 1 .. 5, DOMAIN q.changed \subseteq Nat,
         q.graph.rows \subseteq DOMAIN q.graph.label
  PROVE  LET c == BuiltClosure(q.graph, q.built) IN
         ImpactIsComplete(q,
            [impacted |-> Impacted(q.graph, c, q.built > 0, q.changed, q.depth),
             tests |-> TestsToRun(q.graph, c, q.built > 0, q.changed, q.depth)])
<1> DEFINE g == q.graph
           c == BuiltClosure(g, q.built)
           deep == IF q.built > 0 /\ c # {} /\ q.built < q.depth THEN q.built ELSE q.depth
           walks == Walks(g.edges, CallKinds, deep)
           lengths(id, i) == Between(walks, "outbound", id, q.changed[i], 1 .. deep)
           touched(id) == {i \in DOMAIN q.changed :
                                id # q.changed[i] /\ lengths(id, i) # {}}
           hit == {id \in g.rows : touched(id) # {}}
           H(i) == InboundHops(g, c, q.built > 0, q.changed[i], q.depth)
           impacted == Impacted(g, c, q.built > 0, q.changed, q.depth)
           tests == TestsToRun(g, c, q.built > 0, q.changed, q.depth)
<1>1. q.depth \in Nat /\ q.depth \in Int /\ ClampedDepth(q.depth) = q.depth
  BY DEF ClampedDepth
<1>2. Horizon(g, CallKinds, q.built, q.depth) = deep
  BY DEF Horizon, TakesClosure
<1>3. deep \in Nat
  BY <1>1
<1> HIDE DEF deep, c
<1>4. \A id, i : lengths(id, i) = Apart(g.edges, CallKinds, "inbound", q.changed[i], id, deep)
  <2> TAKE id, i
  <2>1. deep \in 0 .. deep
    BY <1>3
  <2>2. lengths(id, i) = Apart(g.edges, CallKinds, "outbound", id, q.changed[i], deep)
    BY <1>3, <2>1, BetweenIsApart
  <2>3. Apart(g.edges, CallKinds, "outbound", id, q.changed[i], deep)
        = Apart(g.edges, CallKinds, "inbound", q.changed[i], id, deep)
    BY DEF Apart
  <2> QED
    BY <2>2, <2>3
<1> HIDE DEF lengths
<1>5. ASSUME NEW i, NEW r
      PROVE  r \in H(i) <=> \E id \in g.rows : /\ id # q.changed[i] /\ lengths(id, i) # {}
                                /\ r = [id |-> id, depth |-> Min(lengths(id, i))]
  <2>1. PICK rows :
            /\ TraceByID(g, c, q.built > 0, CallKinds, q.changed[i], "inbound", q.depth)
               = {x \in rows : x.id \in g.rows}
            /\ Fit(g.edges, CallKinds, "inbound", q.changed[i], deep, rows)
            /\ \A x \in rows : Near(g.edges, CallKinds, "inbound", q.changed[i], deep, x)
    <3>1. "inbound" \in {"inbound", "outbound", "both"} /\ "inbound" # "both"
      OBVIOUS
    <3>2. \E rows :
            /\ TraceByID(g, c, q.built > 0, CallKinds, q.changed[i], "inbound", q.depth)
               = {x \in rows : x.id \in g.rows}
            /\ Fit(g.edges, CallKinds, "inbound", q.changed[i],
                   Horizon(g, CallKinds, q.built, ClampedDepth(q.depth)), rows)
            /\ ~ (TakesClosure(c, CallKinds, q.built > 0) /\ "inbound" = "both")
                => \A x \in rows : Near(g.edges, CallKinds, "inbound", q.changed[i],
                                        Horizon(g, CallKinds, q.built, ClampedDepth(q.depth)),
                                        x)
      BY <1>1, <3>1, TraceByIdFits DEF c
    <3> QED
      BY <1>1, <1>2, <3>1, <3>2
  <2>2. \A x : x \in rows <=> Near(g.edges, CallKinds, "inbound", q.changed[i], deep, x)
    BY <2>1 DEF Fit
  <2>3. \A x : Near(g.edges, CallKinds, "inbound", q.changed[i], deep, x)
            <=> \E id : /\ id # q.changed[i] /\ lengths(id, i) # {}
                        /\ x = [id |-> id, depth |-> Min(lengths(id, i))]
    BY <1>4 DEF Near
  <2>4. r \in H(i) <=> r \in rows /\ r.id \in g.rows
    BY <2>1 DEF InboundHops
  <2> HIDE DEF H
  <2> QED
    BY <2>2, <2>3, <2>4
<1> HIDE DEF H
<1>6. \A id, i : id \in Ids(H(i))
                 <=> id \in g.rows /\ id # q.changed[i] /\ lengths(id, i) # {}
  <2> TAKE id, i
  <2>1. ASSUME id \in Ids(H(i))
        PROVE  id \in g.rows /\ id # q.changed[i] /\ lengths(id, i) # {}
    <3>1. PICK h \in H(i) : h.id = id
      BY <2>1 DEF Ids
    <3> QED
      BY <1>5, <3>1
  <2>2. ASSUME id \in g.rows, id # q.changed[i], lengths(id, i) # {}
        PROVE  id \in Ids(H(i))
    <3>1. PICK h : h = [id |-> id, depth |-> Min(lengths(id, i))]
      OBVIOUS
    <3>2. h \in H(i) /\ h.id = id
      BY <1>5, <2>2, <3>1
    <3> QED
      BY <3>2 DEF Ids
  <2> QED
    BY <2>1, <2>2
<1>7. ASSUME NEW id \in g.rows
      PROVE  {i \in DOMAIN q.changed : id \in Ids(H(i))} = touched(id)
  BY <1>6
<1>8. \A id : touched(id) # {} => Min(touched(id)) \in touched(id)
  <2> TAKE id
  <2>1. touched(id) \in SUBSET Nat
    OBVIOUS
  <2> HIDE DEF touched
  <2> QED
    BY <2>1, MinIsLeast
<1>9. \A h : h \in impacted
            <=> \E id \in hit : h = [id |-> id, depth |-> Min(lengths(id, Min(touched(id))))]
  <2> DEFINE at(id) == {i \in DOMAIN q.changed : id \in Ids(H(i))}
  <2>1. \A h : h \in impacted <=> /\ \E i \in DOMAIN q.changed : h \in H(i)
                                  /\ h \in H(Min(at(h.id)))
    BY DEF Impacted, H
  <2>2. ASSUME NEW h \in impacted
        PROVE  \E id \in hit : h = [id |-> id, depth |-> Min(lengths(id, Min(touched(id))))]
    <3> HIDE DEF impacted, touched, at
    <3>1. PICK i \in DOMAIN q.changed : h \in H(i)
      BY <2>1
    <3>2. PICK id \in g.rows : /\ id # q.changed[i] /\ lengths(id, i) # {}
                               /\ h = [id |-> id, depth |-> Min(lengths(id, i))]
      BY <1>5, <3>1
    <3>3. i \in touched(id) /\ h.id = id
      BY <3>2 DEF touched
    <3>4. at(id) = touched(id)
      BY <1>7 DEF at
    <3>5. h \in H(Min(touched(id)))
      BY <2>1, <3>3, <3>4
    <3>6. PICK x \in g.rows :
            h = [id |-> x, depth |-> Min(lengths(x, Min(touched(id))))]
      BY <1>5, <3>5
    <3>7. x = id
      BY <3>3, <3>6
    <3> QED
      BY <3>3, <3>6, <3>7
  <2>3. ASSUME NEW id \in hit, NEW h,
               h = [id |-> id, depth |-> Min(lengths(id, Min(touched(id))))]
        PROVE  h \in impacted
    <3>1. id \in g.rows /\ touched(id) # {} /\ h.id = id
      BY <2>3
    <3>2. at(id) = touched(id)
      BY <1>7, <3>1
    <3> DEFINE i == Min(touched(id))
    <3>3. i \in touched(id)
      BY <1>8, <3>1
    <3> HIDE DEF i
    <3>4. i \in DOMAIN q.changed /\ id # q.changed[i] /\ lengths(id, i) # {}
      BY <3>3
    <3>5. h \in H(i)
      BY <1>5, <2>3, <3>1, <3>4 DEF i
    <3> HIDE DEF impacted, at, touched
    <3> QED
      BY <2>1, <3>1, <3>2, <3>4, <3>5 DEF i
  <2> HIDE DEF impacted, hit, touched
  <2> QED
    BY <2>2, <2>3
<1>10. tests = {[id |-> t, overlap |-> Cardinality(touched(t))] : t \in hit \cap Tests(g)}
  <2> DEFINE at(id) == {i \in DOMAIN q.changed : id \in Ids(H(i))}
             testRows == {u \in g.rows : g.label[u] = "test" /\ at(u) # {}}
  <2>1. tests = {[id |-> t, overlap |-> Cardinality(at(t))] : t \in testRows}
    BY DEF TestsToRun, H
  <2>2. testRows = hit \cap Tests(g)
    BY <1>7 DEF Tests
  <2>3. \A t \in hit : at(t) = touched(t)
    BY <1>7
  <2> HIDE DEF tests, at, touched, hit, testRows
  <2>4. \A t \in testRows : [id |-> t, overlap |-> Cardinality(at(t))]
                            = [id |-> t, overlap |-> Cardinality(touched(t))]
    BY <2>2, <2>3
  <2> QED
    BY <2>1, <2>2, <2>4
<1> HIDE DEF impacted, tests
<1>11. Ids(impacted) = hit
  <2> HIDE DEF hit, touched
  <2>1. ASSUME NEW id \in Ids(impacted) PROVE id \in hit
    <3>1. PICK h \in impacted : h.id = id
      BY DEF Ids
    <3> QED
      BY <1>9, <3>1
  <2>2. ASSUME NEW id \in hit PROVE id \in Ids(impacted)
    <3>1. PICK h : h = [id |-> id, depth |-> Min(lengths(id, Min(touched(id))))]
      OBVIOUS
    <3>2. h \in impacted /\ h.id = id
      BY <1>9, <3>1
    <3> QED
      BY <3>2 DEF Ids
  <2> QED
    BY <2>1, <2>2
<1>12. \A h \in impacted : \E i \in touched(h.id) : h.depth = Min(lengths(h.id, i))
  <2> TAKE h \in impacted
  <2>1. PICK id \in hit : h = [id |-> id, depth |-> Min(lengths(id, Min(touched(id))))]
    BY <1>9
  <2>2. Min(touched(id)) \in touched(id)
    BY <1>8
  <2> HIDE DEF touched
  <2> QED
    BY <2>1, <2>2
<1>13. \A h, x \in impacted : h.id = x.id => h = x
  <2> HIDE DEF touched, hit
  <2> QED
    BY <1>9
<1> HIDE DEF touched, hit
<1> QED
  BY <1>10, <1>11, <1>12, <1>13
     DEF ImpactIsComplete, impacted, tests, touched, hit, lengths, walks, deep, c

-----------------------------------------------------------------------------
(* What an edit did.                                                       *)

\* Max is the greatest of some numbers that have a bound.
LEMMA MaxIsGreatest ==
  ASSUME NEW b \in Nat, NEW T \in SUBSET (0 .. b), T # {}
  PROVE  Max(T) \in T /\ \A j \in T : j <= Max(T)
<1> DEFINE U == {b - x : x \in T}
<1>1. U \in SUBSET Nat /\ U # {}
  <2>1. PICK x : x \in T
    OBVIOUS
  <2>2. b - x \in U
    BY <2>1
  <2>3. \A y \in T : b - y \in Nat
    OBVIOUS
  <2> QED
    BY <2>2, <2>3
<1> HIDE DEF U
<1>2. PICK u \in U : \A v \in U : u <= v
  BY <1>1, LeastExists
<1>3. PICK x \in T : u = b - x
  BY DEF U
<1>4. \A y \in T : y <= x
  <2> TAKE y \in T
  <2>1. b - y \in U
    BY DEF U
  <2>2. b - x <= b - y /\ x \in Nat /\ y \in Nat
    BY <1>2, <1>3, <2>1
  <2> QED
    BY <2>2
<1>5. \E z \in T : \A y \in T : z >= y
  BY <1>4
<1> QED
  BY <1>5 DEF Max

NewUpTo(edit, i) == {j \in 1 .. i : IsNew(edit[j])}

\* The lines of the edited file are counted from the front.
LEMMA NewLineCounts ==
  ASSUME NEW edit, NEW i \in Nat, NEW j \in Nat, i <= j
  PROVE  /\ NewLine(edit, i) \in Nat /\ NewLine(edit, j) \in Nat
         /\ NewLine(edit, i) <= NewLine(edit, j)
         /\ (\E k \in i + 1 .. j : IsNew(edit[k])) => NewLine(edit, i) < NewLine(edit, j)
         /\ (\A k \in i + 1 .. j : ~ IsNew(edit[k])) => NewLine(edit, i) = NewLine(edit, j)
<1> DEFINE A == NewUpTo(edit, i)
           B == NewUpTo(edit, j)
<1>1. NewLine(edit, i) = Cardinality(A) /\ NewLine(edit, j) = Cardinality(B)
  BY DEF NewLine, NewUpTo
<1>2. IsFiniteSet(1 .. j)
  <2>1. 1 \in Int /\ j \in Int
    OBVIOUS
  <2> QED
    BY <2>1, FS_Interval
<1>3. A \subseteq B /\ B \subseteq 1 .. j
  BY DEF NewUpTo
<1>4. (\E k \in i + 1 .. j : IsNew(edit[k])) => A # B
  BY DEF NewUpTo
<1>5. (\A k \in i + 1 .. j : ~ IsNew(edit[k])) => A = B
  BY DEF NewUpTo
<1> HIDE DEF A, B
<1>6. IsFiniteSet(B)
  BY <1>2, <1>3, FS_Subset
<1>7. /\ IsFiniteSet(A) /\ Cardinality(A) <= Cardinality(B)
      /\ Cardinality(A) = Cardinality(B) => A = B
  BY <1>3, <1>6, FS_Subset
<1>8. Cardinality(A) \in Nat /\ Cardinality(B) \in Nat
  BY <1>6, <1>7, FS_CardinalityType
<1> QED
  BY <1>1, <1>4, <1>5, <1>7, <1>8

IsEdit(edit) ==
    /\ DOMAIN edit = 1 .. Len(edit) /\ Len(edit) \in Nat
    /\ \A i \in DOMAIN edit : edit[i].op \in {"kept", "deleted", "inserted"}

\* Every place that is not kept is in a run of such places.
LEMMA RunExists ==
  ASSUME NEW edit, IsEdit(edit), NEW i \in DOMAIN edit, edit[i].op # "kept"
  PROVE  \E lo, hi \in 1 .. Len(edit) :
            /\ <<lo, hi>> \in Runs(edit) /\ lo <= i /\ i <= hi
            /\ \A k \in lo .. hi : edit[k].op # "kept"
            /\ lo - 1 \in DOMAIN edit => edit[lo - 1].op = "kept"
            /\ hi + 1 \in DOMAIN edit => edit[hi + 1].op = "kept"
<1> DEFINE n == Len(edit)
           T == {j \in 1 .. i : \A k \in j .. i : edit[k].op # "kept"}
           U == {k \in i .. n : edit[k].op = "kept"}
<1>1. n \in Nat /\ i \in 1 .. n /\ DOMAIN edit = 1 .. n
  BY DEF IsEdit
<1> HIDE DEF n
<1>2. \E lo \in 1 .. n :
        /\ lo <= i /\ \A k \in lo .. i : edit[k].op # "kept"
        /\ lo - 1 \in DOMAIN edit => edit[lo - 1].op = "kept"
  <2>1. T \in SUBSET Nat /\ i \in T
    BY <1>1
  <2>2. PICK lo \in T : \A j \in T : lo <= j
    <3> HIDE DEF T
    <3> QED
      BY <2>1, LeastExists
  <2>3. lo \in 1 .. n /\ lo <= i /\ \A k \in lo .. i : edit[k].op # "kept"
    BY <1>1, <2>2
  <2>4. ASSUME lo - 1 \in DOMAIN edit, edit[lo - 1].op # "kept" PROVE FALSE
    <3>1. lo - 1 \in 1 .. i /\ \A k \in lo - 1 .. i : k = lo - 1 \/ k \in lo .. i
      BY <1>1, <2>3, <2>4
    <3>2. lo - 1 \in T
      BY <2>3, <2>4, <3>1
    <3> QED
      BY <1>1, <2>2, <2>3, <3>2
  <2> QED
    BY <2>3, <2>4
<1>3. \E hi \in 1 .. n :
        /\ i <= hi /\ \A k \in i .. hi : edit[k].op # "kept"
        /\ hi + 1 \in DOMAIN edit => edit[hi + 1].op = "kept"
  <2>1. CASE U = {}
    <3>1. n \in 1 .. n /\ i <= n /\ n + 1 \notin DOMAIN edit
      BY <1>1
    <3>2. \A k \in i .. n : edit[k].op # "kept"
      BY <2>1
    <3> QED
      BY <3>1, <3>2
  <2>2. CASE U # {}
    <3>1. U \in SUBSET Nat
      BY <1>1
    <3>2. PICK u \in U : \A v \in U : u <= v
      <4> HIDE DEF U
      <4> QED
        BY <2>2, <3>1, LeastExists
    <3>3. u \in i .. n /\ u # i /\ edit[u].op = "kept"
      OBVIOUS
    <3>4. PICK hi : hi = u - 1
      OBVIOUS
    <3>5. hi \in 1 .. n /\ i <= hi /\ hi + 1 = u
      BY <1>1, <3>3, <3>4
    <3>6. \A k \in i .. hi : edit[k].op # "kept"
      <4> SUFFICES ASSUME NEW k \in i .. hi, edit[k].op = "kept" PROVE FALSE
        OBVIOUS
      <4>1. k \in U /\ k < u
        BY <1>1, <3>5
      <4> QED
        BY <1>1, <3>2, <3>3, <4>1
    <3> QED
      BY <3>3, <3>5, <3>6
  <2> QED
    BY <2>1, <2>2
<1>4. PICK lo \in 1 .. n :
        /\ lo <= i /\ \A k \in lo .. i : edit[k].op # "kept"
        /\ lo - 1 \in DOMAIN edit => edit[lo - 1].op = "kept"
  BY <1>2
<1>5. PICK hi \in 1 .. n :
        /\ i <= hi /\ \A k \in i .. hi : edit[k].op # "kept"
        /\ hi + 1 \in DOMAIN edit => edit[hi + 1].op = "kept"
  BY <1>3
<1>6. \A k \in lo .. hi : edit[k].op # "kept"
  <2>1. \A k \in lo .. hi : k \in lo .. i \/ k \in i .. hi
    BY <1>1, <1>4, <1>5
  <2> QED
    BY <1>4, <1>5, <2>1
<1>7. PICK r : r = <<lo, hi>>
  OBVIOUS
<1>8. r \in (DOMAIN edit) \X (DOMAIN edit) /\ r[1] = lo /\ r[2] = hi /\ lo <= hi
  BY <1>1, <1>4, <1>5, <1>7
<1>9. r \in Runs(edit)
  BY <1>4, <1>5, <1>6, <1>8 DEF Runs
<1> QED
  BY <1>4, <1>5, <1>6, <1>7, <1>9 DEF n

\* The places of a symbol that are in the edited file.
NewOf(edit, sym) == {i \in Mine(edit, sym) : IsNew(edit[i])}

\* A symbol's lines go from its first new place to its last one.
LEMMA LinesSpan ==
  ASSUME NEW edit, IsEdit(edit), NEW sym, NEW i \in NewOf(edit, sym)
  PROVE  LET l == Lines(edit, sym) IN
         /\ l.first \in Nat /\ l.last \in Nat
         /\ l.first <= NewLine(edit, i) /\ NewLine(edit, i) <= l.last
         /\ NewLine(edit, i) >= 1
<1> DEFINE n == Len(edit)
           at == {NewLine(edit, j) : j \in NewOf(edit, sym)}
<1>1. n \in Nat /\ \A j \in NewOf(edit, sym) : j \in 1 .. n /\ IsNew(edit[j])
  BY DEF IsEdit, NewOf, Mine
<1> HIDE DEF n
<1>2. \A j \in 1 .. n : /\ NewLine(edit, j) \in 0 .. NewLine(edit, n)
                        /\ NewLine(edit, n) \in Nat /\ NewLine(edit, 0) \in Nat
                        /\ IsNew(edit[j]) => NewLine(edit, 0) < NewLine(edit, j)
  <2> TAKE j \in 1 .. n
  <2>1. j \in Nat /\ 0 \in Nat /\ j <= n /\ 0 <= j /\ j \in 0 + 1 .. j
    BY <1>1
  <2>2. NewLine(edit, j) \in Nat /\ NewLine(edit, n) \in Nat
        /\ NewLine(edit, j) <= NewLine(edit, n)
    BY <1>1, <2>1, NewLineCounts
  <2>3. /\ NewLine(edit, 0) \in Nat
        /\ (\E k \in 0 + 1 .. j : IsNew(edit[k])) => NewLine(edit, 0) < NewLine(edit, j)
    BY <2>1, NewLineCounts
  <2> QED
    BY <2>1, <2>2, <2>3
<1>3. Lines(edit, sym) = [first |-> Min(at), last |-> Max(at)]
  BY DEF Lines, NewOf
<1>4. NewLine(edit, i) \in at /\ NewLine(edit, n) \in Nat
      /\ at \in SUBSET (0 .. NewLine(edit, n)) /\ at \in SUBSET Nat
  BY <1>1, <1>2
<1> HIDE DEF at
<1>5. Min(at) \in at /\ \A x \in at : Min(at) <= x
  BY <1>4, MinIsLeast
<1>6. Max(at) \in at /\ \A x \in at : x <= Max(at)
  BY <1>4, MaxIsGreatest
<1>7. NewLine(edit, i) \in Nat /\ NewLine(edit, i) >= 1
  BY <1>1, <1>2
<1>8. Lines(edit, sym).first = Min(at) /\ Lines(edit, sym).last = Max(at)
  BY <1>3
<1>9. Min(at) \in Nat /\ Max(at) \in Nat
  BY <1>4, <1>5, <1>6
<1> QED
  BY <1>4, <1>5, <1>6, <1>7, <1>8, <1>9

\* A run whose lines, or whose place between two lines, are within a symbol's
\* makes it overlap.
LEMMA RunTouches ==
  ASSUME NEW edit, IsEdit(edit), NEW sym, NEW lo \in 1 .. Len(edit),
         NEW hi \in 1 .. Len(edit), lo <= hi, <<lo, hi>> \in Runs(edit),
         NEW i \in NewOf(edit, sym), NEW j \in NewOf(edit, sym),
         \/ lo <= i /\ i <= hi
         \/ i < lo /\ j > hi
         \/ i = lo - 1 /\ \A k \in lo .. hi : ~ IsNew(edit[k])
  PROVE  Overlaps(Lines(edit, sym), HunkRanges({HunkHeader(edit, r) : r \in Runs(edit)}))
<1> DEFINE N(k) == NewLine(edit, k)
           before == N(lo - 1)
           after == N(hi)
           l == Lines(edit, sym)
           range(first, last) == [first |-> first, last |-> last]
           ranges == HunkRanges({HunkHeader(edit, r) : r \in Runs(edit)})
           Found == Overlaps(l, ranges)
<1>1. /\ Len(edit) \in Nat /\ lo \in Nat /\ lo - 1 \in Nat /\ hi \in Nat
      /\ i \in 1 .. Len(edit) /\ j \in 1 .. Len(edit) /\ IsNew(edit[i]) /\ IsNew(edit[j])
  BY DEF IsEdit, NewOf, Mine
<1>2. /\ before \in Nat /\ after \in Nat /\ before <= after
      /\ (\A k \in lo .. hi : ~ IsNew(edit[k])) => before = after
  <2>1. lo - 1 <= hi /\ lo - 1 + 1 = lo
    BY <1>1
  <2> QED
    BY <1>1, <2>1, NewLineCounts
<1>3. /\ l.first \in Nat /\ l.last \in Nat
      /\ l.first <= N(i) /\ N(i) <= l.last /\ N(i) >= 1
      /\ l.first <= N(j) /\ N(j) <= l.last
      /\ N(i) \in Nat /\ N(j) \in Nat
  <2>1. N(i) \in Nat /\ N(j) \in Nat
    BY <1>1, NewLineCounts
  <2> QED
    BY <2>1, LinesSpan
\* The hunk of the run.
<1>4. HunkHeader(edit, <<lo, hi>>)
      = [start |-> IF after - before = 0 THEN before ELSE before + 1,
         count |-> after - before]
  BY DEF HunkHeader
<1>5. after # before => range(before + 1, after) \in ranges
  <2> SUFFICES ASSUME after # before PROVE range(before + 1, after) \in ranges
    OBVIOUS
  <2>1. after - before # 0 /\ before + 1 > 0 /\ (before + 1) + (after - before) - 1 = after
    BY <1>2
  <2>2. PICK h : h = HunkHeader(edit, <<lo, hi>>)
    OBVIOUS
  <2> HIDE DEF N
  <2>3. h.start = before + 1 /\ h.count = after - before
    BY <1>4, <2>1, <2>2
  <2>4. h \in {HunkHeader(edit, r) : r \in Runs(edit)} /\ h.start > 0
    BY <2>1, <2>2, <2>3
  <2> QED
    BY <2>1, <2>3, <2>4 DEF HunkRanges
<1>6. after = before /\ before > 0 => range(before, before) \in ranges
  <2> SUFFICES ASSUME after = before, before > 0 PROVE range(before, before) \in ranges
    OBVIOUS
  <2>1. after - before = 0
    BY <1>2
  <2>2. PICK h : h = HunkHeader(edit, <<lo, hi>>)
    OBVIOUS
  <2> HIDE DEF N
  <2>3. h.start = before /\ h.count = 0
    BY <1>4, <2>1, <2>2
  <2>4. h \in {HunkHeader(edit, r) : r \in Runs(edit)} /\ h.start > 0
    BY <2>2, <2>3
  <2> QED
    BY <2>3, <2>4 DEF HunkRanges
<1>7. ASSUME NEW first \in Nat, NEW last \in Nat, range(first, last) \in ranges,
             l.first <= last, l.last >= first
      PROVE  Found
  BY <1>7 DEF Overlaps
<1> HIDE DEF ranges, l, range, Found
<1> SUFFICES Found
  BY DEF Found, ranges, l
<1>8. CASE lo <= i /\ i <= hi
  <2>1. before < N(i) /\ N(i) <= after
    <3>1. lo - 1 <= i /\ i \in lo - 1 + 1 .. i /\ i \in Nat
      BY <1>1, <1>8
    <3> QED
      BY <1>1, <1>8, <3>1, NewLineCounts
  <2> HIDE DEF N, before, after
  <2>2. l.first <= after /\ l.last >= before + 1 /\ after # before /\ before + 1 \in Nat
    BY <1>2, <1>3, <2>1
  <2> QED
    BY <1>2, <1>5, <1>7, <2>2
<1>9. CASE i < lo /\ j > hi
  <2>1. N(i) <= before /\ after < N(j)
    <3>1. i <= lo - 1 /\ i \in Nat /\ j \in Nat /\ hi <= j /\ j \in hi + 1 .. j
      BY <1>1, <1>9
    <3> QED
      BY <1>1, <3>1, NewLineCounts
  <2> HIDE DEF N, before, after
  <2>2. CASE after # before
    <3>1. l.first <= after /\ l.last >= before + 1 /\ before + 1 \in Nat
      BY <1>2, <1>3, <2>1
    <3> QED
      BY <1>2, <1>5, <1>7, <2>2, <3>1
  <2>3. CASE after = before
    <3>1. l.first <= before /\ l.last >= before /\ before > 0
      BY <1>2, <1>3, <2>1, <2>3
    <3> QED
      BY <1>2, <1>6, <1>7, <2>3, <3>1
  <2> QED
    BY <2>2, <2>3
<1>10. CASE i = lo - 1 /\ \A k \in lo .. hi : ~ IsNew(edit[k])
  <2>1. after = before /\ N(i) = before
    BY <1>2, <1>10
  <2> HIDE DEF N, before, after
  <2>2. l.first <= before /\ l.last >= before /\ before > 0
    BY <1>2, <1>3, <2>1
  <2> QED
    BY <1>2, <1>6, <1>7, <2>1, <2>2
<1> QED
  BY <1>8, <1>9, <1>10 DEF Found, ranges, l

\* An edit of a symbol's text, but for the exceptions, is found by its run.
LEMMA ChangeIsFound ==
  ASSUME NEW edit, IsEdit(edit), NEW sym, HasLines(edit, sym), InOnePiece(edit, sym),
         TextChanged(edit, sym), ~ HeadGone(edit, sym), ~ EndReplaced(edit, sym)
  PROVE  Overlaps(Lines(edit, sym), HunkRanges({HunkHeader(edit, r) : r \in Runs(edit)}))
<1> DEFINE n == Len(edit)
           M == Mine(edit, sym)
           K == NewOf(edit, sym)
<1>1. /\ n \in Nat /\ DOMAIN edit = 1 .. n /\ M \subseteq 1 .. n /\ K \subseteq M /\ K # {}
      /\ \A i \in 1 .. n : edit[i].op \in {"kept", "deleted", "inserted"}
      /\ \A i \in M : i \in K <=> edit[i].op # "deleted"
  BY DEF IsEdit, Mine, NewOf, HasLines, IsNew
<1>2. \A i, k \in M : \A j \in i .. k : j \in M \/ edit[j].op = "inserted"
  BY DEF InOnePiece
<1>3. M \in SUBSET Nat /\ M \in SUBSET (0 .. n) /\ M # {}
      /\ K \in SUBSET Nat /\ K \in SUBSET (0 .. n)
  BY <1>1
<1>4. Min(M) \in M /\ (\A i \in M : Min(M) <= i) /\ Max(M) \in M /\ (\A i \in M : i <= Max(M))
  <2> HIDE DEF M, n
  <2> QED
    BY <1>1, <1>3, MinIsLeast, MaxIsGreatest
<1>5. Min(K) \in K /\ Max(K) \in K
  <2> HIDE DEF K, n
  <2> QED
    BY <1>1, <1>3, MinIsLeast, MaxIsGreatest
<1>6. PICK i \in 1 .. n :
        /\ edit[i].op # "kept"
        /\ i \in M \/ (Min(K) < i /\ i < Max(K))
  <2>1. CASE \E j \in M : edit[j].op # "kept"
    BY <1>1, <2>1
  <2>2. CASE \E j \in DOMAIN edit : edit[j].op = "inserted" /\ Min(K) < j /\ j < Max(K)
    BY <1>1, <2>2
  <2> QED
    BY <2>1, <2>2 DEF TextChanged, NewOf
<1>7. PICK lo \in 1 .. n, hi \in 1 .. n :
            /\ <<lo, hi>> \in Runs(edit) /\ lo <= i /\ i <= hi
            /\ \A k \in lo .. hi : edit[k].op # "kept"
            /\ lo - 1 \in DOMAIN edit => edit[lo - 1].op = "kept"
            /\ hi + 1 \in DOMAIN edit => edit[hi + 1].op = "kept"
  BY <1>1, <1>6, RunExists
<1> HIDE DEF M, K, n
<1>8. lo <= hi /\ i \in lo .. hi /\ i \in Nat /\ lo \in Nat /\ hi \in Nat
  BY <1>1, <1>6, <1>7
<1> DEFINE Found == Overlaps(Lines(edit, sym),
                             HunkRanges({HunkHeader(edit, r) : r \in Runs(edit)}))
<1>9. \A a, b \in K : (lo <= a /\ a <= hi) \/ (a < lo /\ b > hi) => Found
  BY <1>7, <1>8, RunTouches DEF n, K
<1>10. \A a \in K : a = lo - 1 /\ (\A k \in lo .. hi : ~ IsNew(edit[k])) => Found
  BY <1>7, <1>8, RunTouches DEF n, K
<1> HIDE DEF Found
<1>11. CASE (\E a \in K : lo <= a /\ a <= hi) \/ (\E a, b \in K : a < lo /\ b > hi)
  BY <1>9, <1>11 DEF Found
<1>12. CASE (\A a \in K : a < lo) /\ ~ (\E a \in K : lo <= a /\ a <= hi)
  <2>1. i \in M
    <3>1. CASE Min(K) < i /\ i < Max(K)
      <4>1. Max(K) \in Nat /\ Max(K) < lo /\ lo <= i
        BY <1>1, <1>3, <1>5, <1>7, <1>12
      <4> QED
        BY <1>8, <3>1, <4>1
    <3> QED
      BY <1>6, <3>1
  <2>2. PICK a : a \in K
    BY <1>1
  <2>3. a \in Nat /\ a < lo /\ a >= 1 /\ lo - 1 \in 1 .. n /\ lo - 1 \in a .. i /\ a \in M
    BY <1>1, <1>8, <1>12, <2>2
  <2>4. edit[lo - 1].op = "kept"
    BY <1>1, <1>7, <2>3
  <2>5. lo - 1 \in M
    BY <1>2, <2>1, <2>3, <2>4
  <2>6. lo - 1 \in K
    BY <1>1, <2>4, <2>5
  <2>7. CASE \A k \in lo .. hi : ~ IsNew(edit[k])
    BY <1>10, <2>6, <2>7 DEF Found
  <2>8. CASE \E k \in lo .. hi : IsNew(edit[k])
    <3>1. PICK k \in lo .. hi : IsNew(edit[k])
      BY <2>8
    <3>2. k \in 1 .. n
      BY <1>1, <1>8, <3>1
    <3>3. edit[k].op = "inserted"
      BY <1>1, <1>7, <3>1, <3>2 DEF IsNew
    <3>4. k \notin M
      BY <1>1, <1>8, <1>12, <3>1, <3>3
    <3>5. sym \notin edit[k].owners
      BY <1>1, <3>2, <3>4 DEF M, Mine
    <3>6. Max(M) \in M /\ Max(M) \in 1 .. n /\ i <= Max(M)
      BY <1>1, <1>4, <2>1
    <3>7. Max(M) <= hi
      <4> SUFFICES ASSUME Max(M) > hi PROVE FALSE
        BY <1>1, <1>8, <3>6
      <4>1. hi + 1 \in 1 .. n /\ hi + 1 \in i .. Max(M)
        BY <1>1, <1>8, <3>6
      <4>2. edit[hi + 1].op = "kept"
        BY <1>1, <1>7, <4>1
      <4>3. hi + 1 \in M
        BY <1>2, <2>1, <3>6, <4>1, <4>2
      <4>4. hi + 1 \in K
        BY <1>1, <4>2, <4>3
      <4> QED
        BY <1>8, <1>12, <4>4
    <3>8. lo <= Max(M)
      BY <1>1, <1>8, <3>6
    <3>9. edit[Max(M)].op = "deleted"
      BY <1>1, <1>12, <3>6, <3>7, <3>8
    <3>10. EndReplaced(edit, sym)
      <4>1. PICK r \in Runs(edit) : r = <<lo, hi>>
        BY <1>7
      <4>2. r[1] = lo /\ r[2] = hi
        BY <4>1
      <4> QED
        BY <3>1, <3>3, <3>5, <3>7, <3>8, <3>9, <4>2 DEF EndReplaced, M
    <3> QED
      BY <3>10
  <2> QED
    BY <2>7, <2>8
<1>13. CASE (\A a \in K : a > hi) /\ ~ (\E a \in K : lo <= a /\ a <= hi)
  <2>1. i \in M
    <3>1. CASE Min(K) < i /\ i < Max(K)
      <4>1. Min(K) \in Nat /\ Min(K) > hi /\ i <= hi
        BY <1>1, <1>3, <1>5, <1>7, <1>13
      <4> QED
        BY <1>8, <3>1, <4>1
    <3> QED
      BY <1>6, <3>1
  <2>2. Min(M) \in M /\ Min(M) \in 1 .. n /\ Min(M) <= i
    BY <1>1, <1>4, <2>1
  <2>3. lo <= Min(M)
    <3> SUFFICES ASSUME Min(M) < lo PROVE FALSE
      BY <1>1, <1>8, <2>2
    <3>1. lo - 1 \in 1 .. n /\ lo - 1 \in Min(M) .. i
      BY <1>1, <1>8, <2>2
    <3>2. edit[lo - 1].op = "kept"
      BY <1>1, <1>7, <3>1
    <3>3. lo - 1 \in M
      BY <1>2, <2>1, <2>2, <3>1, <3>2
    <3>4. lo - 1 \in K
      BY <1>1, <3>2, <3>3
    <3> QED
      BY <1>8, <1>13, <3>4
  <2>4. Min(M) <= hi
    BY <1>1, <1>8, <2>2
  <2>5. edit[Min(M)].op = "deleted"
    BY <1>1, <1>13, <2>2, <2>3, <2>4
  <2>6. ASSUME NEW k \in lo .. hi, edit[k].op = "inserted" PROVE sym \notin edit[k].owners
    <3>1. k \in 1 .. n
      BY <1>1, <1>8
    <3>2. k \notin M
      BY <1>1, <1>8, <1>13, <2>6
    <3> QED
      BY <1>1, <3>1, <3>2 DEF M, Mine
  <2>7. HeadGone(edit, sym)
    <3>1. PICK r \in Runs(edit) : r = <<lo, hi>>
      BY <1>7
    <3>2. r[1] = lo /\ r[2] = hi
      BY <3>1
    <3> QED
      BY <2>3, <2>4, <2>5, <2>6, <3>2 DEF HeadGone, M
  <2> QED
    BY <2>7
<1>14. \/ \E a \in K : lo <= a /\ a <= hi
       \/ \E a, b \in K : a < lo /\ b > hi
       \/ \A a \in K : a < lo
       \/ \A a \in K : a > hi
  <2>1. \A a \in K : a \in Nat
    BY <1>3
  <2> QED
    BY <1>8, <2>1
<1> QED
  BY <1>11, <1>12, <1>13, <1>14

\* The changes tool names every symbol whose text an edit changed.
LEMMA EditIsRight ==
  ASSUME NEW q \in EditQuestion
  PROVE  EditIsCovered(q, ChangedSymbols(q.edit, q.syms, q.diffed))
<1> SUFFICES ASSUME NEW s \in q.syms, TextChanged(q.edit, s), ~ HeadGone(q.edit, s),
                    ~ EndReplaced(q.edit, s)
             PROVE  s \in ChangedSymbols(q.edit, q.syms, q.diffed)
  BY DEF EditIsCovered
<1>1. IsEdit(q.edit) /\ HasLines(q.edit, s) /\ InOnePiece(q.edit, s)
  BY GraphToolsConstantsOK DEF IsEdit
<1>2. Overlaps(Lines(q.edit, s), HunkRanges({HunkHeader(q.edit, r) : r \in Runs(q.edit)}))
  BY <1>1, ChangeIsFound
<1> QED
  BY <1>2 DEF ChangedSymbols

-----------------------------------------------------------------------------
(* The graph tools, one call after another.                                *)

\* The questions that a graph tool answers.
GraphQuestions == {"trace", "match", "edit", "impact"}

\* What a call of a graph tool leaves in asked.
LEMMA CallsOfTools ==
  ASSUME GraphAsks
  PROVE  \/ \E q \in TraceQuestion :
            /\ question' = [is |-> "trace", of |-> q]
            /\ TraceAgrees(q, answer')
         \/ \E q \in MatchQuestion :
            /\ question' = [is |-> "match", of |-> q]
            /\ MatchAgrees(q, answer')
         \/ \E q \in EditQuestion :
            /\ question' = [is |-> "edit", of |-> q]
            /\ EditIsCovered(q, answer')
         \/ \E q \in ImpactQuestion :
            /\ question' = [is |-> "impact", of |-> q]
            /\ ImpactIsComplete(q, answer')
<1>1. CASE \E q \in TraceQuestion : HandleTrace(q)
  <2>1. PICK q \in TraceQuestion : HandleTrace(q)
    BY <1>1
  <2>2. q.built \in Nat /\ q.asked \in Int /\ q.direction \in {"inbound", "outbound", "both"}
    BY GraphToolsConstantsOK
  <2> DEFINE reply == Trace(q.graph, BuiltClosure(q.graph, q.built), q.built > 0, q.kinds,
                            q.start, q.direction, q.asked, Tests(q.graph), Enough)
  <2>3. TraceAgrees(q, reply)
    BY <2>2, TraceIsRight
  <2>4. asked' = <<[is |-> "trace", of |-> q], reply>>
    BY <2>1 DEF HandleTrace, Replies
  <2> HIDE DEF reply
  <2>5. question' = [is |-> "trace", of |-> q] /\ answer' = reply
    BY <2>4 DEF question, answer
  <2> QED
    BY <2>3, <2>5
<1>2. CASE \E q \in MatchQuestion : HandleMatch(q)
  <2>1. PICK q \in MatchQuestion : HandleMatch(q)
    BY <1>2
  <2>2. q.pattern.min \in Int /\ q.pattern.max \in Int
    BY GraphToolsConstantsOK
  <2> DEFINE reply == Bfs(q.graph, Bounded(q.pattern), CallKinds,
                          ShouldInvert(q.pattern, Nobody), Nobody)
  <2>3. MatchAgrees(q, reply)
    BY <2>2, MatchIsRight
  <2>4. asked' = <<[is |-> "match", of |-> q], reply>>
    BY <2>1 DEF HandleMatch, Replies
  <2> HIDE DEF reply
  <2>5. question' = [is |-> "match", of |-> q] /\ answer' = reply
    BY <2>4 DEF question, answer
  <2> QED
    BY <2>3, <2>5
<1>3. CASE \E q \in EditQuestion : HandleEdit(q)
  <2>1. PICK q \in EditQuestion : HandleEdit(q)
    BY <1>3
  <2> DEFINE reply == ChangedSymbols(q.edit, q.syms, q.diffed)
  <2>2. EditIsCovered(q, reply)
    BY EditIsRight
  <2>3. asked' = <<[is |-> "edit", of |-> q], reply>>
    BY <2>1 DEF HandleEdit, Replies
  <2> HIDE DEF reply
  <2>4. question' = [is |-> "edit", of |-> q] /\ answer' = reply
    BY <2>3 DEF question, answer
  <2> QED
    BY <2>2, <2>4
<1>4. CASE \E q \in ImpactQuestion : HandleImpact(q)
  <2>1. PICK q \in ImpactQuestion : HandleImpact(q)
    BY <1>4
  <2>2. /\ q.built \in Nat /\ q.depth \in 1 .. 5 /\ DOMAIN q.changed \subseteq Nat
        /\ q.graph.rows \subseteq DOMAIN q.graph.label
    BY GraphToolsConstantsOK
  <2> DEFINE c == BuiltClosure(q.graph, q.built)
             reply == [impacted |-> Impacted(q.graph, c, q.built > 0, q.changed, q.depth),
                       tests |-> TestsToRun(q.graph, c, q.built > 0, q.changed, q.depth)]
  <2>3. ImpactIsComplete(q, reply)
    BY <2>2, ImpactIsRight
  <2>4. asked' = <<[is |-> "impact", of |-> q], reply>>
    BY <2>1 DEF HandleImpact, Replies
  <2> HIDE DEF reply
  <2>5. question' = [is |-> "impact", of |-> q] /\ answer' = reply
    BY <2>4 DEF question, answer
  <2> QED
    BY <2>3, <2>5
<1> QED
  BY <1>1, <1>2, <1>3, <1>4 DEF GraphAsks

\* Nobody has asked anything yet.
LEMMA NobodyAsked ==
  ASSUME ToolsInit
  PROVE  question.is \notin GraphQuestions
BY DEF ToolsInit, question, Silent, GraphQuestions

\* However a walk is computed, from the closure or by SQL, from either end of
\* a pattern, a trace and a match list whom a chain of edges joins, with the
\* length of the shortest one.
THEOREM TracesAndMatchesAreRight == GraphSpec => []WalksAgree
<1>1. ToolsInit => WalksAgree
  BY NobodyAsked DEF GraphQuestions, WalksAgree
<1>2. WalksAgree /\ [(question = Silent /\ GraphAsks) \/ Elsewhere]_asked => WalksAgree'
  <2> SUFFICES ASSUME WalksAgree, [(question = Silent /\ GraphAsks) \/ Elsewhere]_asked
               PROVE  WalksAgree'
    OBVIOUS
  <2>1. CASE GraphAsks
    BY <2>1, CallsOfTools DEF WalksAgree
  <2>2. CASE Elsewhere
    BY <2>2 DEF Elsewhere, WalksAgree
  <2>3. CASE UNCHANGED asked
    BY <2>3 DEF WalksAgree, question, answer
  <2> QED
    BY <2>1, <2>2, <2>3
<1> QED
  BY <1>1, <1>2, PTL DEF GraphSpec

\* The changes tool names every symbol whose text an edit changed, and all
\* that reach one of those, with the number of them that a test reaches.
THEOREM ChangesAreFound == GraphSpec => []ChangesAreComplete
<1>1. ToolsInit => ChangesAreComplete
  BY NobodyAsked DEF GraphQuestions, ChangesAreComplete
<1>2. ChangesAreComplete /\ [(question = Silent /\ GraphAsks) \/ Elsewhere]_asked
        => ChangesAreComplete'
  <2> SUFFICES ASSUME ChangesAreComplete,
                      [(question = Silent /\ GraphAsks) \/ Elsewhere]_asked
               PROVE  ChangesAreComplete'
    OBVIOUS
  <2>1. CASE GraphAsks
    BY <2>1, CallsOfTools DEF ChangesAreComplete
  <2>2. CASE Elsewhere
    BY <2>2 DEF Elsewhere, ChangesAreComplete
  <2>3. CASE UNCHANGED asked
    BY <2>3 DEF ChangesAreComplete, question, answer
  <2> QED
    BY <2>1, <2>2, <2>3
<1> QED
  BY <1>1, <1>2, PTL DEF GraphSpec
=============================================================================
