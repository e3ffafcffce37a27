---------------------------- MODULE Gateway_proofs ----------------------------
(***************************************************************************)
(* The gateway's rate limit and its replies, for any addresses, requests,  *)
(* flags, projects, tools, limits and windows, and any number of requests  *)
(* between reading the clock and being counted.                            *)
(*                                                                         *)
(* AdmissionIsExact compares requests that were let in with a limit, while *)
(* allowRequest looks at nothing but a list of times from which it has cut *)
(* the front.  The inductive invariant says what that list is: the times   *)
(* of the latest requests that were let in, in the order in which they     *)
(* were, and none that is missing from it is of the present window         *)
(* (ListOK).  So the list, once cut, is never shorter than the window is   *)
(* full; and when every request was counted at the time it had read, the   *)
(* list is sorted and holds nothing else.                                  *)
(*                                                                         *)
(* GatewayIsUniform compares a reply with those to other requests.  Three  *)
(* predicates say what a reply is by the path that is left: what the       *)
(* dispatch answers (DispatchFits), what comes of it on its way out        *)
(* (WholeFits), and who is served in its place (ServedAt).  A page and the *)
(* one after it are cut from the same list, since neither the filter nor   *)
(* the limit changes.  The invariant (RepliesOK) says only that replies    *)
(* are such, and that the projects table stays one.                        *)
(***************************************************************************)
EXTENDS Gateway, FiniteSetTheorems, SequenceTheorems, WellFoundedInduction, TLAPS

InFlight == [q : Sends[setting], read : Nat]
Admission == [read : Nat, counted : Nat, n : Nat]

GatewayTyping ==
    /\ setting \in Setting /\ clock \in Nat
    /\ arrived \in Seq(InFlight)
    /\ windows \in [Address -> Seq(Nat)]
    /\ admitted \in [Address -> SUBSET Admission]
    /\ refused \subseteq [ip : Address, read : Nat, counted : Nat]

\* Nobody reads a time that is still to come.
ReadOK == \A i \in DOMAIN arrived : arrived[i].read <= clock

\* The requests of an address are numbered as they are let in, and the list is
\* of the last of them.
NumbersOK(all) ==
    /\ IsFiniteSet(all)
    /\ \A r \in all : r.n < Cardinality(all)
    /\ \A r, s \in all : r.n = s.n => r = s
    /\ \A n \in 0 .. Cardinality(all) - 1 : \E r \in all : r.n = n
    /\ \A r, s \in all : r.n < s.n => r.counted <= s.counted

\* oldest: times before it may have been cut off.
TimesOK(all, list, oldest) ==
    LET cut == Cardinality(all) - Len(list) IN
    /\ cut >= 0
    /\ \A r \in all : r.n >= cut => list[r.n - cut + 1] = r.read
    /\ \A r \in all : r.n < cut => r.read < oldest

ListOK ==
    \A ip \in Address :
        /\ NumbersOK(admitted[ip])
        /\ TimesOK(admitted[ip], windows[ip], clock - RateWindow)
        /\ \A r \in admitted[ip] : r.read <= r.counted /\ r.counted <= clock

Prompt(r) == r.read = r.counted
Within(all, from, to) == {r \in all : Prompt(r) /\ r.read \in from .. to}

\* No span of the window's length, of those there have been or will be, has
\* more than the limit.
SpanOK ==
    setting.rateLimit > 0 => \A ip \in Address : \A t \in Int :
        Cardinality(Within(admitted[ip], t, t + RateWindow)) <= setting.rateLimit

RefusedOK ==
    \A r \in refused : Prompt(r) /\ (\A m \in admitted[r.ip] : Prompt(m))
        => Cardinality(Within(admitted[r.ip], r.read - RateWindow, r.read)) = setting.rateLimit

GatewayInv == GatewayTyping /\ ReadOK /\ ListOK /\ SpanOK /\ RefusedOK

-----------------------------------------------------------------------------
(* The list.                                                               *)

\* Of some numbers one is the least.
LEMMA LeastExists ==
  ASSUME NEW T \in SUBSET Nat, T # {}
  PROVE  \E i \in T : \A j \in T : i <= j
<1>1. PICK i \in T : \A j \in T : ~ (<<j, i>> \in OpToRel(<, Nat))
  BY NatLessThanWellFounded, WFMin
<1>2. \A j \in T : ~ (j < i)
  BY <1>1 DEF OpToRel
<1> QED
  BY <1>2

\* What Pruned leaves is the list without some times of its front, all of them
\* before the cutoff, and begins with one that is not.
LEMMA PrunedCuts ==
  ASSUME NEW times \in Seq(Nat), NEW cutoff \in Int
  PROVE  \E d \in 0 .. Len(times) :
            /\ Pruned(times, cutoff) = SubSeq(times, d + 1, Len(times))
            /\ \A j \in 1 .. d : times[j] < cutoff
            /\ d < Len(times) => times[d + 1] >= cutoff
<1> DEFINE hits == {i \in DOMAIN times : times[i] >= cutoff}
<1>1. DOMAIN times = 1 .. Len(times) /\ Len(times) \in Nat
      /\ \A i \in 1 .. Len(times) : times[i] \in Nat
  BY LenProperties, ElementOfSeq
<1>2. CASE hits = {}
  <2>1. Pruned(times, cutoff) = <<>>
    BY <1>2 DEF Pruned, FirstWhere
  <2>2. SubSeq(times, Len(times) + 1, Len(times)) = <<>>
    BY <1>1, SubSeqEmpty
  <2>3. \A j \in 1 .. Len(times) : times[j] < cutoff
    BY <1>1, <1>2
  <2> QED
    BY <1>1, <2>1, <2>2, <2>3
<1>3. CASE hits # {}
  <2> DEFINE kept == CHOOSE i \in hits : \A j \in hits : i <= j
  <2>1. kept \in hits /\ \A j \in hits : kept <= j
    <3>1. hits \in SUBSET Nat
      BY <1>1
    <3> HIDE DEF hits
    <3>2. \E i \in hits : \A j \in hits : i <= j
      BY <1>3, <3>1, LeastExists
    <3> QED
      BY <3>2
  <2>2. Pruned(times, cutoff) = SubSeq(times, kept, Len(times))
    <3>1. FirstWhere(times, LAMBDA t : t >= cutoff) = kept
      BY <1>3 DEF FirstWhere
    <3>2. kept # 0
      BY <1>1, <2>1
    <3> HIDE DEF kept
    <3> QED
      BY <3>1, <3>2 DEF Pruned
  <2>3. \A j \in 1 .. kept - 1 : times[j] < cutoff
    BY <1>1, <2>1
  <2> HIDE DEF kept
  <2>4. kept - 1 \in 0 .. Len(times) /\ kept - 1 + 1 = kept /\ times[kept] >= cutoff
    BY <1>1, <2>1
  <2> QED
    BY <2>2, <2>3, <2>4
<1> QED
  BY <1>2, <1>3

\* Pruning cuts off nothing of the window of a request that has read a time
\* that has been.
LEMMA PruneKeeps ==
  ASSUME NEW all \in SUBSET Admission, NumbersOK(all), NEW list \in Seq(Nat),
         NEW oldest \in Int, NEW cutoff \in Int, cutoff <= oldest,
         TimesOK(all, list, oldest)
  PROVE  /\ Pruned(list, cutoff) \in Seq(Nat)
         /\ TimesOK(all, Pruned(list, cutoff), oldest)
         /\ \A r \in all : r.n = Cardinality(all) - Len(Pruned(list, cutoff))
                => r.read >= cutoff
<1>1. PICK d \in 0 .. Len(list) :
            /\ Pruned(list, cutoff) = SubSeq(list, d + 1, Len(list))
            /\ \A j \in 1 .. d : list[j] < cutoff
            /\ d < Len(list) => list[d + 1] >= cutoff
  BY PrunedCuts
<1> DEFINE k == Cardinality(all)
           kept == Pruned(list, cutoff)
           m == Len(list)
<1>2. k \in Nat /\ m \in Nat /\ k - m >= 0 /\ \A i \in 1 .. m : list[i] \in Nat
  BY FS_CardinalityType, LenProperties, ElementOfSeq DEF TimesOK, NumbersOK
<1>3. /\ kept \in Seq(Nat)
      /\ Len(kept) = m - d
      /\ \A i \in 1 .. m - d : kept[i] = list[d + i]
  <2>1. \A i \in d + 1 .. m : list[i] \in Nat
    BY <1>2
  <2>2. /\ SubSeq(list, d + 1, m) \in Seq(Nat)
        /\ Len(SubSeq(list, d + 1, m)) = IF d + 1 <= m THEN m - (d + 1) + 1 ELSE 0
        /\ \A i \in 1 .. m - (d + 1) + 1 : SubSeq(list, d + 1, m)[i] = list[d + 1 + i - 1]
    BY <1>2, <2>1, SubSeqProperties
  <2> HIDE DEF kept, m
  <2> QED
    BY <1>1, <1>2, <2>2 DEF kept, m
<1>4. \A r \in all : /\ r.n \in Nat /\ r.n < k /\ r.read \in Nat
                     /\ r.n >= k - m => list[r.n - (k - m) + 1] = r.read
                     /\ r.n < k - m => r.read < oldest
  BY DEF Admission, NumbersOK, TimesOK
<1> HIDE DEF k, kept, m
<1>5. \A r \in all : r.n >= k - (m - d) => kept[r.n - (k - (m - d)) + 1] = r.read
  <2> SUFFICES ASSUME NEW r \in all, r.n >= k - (m - d)
               PROVE  kept[r.n - (k - (m - d)) + 1] = r.read
    OBVIOUS
  <2>1. r.n - (k - (m - d)) + 1 \in 1 .. m - d
    BY <1>2, <1>4
  <2>2. d + (r.n - (k - (m - d)) + 1) = r.n - (k - m) + 1 /\ r.n >= k - m
    BY <1>2, <1>4
  <2> QED
    BY <1>3, <1>4, <2>1, <2>2
<1>6. \A r \in all : r.n < k - (m - d) => r.read < oldest
  <2> SUFFICES ASSUME NEW r \in all, r.n < k - (m - d), r.n >= k - m
               PROVE  r.read < oldest
    BY <1>2, <1>4
  <2>1. r.n - (k - m) + 1 \in 1 .. d
    BY <1>2, <1>4
  <2>2. r.read < cutoff
    BY <1>1, <1>4, <2>1
  <2> QED
    BY <1>4, <2>2
<1>7. \A r \in all : r.n = k - (m - d) => r.read >= cutoff
  <2> SUFFICES ASSUME NEW r \in all, r.n = k - (m - d)
               PROVE  r.read >= cutoff
    OBVIOUS
  <2>1. d < m /\ d + 1 = r.n - (k - m) + 1 /\ r.n >= k - m
    BY <1>2, <1>4
  <2> QED
    BY <1>1, <1>4, <2>1 DEF m
<1> QED
  BY <1>2, <1>3, <1>5, <1>6, <1>7 DEF TimesOK, k, kept, m

\* Later, no fewer times are old.
LEMMA LaterOK ==
  ASSUME NEW all \in SUBSET Admission, NEW list, NEW a \in Int, NEW b \in Int, a <= b,
         TimesOK(all, list, a)
  PROVE  TimesOK(all, list, b)
BY DEF TimesOK, Admission

-----------------------------------------------------------------------------
(* Counting.                                                               *)

\* One more request is let in: it has the next number, and its time is the
\* next of the list.
LEMMA OneMore ==
  ASSUME NEW all \in SUBSET Admission, NumbersOK(all), NEW list \in Seq(Nat),
         NEW oldest \in Int, TimesOK(all, list, oldest),
         NEW read \in Nat, NEW counted \in Nat, \A r \in all : r.counted <= counted
  PROVE  LET one == [read |-> read, counted |-> counted, n |-> Cardinality(all)]
         IN  /\ all \cup {one} \in SUBSET Admission
             /\ Append(list, read) \in Seq(Nat)
             /\ NumbersOK(all \cup {one})
             /\ TimesOK(all \cup {one}, Append(list, read), oldest)
             /\ one \notin all
<1> DEFINE k == Cardinality(all)
           one == [read |-> read, counted |-> counted, n |-> k]
           more == all \cup {one}
<1>1. IsFiniteSet(all) /\ k \in Nat
  BY FS_CardinalityType DEF NumbersOK
<1>2. \A r \in all : r.n < k /\ r.n \in Nat /\ r.read \in Nat /\ r.counted \in Nat
  BY DEF NumbersOK, Admission
<1> HIDE DEF k
<1>3. one.n = k /\ one.read = read /\ one.counted = counted /\ one \in Admission
  BY <1>1 DEF Admission
<1> HIDE DEF one
<1>4. one \notin all
  BY <1>1, <1>2, <1>3
<1>5. IsFiniteSet(more) /\ Cardinality(more) = k + 1
  BY <1>1, <1>4, FS_AddElement DEF k
<1>6. /\ Append(list, read) \in Seq(Nat) /\ Len(Append(list, read)) = Len(list) + 1
      /\ \A i \in 1 .. Len(list) : Append(list, read)[i] = list[i]
      /\ Append(list, read)[Len(list) + 1] = read
      /\ Len(list) \in Nat
  BY AppendProperties, LenProperties
<1>7. NumbersOK(more)
  <2>1. \A r \in more : r.n < k + 1
    BY <1>1, <1>2, <1>3
  <2>2. \A r, s \in more : r.n = s.n => r = s
    BY <1>1, <1>2, <1>3 DEF NumbersOK
  <2>3. \A n \in 0 .. k : \E r \in more : r.n = n
    <3> SUFFICES ASSUME NEW n \in 0 .. k, n # k PROVE \E r \in more : r.n = n
      BY <1>3
    <3>1. n \in 0 .. k - 1
      BY <1>1
    <3> QED
      BY <3>1 DEF NumbersOK, k
  <2>4. \A r, s \in more : r.n < s.n => r.counted <= s.counted
    <3> SUFFICES ASSUME NEW r \in more, NEW s \in more, r.n < s.n
                 PROVE  r.counted <= s.counted
      OBVIOUS
    <3>1. CASE s = one
      BY <1>1, <1>2, <1>3, <3>1
    <3>2. CASE s # one
      <4>1. s \in all /\ r \in all
        BY <1>1, <1>2, <1>3, <3>2
      <4> QED
        BY <4>1 DEF NumbersOK
    <3> QED
      BY <3>1, <3>2
  <2> HIDE DEF more
  <2>5. \A n \in 0 .. (k + 1) - 1 : \E r \in more : r.n = n
    BY <1>1, <2>3
  <2> QED
    BY <1>5, <2>1, <2>2, <2>4, <2>5 DEF NumbersOK
<1>8. TimesOK(more, Append(list, read), oldest)
  <2> DEFINE cut == k - Len(list)
  <2>1. cut >= 0 /\ cut \in Nat /\ (k + 1) - (Len(list) + 1) = cut
    BY <1>1, <1>6 DEF TimesOK, k
  <2>2. \A r \in all : /\ r.n >= cut => list[r.n - cut + 1] = r.read
                       /\ r.n < cut => r.read < oldest
    BY DEF TimesOK, k
  <2>3. \A r \in more : r.n >= cut => Append(list, read)[r.n - cut + 1] = r.read
    <3> SUFFICES ASSUME NEW r \in more, r.n >= cut
                 PROVE  Append(list, read)[r.n - cut + 1] = r.read
      OBVIOUS
    <3>1. CASE r = one
      BY <1>1, <1>3, <1>6, <3>1
    <3>2. CASE r \in all
      <4>1. r.n - cut + 1 \in 1 .. Len(list)
        BY <1>1, <1>2, <1>6, <2>1, <3>2
      <4> QED
        BY <1>6, <2>2, <3>2, <4>1
    <3> QED
      BY <3>1, <3>2
  <2>4. \A r \in more : r.n < cut => r.read < oldest
    BY <1>1, <1>3, <1>6, <2>2
  <2> HIDE DEF cut, more
  <2> QED
    BY <1>5, <1>6, <2>1, <2>3, <2>4 DEF TimesOK
<1> QED
  BY <1>3, <1>4, <1>6, <1>7, <1>8 DEF one, k

\* A list has the time of every request of the present window.
LEMMA WindowInList ==
  ASSUME NEW all \in SUBSET Admission, NumbersOK(all), NEW list \in Seq(Nat),
         NEW oldest \in Int, TimesOK(all, list, oldest), NEW to \in Int
  PROVE  /\ IsFiniteSet(Within(all, oldest, to))
         /\ Cardinality(Within(all, oldest, to)) <= Len(list)
<1> DEFINE k == Cardinality(all)
           cut == k - Len(list)
           W == Within(all, oldest, to)
           number == [r \in W |-> r.n]
<1>1. k \in Nat /\ Len(list) \in Nat /\ cut >= 0 /\ cut \in Nat
  BY FS_CardinalityType, LenProperties DEF NumbersOK, TimesOK
<1>2. W \subseteq all /\ \A r \in W : r.n \in cut .. k - 1
  <2>1. \A r \in W : r \in all /\ r.read >= oldest /\ r.read \in Nat /\ r.n \in Nat
    BY DEF Within, Admission
  <2>2. \A r \in all : r.n < k /\ (r.n < cut => r.read < oldest)
    BY DEF NumbersOK, TimesOK
  <2> HIDE DEF W, k
  <2> QED
    BY <1>1, <2>1, <2>2
<1>3. number \in Injection(W, cut .. k - 1)
  <2>1. \A r, s \in W : r.n = s.n => r = s
    BY <1>2 DEF NumbersOK
  <2> HIDE DEF W, k
  <2> QED
    BY <1>2, <2>1 DEF Injection, IsInjective
<1>4. IsFiniteSet(cut .. k - 1) /\ Cardinality(cut .. k - 1) = Len(list)
  <2> HIDE DEF k
  <2>1. cut \in Int /\ k - 1 \in Int
    BY <1>1
  <2>2. /\ IsFiniteSet(cut .. k - 1)
        /\ Cardinality(cut .. k - 1) = IF cut > k - 1 THEN 0 ELSE (k - 1) - cut + 1
    BY <2>1, FS_Interval
  <2> QED
    BY <1>1, <2>2
<1> HIDE DEF number, W, k
<1>5. IsFiniteSet(W) /\ Cardinality(W) <= Cardinality(cut .. k - 1)
  BY <1>3, <1>4, FS_Injection
<1> QED
  BY <1>4, <1>5 DEF W

\* When every request was counted at the time it had read, a list that begins
\* in the window holds nothing that is not of the window.
LEMMA ListInWindow ==
  ASSUME NEW all \in SUBSET Admission, NumbersOK(all), NEW list \in Seq(Nat),
         NEW oldest \in Int, TimesOK(all, list, oldest), NEW to \in Int,
         \A r \in all : Prompt(r) /\ r.read <= to,
         \A r \in all : r.n = Cardinality(all) - Len(list) => r.read >= oldest
  PROVE  Cardinality(Within(all, oldest, to)) >= Len(list)
<1> DEFINE k == Cardinality(all)
           cut == k - Len(list)
           W == Within(all, oldest, to)
           place == [n \in cut .. k - 1 |-> CHOOSE r \in all : r.n = n]
<1>1. k \in Nat /\ Len(list) \in Nat /\ cut >= 0 /\ cut \in Nat
  BY FS_CardinalityType, LenProperties DEF NumbersOK, TimesOK
<1>2. \A n \in cut .. k - 1 : place[n] \in all /\ place[n].n = n
  <2>1. \A n \in 0 .. k - 1 : \E r \in all : r.n = n
    BY DEF NumbersOK
  <2> HIDE DEF k
  <2> QED
    BY <1>1, <2>1
<1> HIDE DEF place
<1>3. \A n \in cut .. k - 1 : place[n] \in W
  <2> SUFFICES ASSUME NEW n \in cut .. k - 1 PROVE place[n] \in W
    OBVIOUS
  <2>1. cut \in cut .. k - 1 /\ n >= cut
    BY <1>1 DEF k
  <2> DEFINE first == place[cut]
             r == place[n]
  <2>2. first \in all /\ first.n = cut /\ r \in all /\ r.n = n
    BY <1>2, <2>1
  <2> HIDE DEF first, r
  <2>3. first.read >= oldest
    BY <2>2
  <2>4. first.counted <= r.counted
    <3>1. CASE n = cut
      BY <2>2, <3>1 DEF first, r, Admission
    <3>2. CASE n # cut
      <4>1. first.n < r.n
        BY <1>1, <2>1, <2>2, <3>2
      <4> QED
        BY <2>2, <4>1 DEF NumbersOK
    <3> QED
      BY <3>1, <3>2
  <2>5. /\ first.read = first.counted /\ r.read = r.counted /\ r.read <= to
        /\ r.read \in Nat /\ first.read \in Nat
    BY <2>2 DEF Prompt, Admission
  <2>6. r.read \in oldest .. to
    BY <2>3, <2>4, <2>5
  <2> QED
    BY <2>2, <2>5, <2>6 DEF Within, Prompt, r
<1>4. place \in Injection(cut .. k - 1, W)
  <2>1. place = [n \in cut .. k - 1 |-> place[n]]
    BY DEF place
  <2> HIDE DEF W, k
  <2> QED
    BY <1>2, <1>3, <2>1 DEF Injection, IsInjective
<1>5. IsFiniteSet(W)
  BY WindowInList
<1>6. Cardinality(cut .. k - 1) = Len(list)
  <2> HIDE DEF k
  <2>1. cut \in Int /\ k - 1 \in Int
    BY <1>1
  <2>2. /\ IsFiniteSet(cut .. k - 1)
        /\ Cardinality(cut .. k - 1) = IF cut > k - 1 THEN 0 ELSE (k - 1) - cut + 1
    BY <2>1, FS_Interval
  <2> QED
    BY <1>1, <2>2
<1> HIDE DEF W, k
<1>7. Cardinality(cut .. k - 1) <= Cardinality(W)
  BY <1>4, <1>5, FS_Injection
<1>8. Cardinality(W) \in Nat
  BY <1>5, FS_CardinalityType
<1> QED
  BY <1>1, <1>6, <1>7, <1>8 DEF W

-----------------------------------------------------------------------------
(* The actions.                                                            *)

\* A request that is counted is one that waits, and the others go on waiting.
LEMMA OthersWait ==
  ASSUME NEW S, NEW seq \in Seq(S), NEW i \in DOMAIN seq
  PROVE  LET rest == SubSeq(seq, 1, i - 1) \o SubSeq(seq, i + 1, Len(seq))
         IN  rest \in Seq(S) /\ \A j \in DOMAIN rest : \E m \in DOMAIN seq : rest[j] = seq[m]
<1> DEFINE E == {seq[m] : m \in DOMAIN seq}
           a == SubSeq(seq, 1, i - 1)
           b == SubSeq(seq, i + 1, Len(seq))
<1>1. DOMAIN seq = 1 .. Len(seq) /\ Len(seq) \in Nat /\ i \in 1 .. Len(seq)
      /\ \A m \in 1 .. Len(seq) : seq[m] \in E /\ seq[m] \in S
  BY LenProperties, ElementOfSeq
<1> HIDE DEF E
<1>2. a \in Seq(E)
  <2>1. 1 \in Int /\ i - 1 \in Int /\ \A m \in 1 .. i - 1 : seq[m] \in E
    BY <1>1
  <2> QED
    BY <2>1, SubSeqProperties
<1>3. b \in Seq(E)
  <2>1. i + 1 \in Int /\ Len(seq) \in Int /\ \A m \in i + 1 .. Len(seq) : seq[m] \in E
    BY <1>1
  <2> QED
    BY <2>1, SubSeqProperties
<1> HIDE DEF a, b
<1>4. a \o b \in Seq(E)
  BY <1>2, <1>3, ConcatProperties
<1>5. E \subseteq S
  BY <1>1 DEF E
<1>6. a \o b \in Seq(S)
  BY <1>4, <1>5, SeqMonotonic
<1>7. \A j \in DOMAIN (a \o b) : (a \o b)[j] \in E
  BY <1>4, LenProperties, ElementOfSeq
<1> QED
  BY <1>6, <1>7 DEF E, a, b

\* A request that is over the limit.
LEMMA RefuseStep ==
  ASSUME GatewayInv, NEW ip \in Address, NEW read \in Nat, read <= clock,
         NEW times, times = Pruned(windows[ip], read - RateWindow),
         Len(times) >= setting.rateLimit, setting.rateLimit > 0,
         windows' = [windows EXCEPT ![ip] = times], UNCHANGED <<setting, clock, admitted>>,
         refused' = {[ip |-> ip, read |-> read, counted |-> clock]}
  PROVE  /\ windows' \in [Address -> Seq(Nat)]
         /\ refused' \subseteq [ip : Address, read : Nat, counted : Nat]
         /\ ListOK' /\ SpanOK' /\ RefusedOK'
<1> DEFINE all == admitted[ip]
<1>1. /\ clock \in Nat /\ RateWindow \in Nat /\ setting.rateLimit \in Nat
      /\ windows[ip] \in Seq(Nat) /\ all \in SUBSET Admission
      /\ NumbersOK(all) /\ TimesOK(all, windows[ip], clock - RateWindow)
      /\ \A r \in all : r.read <= r.counted /\ r.counted <= clock
  BY GatewayConstantsOK DEF GatewayInv, GatewayTyping, ListOK
<1> HIDE DEF all
<1>2. clock - RateWindow \in Int /\ read - RateWindow \in Int
      /\ read - RateWindow <= clock - RateWindow
  BY <1>1
<1>3. /\ times \in Seq(Nat)
      /\ TimesOK(all, times, clock - RateWindow)
      /\ \A r \in all : r.n = Cardinality(all) - Len(times) => r.read >= read - RateWindow
  BY <1>1, <1>2, PruneKeeps
<1>4. windows' \in [Address -> Seq(Nat)]
  BY <1>3 DEF GatewayInv, GatewayTyping
<1>5. ListOK'
  <2> SUFFICES ASSUME NEW a \in Address
               PROVE  TimesOK(admitted[a], windows'[a], clock - RateWindow)
    BY DEF GatewayInv, ListOK
  <2>1. windows'[a] = IF a = ip THEN times ELSE windows[a]
    BY DEF GatewayInv, GatewayTyping
  <2> QED
    BY <1>3, <2>1 DEF GatewayInv, ListOK, all
<1>6. SpanOK'
  BY DEF GatewayInv, SpanOK
<1>7. ASSUME read = clock, \A m \in all : Prompt(m)
      PROVE  Cardinality(Within(all, read - RateWindow, read)) = setting.rateLimit
  <2> DEFINE t == read - RateWindow
  <2>1. t \in Int /\ t + RateWindow = read
    BY <1>1
  <2>2. Cardinality(Within(all, t, t + RateWindow)) <= setting.rateLimit
    BY <2>1 DEF GatewayInv, SpanOK, all
  <2>3. \A r \in all : Prompt(r) /\ r.read <= clock
    BY <1>1, <1>7 DEF Admission
  <2>4. t = clock - RateWindow
    BY <1>7
  <2>5. \A r \in all : r.n = Cardinality(all) - Len(times) => r.read >= t
    BY <1>3
  <2> HIDE DEF t
  <2>6. t \in Int /\ TimesOK(all, times, t) /\ clock \in Int
    BY <1>1, <1>2, <1>3, <2>4
  <2>7. Cardinality(Within(all, t, clock)) >= Len(times)
    BY <1>1, <1>3, <2>3, <2>5, <2>6, ListInWindow
  <2>8. IsFiniteSet(Within(all, t, clock))
    BY <1>1, <1>3, <2>6, WindowInList
  <2>9. Cardinality(Within(all, t, clock)) \in Nat /\ Len(times) \in Nat
    BY <1>3, <2>8, FS_CardinalityType, LenProperties
  <2>10. Cardinality(Within(all, t, clock)) <= setting.rateLimit
    BY <1>7, <2>1, <2>2
  <2>11. Cardinality(Within(all, t, clock)) = setting.rateLimit
    BY <1>1, <2>7, <2>9, <2>10
  <2> QED
    BY <1>7, <2>11 DEF t
<1>8. RefusedOK'
  BY <1>7 DEF RefusedOK, Prompt, all
<1> QED
  BY <1>1, <1>4, <1>5, <1>6, <1>8

\* A request that is let in.
LEMMA AdmitStep ==
  ASSUME GatewayInv, NEW ip \in Address, NEW read \in Nat, read <= clock,
         NEW times, times = Pruned(windows[ip], read - RateWindow),
         Len(times) < setting.rateLimit,
         windows' = [windows EXCEPT ![ip] = Append(times, read)],
         admitted' = [admitted EXCEPT ![ip] = admitted[ip] \cup
                {[read |-> read, counted |-> clock, n |-> Cardinality(admitted[ip])]}],
         UNCHANGED <<setting, clock>>, refused' = {}
  PROVE  /\ windows' \in [Address -> Seq(Nat)]
         /\ admitted' \in [Address -> SUBSET Admission]
         /\ ListOK' /\ SpanOK' /\ RefusedOK'
<1> DEFINE all == admitted[ip]
           one == [read |-> read, counted |-> clock, n |-> Cardinality(all)]
           more == all \cup {one}
<1>1. /\ clock \in Nat /\ RateWindow \in Nat /\ setting.rateLimit \in Nat
      /\ windows[ip] \in Seq(Nat) /\ all \in SUBSET Admission
      /\ NumbersOK(all) /\ TimesOK(all, windows[ip], clock - RateWindow)
      /\ \A r \in all : r.read <= r.counted /\ r.counted <= clock
  BY GatewayConstantsOK DEF GatewayInv, GatewayTyping, ListOK
<1>a. admitted' = [admitted EXCEPT ![ip] = more] /\ one.read = read /\ one.counted = clock
  OBVIOUS
<1> HIDE DEF all
<1>2. clock - RateWindow \in Int /\ read - RateWindow \in Int
      /\ read - RateWindow <= clock - RateWindow
  BY <1>1
<1>3. /\ times \in Seq(Nat)
      /\ TimesOK(all, times, clock - RateWindow)
  BY <1>1, <1>2, PruneKeeps
<1>4. /\ more \in SUBSET Admission
      /\ Append(times, read) \in Seq(Nat)
      /\ NumbersOK(more)
      /\ TimesOK(more, Append(times, read), clock - RateWindow)
      /\ one \notin all
  BY <1>1, <1>2, <1>3, OneMore
<1> HIDE DEF one, more
<1>5. /\ windows' \in [Address -> Seq(Nat)]
      /\ admitted' \in [Address -> SUBSET Admission]
  BY <1>a, <1>4 DEF GatewayInv, GatewayTyping
<1>6. \A a \in Address : /\ windows'[a] = IF a = ip THEN Append(times, read) ELSE windows[a]
                         /\ admitted'[a] = IF a = ip THEN more ELSE admitted[a]
  BY <1>a DEF GatewayInv, GatewayTyping
<1>7. ListOK'
  <2> SUFFICES ASSUME NEW a \in Address
               PROVE  /\ NumbersOK(admitted'[a])
                      /\ TimesOK(admitted'[a], windows'[a], clock - RateWindow)
                      /\ \A r \in admitted'[a] : r.read <= r.counted /\ r.counted <= clock
    BY DEF ListOK
  <2>1. CASE a = ip
    <3>1. \A r \in more : r.read <= r.counted /\ r.counted <= clock
      BY <1>1, <1>a DEF more
    <3> QED
      BY <1>4, <1>6, <2>1, <3>1
  <2>2. CASE a # ip
    BY <1>6, <2>2 DEF GatewayInv, ListOK
  <2> QED
    BY <2>1, <2>2
<1>8. ASSUME NEW t \in Int
      PROVE  Cardinality(Within(more, t, t + RateWindow)) <= setting.rateLimit
  <2> DEFINE before == Within(all, t, t + RateWindow)
  <2>1. CASE one \notin Within(more, t, t + RateWindow)
    <3>1. Within(more, t, t + RateWindow) = before
      BY <2>1 DEF Within, more
    <3>2. setting.rateLimit > 0
      <4>1. Len(times) \in Nat
        BY <1>3, LenProperties
      <4> QED
        BY <1>1, <4>1
    <3> QED
      BY <3>1, <3>2 DEF GatewayInv, SpanOK, all
  <2>2. CASE one \in Within(more, t, t + RateWindow)
    <3>1. read = clock /\ t <= clock /\ clock <= t + RateWindow
      BY <1>1, <1>a, <2>2 DEF Within, Prompt
    <3>2. before \subseteq Within(all, clock - RateWindow, clock)
      <4> SUFFICES ASSUME NEW r \in before PROVE r.read \in clock - RateWindow .. clock
        BY DEF Within
      <4>1. r \in all /\ r.read \in t .. t + RateWindow /\ r.read \in Nat /\ r.counted \in Nat
        BY <1>1 DEF Within, Admission
      <4>2. r.read <= clock
        BY <1>1, <4>1
      <4> QED
        BY <1>1, <3>1, <4>1, <4>2
    <3>3. /\ IsFiniteSet(Within(all, clock - RateWindow, clock))
          /\ Cardinality(Within(all, clock - RateWindow, clock)) <= Len(times)
      BY SMTT(60), <1>1, <1>2, <1>3, WindowInList
    <3>4. IsFiniteSet(before) /\ Cardinality(before) <= Cardinality(Within(all, clock - RateWindow, clock))
      BY <3>2, <3>3, FS_Subset
    <3>5. Within(more, t, t + RateWindow) = before \cup {one} /\ one \notin before
      BY <1>4, <2>2 DEF Within, more
    <3> HIDE DEF before
    <3>6. Cardinality(before \cup {one}) = Cardinality(before) + 1
      BY <3>4, <3>5, FS_AddElement
    <3>7. /\ Len(times) \in Nat /\ Cardinality(before) \in Nat
          /\ Cardinality(Within(all, clock - RateWindow, clock)) \in Nat
      BY <1>3, <3>3, <3>4, LenProperties, FS_CardinalityType
    <3> QED
      <4>1. Cardinality(before) + 1 <= setting.rateLimit
        BY <1>1, <3>3, <3>4, <3>7
      <4> QED
        BY <3>5, <3>6, <4>1
  <2> QED
    BY <2>1, <2>2
<1>9. SpanOK'
  <2> SUFFICES ASSUME setting.rateLimit > 0, NEW a \in Address, NEW t \in Int
               PROVE  Cardinality(Within(admitted'[a], t, t + RateWindow)) <= setting.rateLimit
    BY DEF SpanOK
  <2>1. CASE a = ip
    BY <1>6, <1>8, <2>1
  <2>2. CASE a # ip
    BY <1>6, <2>2 DEF GatewayInv, SpanOK
  <2> QED
    BY <2>1, <2>2
<1>10. RefusedOK'
  BY DEF RefusedOK
<1> QED
  BY <1>5, <1>7, <1>9, <1>10

\* Each step keeps the invariant.
LEMMA GatewayStep == GatewayInv /\ [GatewayNext]_gatewayVars => GatewayInv'
<1> SUFFICES ASSUME GatewayInv, [GatewayNext]_gatewayVars PROVE GatewayInv'
  OBVIOUS
<1> USE DEF gatewayVars
<1>a. ASSUME UNCHANGED <<setting, windows, admitted, refused>>,
             NEW later \in Nat, clock' = later, clock <= later
      PROVE  ListOK' /\ SpanOK' /\ RefusedOK'
  <2>1. ListOK'
    <3> SUFFICES ASSUME NEW a \in Address
                 PROVE  /\ NumbersOK(admitted[a])
                        /\ TimesOK(admitted[a], windows[a], later - RateWindow)
                        /\ \A r \in admitted[a] : r.read <= r.counted /\ r.counted <= later
      BY <1>a DEF ListOK
    <3>1. /\ admitted[a] \in SUBSET Admission /\ clock \in Nat
          /\ NumbersOK(admitted[a])
          /\ TimesOK(admitted[a], windows[a], clock - RateWindow)
          /\ \A r \in admitted[a] : r.read <= r.counted /\ r.counted <= clock
      BY DEF GatewayInv, GatewayTyping, ListOK
    <3>2. /\ clock - RateWindow \in Int /\ later - RateWindow \in Int
          /\ clock - RateWindow <= later - RateWindow
      <4>1. RateWindow \in Nat
        BY GatewayConstantsOK
      <4> QED
        BY <1>a, <3>1, <4>1
    <3>3. TimesOK(admitted[a], windows[a], later - RateWindow)
      BY <3>1, <3>2, LaterOK
    <3>4. \A r \in admitted[a] : r.counted \in Nat /\ r.counted <= later
      BY <1>a, <3>1 DEF Admission
    <3> QED
      BY <3>1, <3>3, <3>4
  <2>2. SpanOK' /\ RefusedOK'
    BY <1>a DEF GatewayInv, SpanOK, RefusedOK
  <2> QED
    BY <2>1, <2>2
<1>1. CASE Tick
  <2>1. /\ UNCHANGED <<setting, arrived, windows, admitted, refused>> /\ clock' = clock + 1
        /\ clock' \in Nat /\ clock <= clock'
    BY <1>1 DEF Tick, GatewayInv, GatewayTyping
  <2>2. GatewayTyping'
    BY <2>1 DEF GatewayInv, GatewayTyping, InFlight
  <2>3. \A i \in DOMAIN arrived : arrived[i].read \in Nat
    <3>1. DOMAIN arrived = 1 .. Len(arrived) /\ \A i \in 1 .. Len(arrived) : arrived[i] \in InFlight
      BY LenProperties, ElementOfSeq DEF GatewayInv, GatewayTyping
    <3> QED
      BY <3>1 DEF InFlight
  <2>4. ReadOK'
    BY <2>1, <2>3 DEF GatewayInv, GatewayTyping, ReadOK
  <2> QED
    BY <1>a, <2>1, <2>2, <2>4 DEF GatewayInv
<1>2. ASSUME NEW q \in Sends[setting], Arrives(q) PROVE GatewayInv'
  <2>1. UNCHANGED <<setting, clock, windows, admitted, refused>> /\ clock \in Nat
    BY <1>2 DEF Arrives, GatewayInv, GatewayTyping
  <2>2. arrived' \in Seq(InFlight) /\ ReadOK'
    <3>1. CASE arrived' = arrived
      BY <2>1, <3>1 DEF GatewayInv, GatewayTyping, ReadOK
    <3>2. CASE arrived' = Append(arrived, [q |-> q, read |-> clock])
      <4>1. [q |-> q, read |-> clock] \in InFlight /\ arrived \in Seq(InFlight)
        BY <1>2, <2>1 DEF GatewayInv, GatewayTyping, InFlight
      <4> DEFINE r == [q |-> q, read |-> clock]
      <4>2. r.read = clock
        OBVIOUS
      <4> HIDE DEF r
      <4>3. /\ arrived' \in Seq(InFlight) /\ Len(arrived') = Len(arrived) + 1
            /\ \A i \in 1 .. Len(arrived) : arrived'[i] = arrived[i]
            /\ arrived'[Len(arrived) + 1] = r
        BY <3>2, <4>1, AppendProperties DEF r
      <4>4. /\ DOMAIN arrived = 1 .. Len(arrived) /\ DOMAIN arrived' = 1 .. Len(arrived')
            /\ Len(arrived) \in Nat
        BY <4>1, <4>3, LenProperties
      <4>5. \A i \in DOMAIN arrived' : arrived'[i].read <= clock
        BY <2>1, <4>2, <4>3, <4>4 DEF GatewayInv, ReadOK
      <4> QED
        BY <2>1, <4>3, <4>5 DEF ReadOK
    <3> QED
      BY <1>2, <3>1, <3>2 DEF Arrives
  <2>3. GatewayTyping'
    BY <2>1, <2>2 DEF GatewayInv, GatewayTyping, InFlight
  <2> QED
    BY <1>a, <2>1, <2>2, <2>3 DEF GatewayInv
<1>3. ASSUME NEW i \in DOMAIN arrived, Counts(i) PROVE GatewayInv'
  <2> DEFINE r == arrived[i]
             ip == ClientIP(setting, r.q)
             times == Pruned(windows[ip], r.read - RateWindow)
  <2>1. UNCHANGED <<setting, clock>> /\ setting \in Setting /\ clock \in Nat
    BY <1>3 DEF Counts, GatewayInv, GatewayTyping
  <2>2. r \in InFlight /\ r.q \in Sends[setting] /\ r.read \in Nat /\ r.read <= clock
    <3>1. r \in InFlight /\ r.read <= clock
      BY <1>3, LenProperties, ElementOfSeq DEF GatewayInv, GatewayTyping, ReadOK
    <3> QED
      BY <3>1 DEF InFlight
  <2>3. ip \in Address
    <3>1. r.q \in HttpRequest
      BY <2>1, <2>2, RequestsOK DEF Setting
    <3> QED
      BY <3>1 DEF ClientIP, HttpRequest
  <2>4. arrived' \in Seq(InFlight) /\ ReadOK'
    <3>1. /\ arrived' \in Seq(InFlight)
          /\ \A j \in DOMAIN arrived' : \E m \in DOMAIN arrived : arrived'[j] = arrived[m]
      BY ZenonT(120), <1>3, OthersWait DEF Counts, GatewayInv, GatewayTyping
    <3> QED
      BY <2>1, <3>1 DEF GatewayInv, ReadOK
  <2>5. CASE UNCHANGED <<windows, admitted, refused>>
    <3>1. ListOK' /\ SpanOK' /\ RefusedOK'
      BY <1>a, <2>1, <2>5
    <3> QED
      BY <2>1, <2>4, <2>5, <3>1 DEF GatewayInv, GatewayTyping, InFlight
  <2>6. CASE AllowRequest(r) /\ setting.rateLimit # 0
    <3>1. setting.rateLimit \in Nat /\ setting.rateLimit > 0
      BY <2>1, <2>6, GatewayConstantsOK
    <3>2. Len(times) \in Nat
      <4>1. windows[ip] \in Seq(Nat) /\ r.read - RateWindow \in Int
        BY <2>2, <2>3, GatewayConstantsOK DEF GatewayInv, GatewayTyping
      <4>2. NumbersOK(admitted[ip]) /\ TimesOK(admitted[ip], windows[ip], clock - RateWindow)
            /\ admitted[ip] \in SUBSET Admission
        BY <2>3 DEF GatewayInv, GatewayTyping, ListOK
      <4>3. clock - RateWindow \in Int /\ r.read - RateWindow <= clock - RateWindow
        BY <2>1, <2>2, GatewayConstantsOK
      <4> HIDE DEF ip, r
      <4> QED
        BY <4>1, <4>2, <4>3, PruneKeeps, LenProperties
    <3>3. CASE Len(times) >= setting.rateLimit
      <4>1. /\ windows' = [windows EXCEPT ![ip] = times]
            /\ UNCHANGED admitted
            /\ refused' = {[ip |-> ip, read |-> r.read, counted |-> clock]}
        <5>1. admitted' = [admitted EXCEPT ![ip] = admitted[ip]]
          BY <2>6, <3>3 DEF AllowRequest
        <5>2. admitted' = admitted
          BY <5>1 DEF GatewayInv, GatewayTyping
        <5> QED
          BY <2>6, <3>3, <5>2 DEF AllowRequest
      <4> HIDE DEF times, ip, r
      <4>2. times = Pruned(windows[ip], r.read - RateWindow)
        BY DEF times
      <4>3. /\ windows' \in [Address -> Seq(Nat)]
            /\ refused' \subseteq [ip : Address, read : Nat, counted : Nat]
            /\ ListOK' /\ SpanOK' /\ RefusedOK'
        BY <2>1, <2>2, <2>3, <3>1, <3>3, <4>1, <4>2, RefuseStep
      <4> QED
        BY <2>1, <2>4, <4>1, <4>3 DEF GatewayInv, GatewayTyping, InFlight
    <3>4. CASE Len(times) < setting.rateLimit
      <4>1. /\ windows' = [windows EXCEPT ![ip] = Append(times, r.read)]
            /\ admitted' = [admitted EXCEPT ![ip] = admitted[ip] \cup
                    {[read |-> r.read, counted |-> clock, n |-> Cardinality(admitted[ip])]}]
            /\ refused' = {}
        <5>1. ~ (Len(times) >= setting.rateLimit)
          BY <3>1, <3>2, <3>4
        <5> QED
          BY <2>6, <5>1 DEF AllowRequest
      <4> HIDE DEF times, ip, r
      <4>2. times = Pruned(windows[ip], r.read - RateWindow)
        BY DEF times
      <4>3. /\ windows' \in [Address -> Seq(Nat)]
            /\ admitted' \in [Address -> SUBSET Admission]
            /\ ListOK' /\ SpanOK' /\ RefusedOK'
        BY <2>1, <2>2, <2>3, <3>4, <4>1, <4>2, AdmitStep
      <4> QED
        BY <2>1, <2>4, <4>1, <4>3 DEF GatewayInv, GatewayTyping, InFlight
    <3> QED
      BY <3>1, <3>2, <3>3, <3>4
  <2> QED
    BY <1>3, <2>5, <2>6 DEF Counts
<1>4. CASE UNCHANGED gatewayVars
  <2>1. ListOK' /\ SpanOK' /\ RefusedOK'
    BY <1>a, <1>4 DEF GatewayInv, GatewayTyping
  <2> QED
    BY <1>4, <2>1 DEF GatewayInv, GatewayTyping, ReadOK, InFlight
<1> QED
  BY <1>1, <1>2, <1>3, <1>4 DEF GatewayNext

\* Nobody has come yet.
LEMMA GatewayStarts == GatewayInit => GatewayInv
<1> SUFFICES ASSUME GatewayInit PROVE GatewayInv
  OBVIOUS
<1>1. <<>> \in Seq(InFlight) /\ <<>> \in Seq(Nat) /\ DOMAIN <<>> = {} /\ Len(<<>>) = 0
  BY EmptySeq, LenProperties
<1>2. IsFiniteSet({}) /\ Cardinality({}) = 0
  BY FS_EmptySet
<1>3. GatewayTyping
  BY <1>1 DEF GatewayInit, GatewayTyping
<1>4. ReadOK /\ RefusedOK
  BY <1>1 DEF GatewayInit, ReadOK, RefusedOK
<1>5. ListOK
  <2>1. NumbersOK({}) /\ TimesOK({}, <<>>, clock - RateWindow)
    BY <1>1, <1>2 DEF NumbersOK, TimesOK
  <2> QED
    BY <2>1 DEF GatewayInit, ListOK
<1>6. SpanOK
  <2> SUFFICES ASSUME setting.rateLimit > 0, NEW a \in Address, NEW t \in Int
               PROVE  Cardinality(Within(admitted[a], t, t + RateWindow)) <= setting.rateLimit
    BY DEF SpanOK
  <2>1. Within(admitted[a], t, t + RateWindow) = {}
    BY DEF GatewayInit, Within
  <2>2. setting.rateLimit \in Nat
    BY GatewayConstantsOK DEF GatewayInit
  <2> QED
    BY <1>2, <2>1, <2>2
<1> QED
  BY <1>3, <1>4, <1>5, <1>6 DEF GatewayInv

-----------------------------------------------------------------------------
(***************************************************************************)
(* What the gateway remembers of the requests that it let in is enough to  *)
(* judge the next one, however late a request is counted.                  *)
(***************************************************************************)
THEOREM GatewayCorrect == GatewayInit /\ [][GatewayNext]_gatewayVars => []GatewayInv
BY GatewayStarts, GatewayStep, PTL

(***************************************************************************)
(* AdmissionIsExact: no span of the rate window has more than the limit of *)
(* one address' requests let in, and a request is refused only when the    *)
(* window before it is full.                                               *)
(***************************************************************************)
THEOREM AdmissionExact == GatewayInit /\ [][GatewayNext]_gatewayVars => []AdmissionIsExact
<1>1. GatewayInv => AdmissionIsExact
  <2> SUFFICES ASSUME GatewayInv PROVE AdmissionIsExact
    OBVIOUS
  <2>1. \A all, from, to : Within(all, from, to) =
            {r \in all : r.read = r.counted /\ r.read \in from .. to}
    BY DEF Within, Prompt
  <2>2. 0 .. LastTick \subseteq Int
    BY GatewayConstantsOK
  <2> QED
    BY <2>1, <2>2 DEF GatewayInv, SpanOK, RefusedOK, AdmissionIsExact, Prompt
<1> QED
  BY <1>1, GatewayCorrect, PTL

-----------------------------------------------------------------------------
(* What a request is answered.                                             *)

\* The same request with another verb.
As(q, m) == [q EXCEPT !.method = m]

Verbs == {"GET", "HEAD", "POST", "PUT", "DELETE"}

\* A request has its fields.
RequestFields ==
    {"method", "under", "at", "authorization", "peer", "forwardedFor", "forwardedPrefix",
     "gzip", "cached", "args", "body", "fails", "does"}

Shaped(q) ==
    /\ DOMAIN q = RequestFields /\ q = [f \in RequestFields |-> q[f]]
    /\ q.does \in {"fails", "says why", "says what next", "nothing", "answers"}

\* Requests that differ in nothing that a route looks at.
Alike(q, r) ==
    /\ Verb(q) = Verb(r) /\ q.under = r.under /\ q.at = r.at
    /\ q.args = r.args /\ q.body = r.body /\ q.cached = r.cached
    /\ q.fails = r.fails /\ q.does = r.does /\ q.gzip = r.gzip

\* A reply does not say that there can be no stream.
Plain(reply) == reply.says[1] # "error" \/ reply.says[2] # "streaming_unsupported"

\* Requests that are alike are answered alike by whatever the routes lead to.
LEMMA AlikeDispatched ==
  ASSUME NEW s, NEW table, NEW q, NEW r, Alike(q, r),
         EffectivePrefix(s, q) = EffectivePrefix(s, r)
  PROVE  Dispatch(s, table, q) = Dispatch(s, table, r)
<1>1. /\ Verb(q) = Verb(r) /\ q.under = r.under /\ q.at = r.at /\ q.args = r.args
      /\ q.body = r.body /\ q.cached = r.cached /\ q.fails = r.fails /\ q.does = r.does
  BY DEF Alike
<1>2. Asset(q) = Asset(r)
  BY <1>1 DEF Asset
<1>3. Payload(s, table, q) = Payload(s, table, r)
  BY <1>1 DEF Payload
<1>5. Endpoint(s, table, q) = Endpoint(s, table, r)
  BY <1>1, <1>2, <1>3 DEF Endpoint, ReadsDatabase
<1>6. CallTool(q) = CallTool(r)
  BY <1>1 DEF CallTool
<1>7. AtTool(q) <=> AtTool(r)
  BY <1>1 DEF AtTool
<1> QED
  BY ZenonT(120), <1>1, <1>5, <1>6, <1>7 DEF Dispatch

\* A request has its fields.
LEMMA RequestsShaped ==
  ASSUME NEW q \in HttpRequest
  PROVE  Shaped(q)
BY DEF HttpRequest, Shaped, RequestFields

\* And has them when one of them has another value.
LEMMA StillShaped ==
  ASSUME NEW q, Shaped(q), NEW x
  PROVE  /\ Shaped([q EXCEPT !.method = x]) /\ Shaped([q EXCEPT !.under = x])
         /\ Shaped([q EXCEPT !.at = x]) /\ Shaped([q EXCEPT !.args = x])
BY DEF Shaped, RequestFields

\* Taking the prefix off changes only where a request goes.
StripsTo(s, q, z) ==
    /\ z.method = q.method /\ z.args = q.args /\ z.body = q.body
    /\ z.cached = q.cached /\ z.fails = q.fails /\ z.does = q.does
    /\ z.gzip = q.gzip /\ z.forwardedPrefix = q.forwardedPrefix
    /\ EffectivePrefix(s, z) = EffectivePrefix(s, q) /\ Shaped(z)
    /\ z.under = IF q.under = EffectivePrefix(s, q) THEN NoPrefix ELSE q.under
    /\ z.at = IF q.under # NoPrefix /\ q.under = EffectivePrefix(s, q) /\ q.at = "" THEN "/"
              ELSE q.at

\* So it does, whatever the flags.
LEMMA StrippedKeeps ==
  ASSUME NEW s, NEW q, Shaped(q)
  PROVE  StripsTo(s, q, Stripped(s, q))
<1> DEFINE z == Stripped(s, q)
<1>1. CASE q.under # NoPrefix /\ q.under = EffectivePrefix(s, q)
  <2> DEFINE at == IF q.at = "" THEN "/" ELSE q.at
  <2>1. z = [q EXCEPT !.under = NoPrefix, !.at = at]
    BY <1>1 DEF Stripped
  <2> HIDE DEF z, at
  <2>2. /\ z.method = q.method /\ z.args = q.args /\ z.body = q.body
        /\ z.cached = q.cached /\ z.fails = q.fails /\ z.does = q.does
        /\ z.gzip = q.gzip /\ z.forwardedPrefix = q.forwardedPrefix
        /\ z.under = NoPrefix /\ z.at = at /\ Shaped(z)
    BY <2>1 DEF Shaped, RequestFields
  <2>3. EffectivePrefix(s, z) = EffectivePrefix(s, q)
    BY <2>2 DEF EffectivePrefix
  <2> QED
    BY <1>1, <2>2, <2>3 DEF z, at, StripsTo
<1>2. CASE ~ (q.under # NoPrefix /\ q.under = EffectivePrefix(s, q))
  <2>1. z = q
    BY <1>2 DEF Stripped
  <2> QED
    BY <1>2, <2>1 DEF StripsTo
<1> QED
  BY <1>1, <1>2

\* Nor does another verb.
GoesWith(s, q, m, p, z, y) ==
    /\ Shaped(p) /\ p.method = m
    /\ y.method = m /\ y.under = z.under /\ y.at = z.at /\ y.args = z.args
    /\ y.body = z.body /\ y.cached = z.cached /\ y.fails = z.fails
    /\ y.does = z.does /\ y.gzip = z.gzip /\ Shaped(y)
    /\ EffectivePrefix(s, y) = EffectivePrefix(s, z)
    /\ Authorized(s, p) <=> Authorized(s, q)

\* A request with another verb m goes where the one it is made of goes.
LEMMA StrippedAs ==
  ASSUME NEW s, NEW q, Shaped(q), NEW m
  PROVE  GoesWith(s, q, m, As(q, m), Stripped(s, q), Stripped(s, As(q, m)))
<1>1. Shaped(As(q, m))
  BY StillShaped DEF As
<1> DEFINE p == As(q, m)
<1>2. /\ p.method = m /\ p.under = q.under /\ p.at = q.at /\ p.args = q.args
      /\ p.body = q.body /\ p.cached = q.cached /\ p.fails = q.fails
      /\ p.does = q.does /\ p.gzip = q.gzip /\ p.forwardedPrefix = q.forwardedPrefix
      /\ p.authorization = q.authorization
  BY DEF As, Shaped, RequestFields
<1> HIDE DEF p
<1>3. EffectivePrefix(s, p) = EffectivePrefix(s, q)
  BY <1>2 DEF EffectivePrefix
<1>4. Authorized(s, p) <=> Authorized(s, q)
  BY <1>2 DEF Authorized, IsPublicProbe
<1>5. Shaped(p)
  BY <1>1 DEF p
<1> DEFINE z == Stripped(s, q)
           y == Stripped(s, p)
<1>6. StripsTo(s, q, z)
  BY StrippedKeeps
<1>7. StripsTo(s, p, y)
  BY <1>5, StrippedKeeps
<1> HIDE DEF y, z
<1>8. /\ y.method = m /\ y.under = z.under /\ y.at = z.at /\ y.args = z.args
      /\ y.body = z.body /\ y.cached = z.cached /\ y.fails = z.fails
      /\ y.does = z.does /\ y.gzip = z.gzip
      /\ EffectivePrefix(s, y) = EffectivePrefix(s, z) /\ Shaped(y)
  BY <1>2, <1>3, <1>6, <1>7 DEF StripsTo
<1>9. GoesWith(s, q, m, p, z, y)
  BY <1>2, <1>4, <1>5, <1>8 DEF GoesWith
<1> QED
  BY <1>9 DEF p, y, z

-----------------------------------------------------------------------------
(* Which verbs are served.                                                 *)

\* A database that fails, a payload or a page: none says that the address or
\* the verb is unknown.
LEMMA EndpointServes ==
  ASSUME NEW s, NEW table, NEW q, <<Verb(q), q.at>> \in Endpoints
  PROVE  LET e == Endpoint(s, table, q) IN
         /\ e.status \in {200, 304, 400, 500} /\ Plain(e)
         /\ e.says[1] \notin {"stream", "mcp"}
<1>1. Payload(s, table, q)[1] \notin {"error", "stream", "mcp"}
  <2>1. CASE q.at \in {"health", "stats", "bench-results", "projects/empty"}
    BY <2>1 DEF Payload
  <2>2. CASE q.at \in {"tool-call-stats", "tool-tier-stats", "tool-payload-stats"}
    BY <2>2 DEF Payload, Tallies
  <2>3. CASE q.at = "sessions"
    BY <2>3 DEF Payload, SessionsPage
  <2>4. CASE q.at = "projects"
    <3>1. Verb(q) = "GET" \/ Verb(q) = "DELETE"
      BY <2>4 DEF Endpoints
    <3> QED
      BY <2>4, <3>1 DEF Payload, ProjectsPage
  <2>5. CASE q.at \in {"dashboard", "dashboard.js", "dashboard.css", "hook-stats",
                       "openapi.json", "ready", "metrics", "capabilities", "index-progress"}
    BY <2>5 DEF Payload
  <2> QED
    BY <2>1, <2>2, <2>3, <2>4, <2>5 DEF Endpoints, HttpGetOnlyRoutes
<1>2. Asset(q).status \in {200, 304} /\ Asset(q).says[1] \in {"unchanged", "asset"}
  BY DEF Asset, Says
<1>3. IndexProgress(q.args).status = 200 /\ IndexProgress(q.args).says[1] = "progress"
  BY DEF IndexProgress, Says
<1>4. /\ Refuses(400, "bad_request").status = 400
      /\ Refuses(400, "bad_request").says = <<"error", "bad_request">>
      /\ Refuses(500, "internal_error").status = 500
      /\ Refuses(500, "internal_error").says = <<"error", "internal_error">>
  BY DEF Refuses, Says
<1>5. /\ Says(200, Payload(s, table, q)).status = 200
      /\ Says(200, Payload(s, table, q)).says = Payload(s, table, q)
  BY DEF Says
<1>6. \/ Endpoint(s, table, q) = Asset(q)
      \/ Endpoint(s, table, q) = IndexProgress(q.args)
      \/ Endpoint(s, table, q) = Refuses(400, "bad_request")
      \/ Endpoint(s, table, q) = Refuses(500, "internal_error")
      \/ Endpoint(s, table, q) = Says(200, Payload(s, table, q))
  BY DEF Endpoint
<1> QED
  BY <1>1, <1>2, <1>3, <1>4, <1>5, <1>6 DEF Plain

\* Nor does a tool, however its handler ends.
LEMMA ToolServes ==
  ASSUME NEW q, Shaped(q)
  PROVE  LET c == CallTool(q) IN
         /\ c.status \in {200, 400, 500} /\ Plain(c)
         /\ c.says[1] \notin {"stream", "mcp"}
<1>1. q.does \in {"fails", "says why", "says what next", "nothing", "answers"}
  BY DEF Shaped
<1> DEFINE refusal(status, code) ==
              /\ Refuses(status, code).status = status
              /\ Refuses(status, code).says = <<"error", code>>
<1>2. /\ refusal(400, "invalid_json_body") /\ refusal(500, "internal_error")
      /\ refusal(400, "tool_error")
  BY DEF Refuses, Says
<1> DEFINE what == Says(400, <<"error", "tool_error", "next_steps">>)
           result == Says(200, <<"result", q.at>>)
<1>3. /\ what.status = 400 /\ what.says[1] = "error" /\ what.says[2] = "tool_error"
      /\ result.status = 200 /\ result.says[1] = "result"
  BY DEF Says
<1> HIDE DEF what, result
<1>4. \/ CallTool(q) = Refuses(400, "invalid_json_body")
      \/ CallTool(q) = Refuses(500, "internal_error")
      \/ CallTool(q) = Refuses(400, "tool_error")
      \/ CallTool(q) = what
      \/ CallTool(q) = result
  <2>1. CASE q.body = "malformed"
    BY <2>1 DEF CallTool
  <2>2. CASE q.body # "malformed" /\ q.does = "fails"
    BY <2>2 DEF CallTool
  <2>3. CASE q.body # "malformed" /\ q.does = "says why"
    BY ZenonT(60), <2>3 DEF CallTool
  <2>4. CASE q.body # "malformed" /\ q.does = "says what next"
    BY <2>4 DEF CallTool, what
  <2>5. CASE q.body # "malformed" /\ q.does = "nothing"
    BY <2>5 DEF CallTool
  <2>6. CASE q.body # "malformed" /\ q.does = "answers"
    BY <2>6 DEF CallTool, result
  <2> QED
    BY <1>1, <2>1, <2>2, <2>3, <2>4, <2>5, <2>6
<1> QED
  BY <1>2, <1>3, <1>4 DEF Plain

\* What is known of an address, once the prefix is off.
Gets(at, v) ==
    IF at \in HttpGetOnlyRoutes THEN v = "GET"
    ELSE \/ at = "/" /\ v = "GET"
         \/ <<v, at>> \in Endpoints
         \/ at \in Tools /\ v = "POST"

\* What is no tool is in one of the lists.
LEMMA EndpointsNamed ==
  \A at, v : <<v, at>> \in Endpoints => at \in HttpGetOnlyRoutes \cup Unlisted
BY DEF Endpoints, HttpGetOnlyRoutes, Unlisted

\* The routes that are only read, and what the lists do not have.
LEMMA EndpointsAre ==
  ASSUME NEW at, NEW v
  PROVE  /\ <<v, at>> \in Endpoints => at \in HttpGetOnlyRoutes \cup Unlisted
         /\ at \in HttpGetOnlyRoutes => (<<v, at>> \in Endpoints <=> v = "GET")
         /\ "/" \notin HttpGetOnlyRoutes /\ <<v, "/">> \notin Endpoints
         /\ "events" \notin HttpGetOnlyRoutes \cup Unlisted
BY DEF Endpoints, HttpGetOnlyRoutes, Unlisted

\* A verb v is served where it goes, or refused for itself or the address.
DispatchFits(d, q, v) ==
    /\ q.under # NoPrefix => d.status = 404
    /\ q.under = NoPrefix /\ Gets(q.at, v) => d.status \notin {404, 405}
    /\ q.under = NoPrefix /\ ~ Gets(q.at, v) =>
        IF q.at \in HttpGetOnlyRoutes
        THEN d.status = 405 /\ d.allow = {"GET", "HEAD"}
        ELSE IF q.at \in Tools /\ v # "POST" THEN d.status = 405 /\ d.allow = {}
        ELSE d.status = 404
    /\ Plain(d) /\ d.says[1] \notin {"stream", "mcp"}

\* What the dispatch answers fits.
LEMMA DispatchIs ==
  ASSUME NEW s, NEW table, NEW q, Shaped(q)
  PROVE  DispatchFits(Dispatch(s, table, q), q, Verb(q))
<1> DEFINE v == Verb(q)
           d == Dispatch(s, table, q)
           home == Says(302, <<"dashboard under", EffectivePrefix(s, q)>>)
           e == Endpoint(s, table, q)
           c == CallTool(q)
           read == NotAllowed({"GET", "HEAD"})
           post == NotAllowed({})
           unknown == Refuses(404, "not_found")
<1>1. /\ home.status \notin {404, 405} /\ home.says[1] = "dashboard under"
      /\ unknown.status = 404
      /\ unknown.says[1] = "error" /\ unknown.says[2] = "not_found"
  BY DEF Refuses, Says
<1>2. /\ read.status = 405 /\ read.allow = {"GET", "HEAD"}
      /\ read.says[1] = "error" /\ read.says[2] = "method_not_allowed"
      /\ post.status = 405 /\ post.allow = {}
      /\ post.says[1] = "error" /\ post.says[2] = "method_not_allowed"
  BY DEF NotAllowed, Refuses, Says
<1>3. <<v, q.at>> \in Endpoints => /\ e.status \in {200, 304, 400, 500} /\ Plain(e)
                                   /\ e.says[1] \notin {"stream", "mcp"}
  BY EndpointServes
<1>4. c.status \in {200, 400, 500} /\ Plain(c) /\ c.says[1] \notin {"stream", "mcp"}
  BY ToolServes
<1>5. d = IF q.under = NoPrefix /\ q.at = "/" /\ v = "GET" THEN home
          ELSE IF q.under = NoPrefix /\ q.at \in HttpGetOnlyRoutes /\ v # "GET"
               THEN read
          ELSE IF q.under = NoPrefix /\ <<v, q.at>> \in Endpoints THEN e
          ELSE IF v # "POST" /\ q.under = NoPrefix /\ q.at \in Tools THEN post
          ELSE IF q.under = NoPrefix /\ q.at \in Tools THEN c
          ELSE unknown
  BY DEF Dispatch, AtTool
<1> HIDE DEF d, home, e, c, v, read, post, unknown
<1>6. Plain(d) /\ d.says[1] \notin {"stream", "mcp"}
  BY ZenonT(120), <1>1, <1>2, <1>3, <1>4, <1>5 DEF Plain
<1>7. /\ <<v, q.at>> \in Endpoints => q.at \in HttpGetOnlyRoutes \cup Unlisted
      /\ q.at \in HttpGetOnlyRoutes => (<<v, q.at>> \in Endpoints <=> v = "GET")
      /\ "/" \notin HttpGetOnlyRoutes /\ <<v, "/">> \notin Endpoints
      /\ "/" \in Unlisted
  BY EndpointsAre DEF Unlisted
<1>8. Tools \cap Unlisted = {}
  BY RequestsOK
<1>9. q.under # NoPrefix => d.status = 404
  BY <1>1, <1>5
<1>10. q.under = NoPrefix /\ Gets(q.at, v) => d.status \notin {404, 405}
  <2> SUFFICES ASSUME q.under = NoPrefix, Gets(q.at, v) PROVE d.status \notin {404, 405}
    OBVIOUS
  <2>1. CASE <<v, q.at>> \in Endpoints
    <3>1. d = e
      BY <1>5, <1>7, <1>8, <2>1 DEF Gets
    <3> QED
      BY <1>3, <2>1, <3>1
  <2>2. CASE q.at = "/" /\ v = "GET"
    <3>1. d = home
      BY <1>5, <2>2
    <3> QED
      BY Zenon, <1>1, <3>1
  <2>3. CASE <<v, q.at>> \notin Endpoints /\ ~ (q.at = "/" /\ v = "GET")
    <3>1. q.at \in Tools /\ v = "POST" /\ q.at \notin HttpGetOnlyRoutes
      BY <1>7, <2>3 DEF Gets
    <3>2. d = c
      BY <1>5, <2>3, <3>1
    <3> QED
      BY <1>4, <3>2
  <2> QED
    BY <2>1, <2>2, <2>3
<1>11. q.under = NoPrefix /\ ~ Gets(q.at, v) =>
         IF q.at \in HttpGetOnlyRoutes
         THEN d.status = 405 /\ d.allow = {"GET", "HEAD"}
         ELSE IF q.at \in Tools /\ v # "POST" THEN d.status = 405 /\ d.allow = {}
         ELSE d.status = 404
  BY <1>1, <1>2, <1>5, <1>7, <1>8 DEF Gets
<1>12. DispatchFits(d, q, v)
  BY <1>6, <1>9, <1>10, <1>11 DEF DispatchFits
<1> QED
  BY <1>12 DEF d, v

-----------------------------------------------------------------------------
(* From the routes to the client.                                          *)

\* A reply has its five fields, and setting one leaves the others.
IsReply(r) ==
    \E a, b, c, d, e :
        r = [status |-> a, says |-> b, allow |-> c, sent |-> d, zipped |-> e]

Zipped(r, x, y) ==
    /\ IsReply(y) /\ y.status = r.status /\ y.says = r.says /\ y.allow = r.allow
    /\ y.sent = r.sent /\ y.zipped = x

Resent(r, x, y) ==
    /\ IsReply(y) /\ y.status = r.status /\ y.says = r.says /\ y.allow = r.allow
    /\ y.sent = x /\ y.zipped = r.zipped

\* Setting whether it is compressed, whether it is sent, and what it allows.
LEMMA ReplySet ==
  ASSUME NEW r, IsReply(r), NEW x
  PROVE  /\ Zipped(r, x, [r EXCEPT !.zipped = x])
         /\ Resent(r, x, [r EXCEPT !.sent = x])
         /\ IsReply([r EXCEPT !.allow = x])
<1>1. PICK a, b, c, d, e :
        r = [status |-> a, says |-> b, allow |-> c, sent |-> d, zipped |-> e]
  BY DEF IsReply
<1>2. [r EXCEPT !.zipped = x] =
        [status |-> a, says |-> b, allow |-> c, sent |-> d, zipped |-> x]
  BY <1>1
<1>3. [r EXCEPT !.sent = x] =
        [status |-> a, says |-> b, allow |-> c, sent |-> x, zipped |-> e]
  BY <1>1
<1>4. [r EXCEPT !.allow = x] =
        [status |-> a, says |-> b, allow |-> x, sent |-> d, zipped |-> e]
  BY <1>1
<1>5. /\ IsReply([r EXCEPT !.zipped = x]) /\ IsReply([r EXCEPT !.sent = x])
      /\ IsReply([r EXCEPT !.allow = x])
  <2>1. \A a1, a2, a3, a4, a5 :
          IsReply([status |-> a1, says |-> a2, allow |-> a3, sent |-> a4, zipped |-> a5])
    BY DEF IsReply
  <2> QED
    BY <1>2, <1>3, <1>4, <2>1
<1>6. Zipped(r, x, [r EXCEPT !.zipped = x])
  BY <1>1, <1>2, <1>5 DEF Zipped
<1>7. Resent(r, x, [r EXCEPT !.sent = x])
  BY <1>1, <1>3, <1>5 DEF Resent
<1> QED
  BY <1>5, <1>6, <1>7

\* The ways of making a reply make one.
LEMMA RepliesAre ==
  /\ \A a, b : IsReply(Says(a, b))
  /\ \A a, b : IsReply(Refuses(a, b))
  /\ \A a : IsReply(NotAllowed(a))
<1>1. \A a, b : IsReply(Says(a, b))
  BY DEF Says, IsReply
<1>2. \A a, b : IsReply(Refuses(a, b))
  BY <1>1 DEF Refuses
<1>3. ASSUME NEW a PROVE IsReply(NotAllowed(a))
  <2> DEFINE r == Refuses(405, "method_not_allowed")
  <2>1. IsReply(r)
    BY <1>2
  <2> HIDE DEF r
  <2>2. IsReply([r EXCEPT !.allow = a])
    BY <2>1, ReplySet
  <2> QED
    BY <2>2 DEF NotAllowed, r
<1> QED
  BY <1>1, <1>2, <1>3

\* So do an endpoint, a tool and the dispatch.
LEMMA DispatchReplies ==
  ASSUME NEW s, NEW table, NEW q, Shaped(q)
  PROVE  IsReply(Dispatch(s, table, q))
<1>1. IsReply(Endpoint(s, table, q))
  <2>1. IsReply(Asset(q)) /\ IsReply(IndexProgress(q.args))
    BY RepliesAre DEF Asset, IndexProgress
  <2> QED
    BY ZenonT(120), <2>1, RepliesAre DEF Endpoint
<1>2. IsReply(CallTool(q))
  <2>1. q.does \in {"fails", "says why", "says what next", "nothing", "answers"}
    BY DEF Shaped
  <2>2. CASE q.body = "malformed"
    BY <2>2, RepliesAre DEF CallTool
  <2>3. CASE q.body # "malformed" /\ q.does = "fails"
    BY <2>3, RepliesAre DEF CallTool
  <2>4. CASE q.body # "malformed" /\ q.does = "says why"
    BY <2>4, RepliesAre DEF CallTool
  <2>5. CASE q.body # "malformed" /\ q.does = "says what next"
    BY ZenonT(60), <2>5, RepliesAre DEF CallTool
  <2>6. CASE q.body # "malformed" /\ q.does = "nothing"
    BY <2>6, RepliesAre DEF CallTool
  <2>7. CASE q.body # "malformed" /\ q.does = "answers"
    BY <2>7, RepliesAre DEF CallTool
  <2> QED
    BY <2>1, <2>2, <2>3, <2>4, <2>5, <2>6, <2>7
<1> QED
  BY <1>1, <1>2, RepliesAre DEF Dispatch

\* The addresses that are asked for before the others.
AtMcp(z) == setting.mcp /\ z.under = NoPrefix /\ z.at = "/mcp"
AtEvents(z) == z.under = NoPrefix /\ z.at = "events"

\* w comes of a request q that is not answered at once, z once its prefix is
\* off, for which d is what the dispatch answers.
WholeFits(w, q, z, d) ==
    /\ IsReply(w) /\ w.sent = (q.method # "HEAD")
    /\ AtMcp(z) => w.status = 200 /\ w.says = <<"mcp">> /\ w.zipped = FALSE
    /\ AtEvents(z) =>
        /\ w.zipped = FALSE
        /\ Verb(q) # "GET" => /\ w.status = 405 /\ w.allow = {"GET"}
                              /\ w.says = <<"error", "method_not_allowed">>
        /\ q.method = "GET" => w.status = 200 /\ w.says = <<"stream">>
        /\ q.method = "HEAD" => /\ w.status = 500
                                /\ w.says = <<"error", "streaming_unsupported">>
    /\ ~ AtMcp(z) /\ ~ AtEvents(z) =>
        /\ w.status = d.status /\ w.says = d.says /\ w.allow = d.allow
        /\ w.zipped = q.gzip

\* What is answered to a request that is not answered at once fits.
LEMMA WholeIs ==
  ASSUME NEW table, NEW q, Shaped(q), ~ AnswersAtOnce(setting, q)
  PROVE  WholeFits(Whole(table, q), q, Stripped(setting, q),
                   Dispatch(setting, table, Stripped(setting, q)))
<1> DEFINE z == Stripped(setting, q)
           d == Dispatch(setting, table, z)
           e == HandleEvents(z)
           mcp == Says(200, <<"mcp">>)
           route == Route(setting, table, q)
           zipped == [d EXCEPT !.zipped = z.gzip]
           w == Whole(table, q)
           full == q.method # "HEAD"
<1>1. Shaped(z) /\ z.method = q.method /\ z.gzip = q.gzip /\ Verb(z) = Verb(q)
  <2>1. z.method = q.method /\ z.gzip = q.gzip /\ Shaped(z)
    BY ZenonT(60), StrippedKeeps DEF StripsTo
  <2> QED
    BY <2>1 DEF Verb
<1>2. w = [route EXCEPT !.sent = full]
  BY DEF Whole, Answers
<1>3. IsReply(d)
  BY <1>1, DispatchReplies
<1>4. IsReply(mcp) /\ mcp.status = 200 /\ mcp.says = <<"mcp">> /\ mcp.zipped = FALSE
  BY RepliesAre DEF Says
<1>5. /\ IsReply(e) /\ e.zipped = FALSE
      /\ Verb(q) # "GET" => /\ e.status = 405 /\ e.allow = {"GET"}
                            /\ e.says = <<"error", "method_not_allowed">>
      /\ q.method = "GET" => e.status = 200 /\ e.says = <<"stream">>
      /\ q.method = "HEAD" => e.status = 500 /\ e.says = <<"error", "streaming_unsupported">>
  <2>1. CASE Verb(q) # "GET"
    <3>1. e = NotAllowed({"GET"})
      BY <1>1, <2>1 DEF HandleEvents
    <3>2. q.method # "GET" /\ q.method # "HEAD"
      BY <2>1 DEF Verb
    <3> QED
      BY <2>1, <3>1, <3>2, RepliesAre DEF NotAllowed, Refuses, Says
  <2>2. CASE q.method = "HEAD"
    <3>1. e = Refuses(500, "streaming_unsupported")
      BY <1>1, <2>2 DEF HandleEvents, Verb
    <3> QED
      BY <2>2, <3>1, RepliesAre DEF Refuses, Says, Verb
  <2>3. CASE q.method = "GET"
    <3>1. e = Says(200, <<"stream">>)
      BY <1>1, <2>3 DEF HandleEvents, Verb
    <3> QED
      BY <2>3, <3>1, RepliesAre DEF Says, Verb
  <2> QED
    BY <2>1, <2>2, <2>3 DEF Verb
<1>6. ~ (AtMcp(z) /\ AtEvents(z))
  BY DEF AtMcp, AtEvents
<1>7. /\ AtMcp(z) => route = mcp
      /\ AtEvents(z) => route = e
      /\ ~ AtMcp(z) /\ ~ AtEvents(z) => route = zipped
  BY <1>6 DEF AtMcp, AtEvents, Route
<1>8. /\ IsReply(zipped) /\ zipped.status = d.status /\ zipped.says = d.says
      /\ zipped.allow = d.allow /\ zipped.zipped = q.gzip
  <2> HIDE DEF d, z
  <2>1. Zipped(d, z.gzip, zipped)
    BY <1>3, ReplySet
  <2> HIDE DEF zipped
  <2> QED
    BY <1>1, <2>1 DEF Zipped
<1> HIDE DEF zipped, e, mcp, route, w, d, z, full
<1>9. IsReply(route)
  BY <1>3, <1>4, <1>5, <1>7, <1>8
<1>10. /\ IsReply(w) /\ w.status = route.status /\ w.says = route.says
       /\ w.allow = route.allow /\ w.sent = full /\ w.zipped = route.zipped
  <2>1. Resent(route, full, w)
    BY <1>2, <1>9, ReplySet
  <2> QED
    BY <2>1 DEF Resent
<1>11. AtMcp(z) => w.status = 200 /\ w.says = <<"mcp">> /\ w.zipped = FALSE
  BY <1>4, <1>7, <1>10
<1>12. AtEvents(z) =>
          /\ w.zipped = FALSE
          /\ Verb(q) # "GET" => /\ w.status = 405 /\ w.allow = {"GET"}
                                /\ w.says = <<"error", "method_not_allowed">>
          /\ q.method = "GET" => w.status = 200 /\ w.says = <<"stream">>
          /\ q.method = "HEAD" => /\ w.status = 500
                                  /\ w.says = <<"error", "streaming_unsupported">>
  BY <1>5, <1>7, <1>10
<1>13. ~ AtMcp(z) /\ ~ AtEvents(z) =>
          /\ w.status = d.status /\ w.says = d.says /\ w.allow = d.allow
          /\ w.zipped = q.gzip
  BY <1>7, <1>8, <1>10
<1>14. IsReply(w) /\ w.sent = (q.method # "HEAD")
  BY <1>10 DEF full
<1>15. WholeFits(w, q, z, d)
  BY <1>11, <1>12, <1>13, <1>14 DEF WholeFits
<1> QED
  BY <1>15 DEF d, z, w

\* What requests without the key and questions for the options are answered.
AtOnceFits(a) ==
    /\ IsReply(a) /\ a.status \in {204, 401}
    /\ \/ a.says = <<"options">>
       \/ a.says = <<"error", "unauthorized">>
    /\ a.zipped = FALSE

\* They are answered so whatever they ask for.
LEMMA AtOnceIs ==
  ASSUME NEW q
  PROVE  AtOnceFits(AtOnce(q))
<1> DEFINE options == Says(204, <<"options">>)
           denied == Refuses(401, "unauthorized")
           full == q.method # "HEAD"
           none == FALSE
           a == AtOnce(q)
<1>1. /\ IsReply(options) /\ options.status = 204 /\ options.says = <<"options">>
      /\ options.zipped = FALSE
  BY RepliesAre DEF Says
<1>2. /\ IsReply(denied) /\ denied.status = 401 /\ denied.says = <<"error", "unauthorized">>
      /\ denied.zipped = FALSE
  BY RepliesAre DEF Refuses, Says
<1>3. a = IF q.method = "OPTIONS" THEN [options EXCEPT !.sent = none]
          ELSE [denied EXCEPT !.sent = full]
  BY DEF AtOnce, Answers
<1> HIDE DEF options, denied, full, none, a
<1>4. Resent(options, none, [options EXCEPT !.sent = none])
  BY <1>1, ReplySet
<1>5. Resent(denied, full, [denied EXCEPT !.sent = full])
  BY <1>2, ReplySet
<1>6. CASE q.method = "OPTIONS"
  <2>1. Resent(options, none, a)
    BY <1>3, <1>4, <1>6
  <2>2. AtOnceFits(a)
    BY <1>1, <2>1 DEF Resent, AtOnceFits
  <2> QED
    BY <2>2 DEF a
<1>7. CASE q.method # "OPTIONS"
  <2>1. Resent(denied, full, a)
    BY <1>3, <1>5, <1>7
  <2>2. AtOnceFits(a)
    BY <1>2, <2>1 DEF Resent, AtOnceFits
  <2> QED
    BY <2>2 DEF a
<1> QED
  BY <1>6, <1>7

\* The verbs that an address is served for.
ServesAs(table, q, m) ==
    /\ Whole(table, As(q, m)).status \notin {404, 405}
    /\ Whole(table, As(q, m)).says # <<"error", "streaming_unsupported">>

VerbsOf(table, q) == {m \in Verbs : ServesAs(table, q, m)}

\* The same, by what is left of the path.
ServedAt(z, m) ==
    \/ AtMcp(z)
    \/ AtEvents(z) /\ m = "GET"
    \/ /\ ~ AtMcp(z) /\ ~ AtEvents(z) /\ z.under = NoPrefix
       /\ Gets(z.at, IF m = "HEAD" THEN "GET" ELSE m)

\* Who is served is known from the path.
LEMMA ServesIs ==
  ASSUME NEW table, NEW q, Shaped(q), Authorized(setting, q), NEW m \in Verbs
  PROVE  ServesAs(table, q, m) <=> ServedAt(Stripped(setting, q), m)
<1> DEFINE p == As(q, m)
           z == Stripped(setting, q)
           y == Stripped(setting, p)
           w == Whole(table, p)
           d == Dispatch(setting, table, y)
           v == IF m = "HEAD" THEN "GET" ELSE m
<1>1. GoesWith(setting, q, m, p, z, y)
  BY StrippedAs
<1>2. ServesAs(table, q, m) <=>
        w.status \notin {404, 405} /\ w.says # <<"error", "streaming_unsupported">>
  BY DEF ServesAs
<1>3. ServedAt(z, m) <=>
        \/ AtMcp(z)
        \/ AtEvents(z) /\ m = "GET"
        \/ ~ AtMcp(z) /\ ~ AtEvents(z) /\ z.under = NoPrefix /\ Gets(z.at, v)
  BY DEF ServedAt
<1>4. Shaped(y) /\ Shaped(p) /\ p.method = m
  <2> HIDE DEF p, z, y
  <2> QED
    BY <1>1 DEF GoesWith
<1>5. ~ AnswersAtOnce(setting, p)
  <2> HIDE DEF p, z, y
  <2> QED
    BY <1>1 DEF GoesWith, AnswersAtOnce, Verbs
<1>6. DispatchFits(d, y, Verb(y))
  BY <1>4, DispatchIs
<1>7. WholeFits(w, p, y, d)
  BY <1>4, <1>5, WholeIs
<1> HIDE DEF p, z, y, w, d
<1>8. /\ y.method = m /\ y.under = z.under /\ y.at = z.at /\ Verb(p) = v /\ Verb(y) = v
  BY <1>1 DEF GoesWith, Verb
<1>9. (AtMcp(y) <=> AtMcp(z)) /\ (AtEvents(y) <=> AtEvents(z)) /\ ~ (AtMcp(z) /\ AtEvents(z))
  BY <1>8 DEF AtMcp, AtEvents
<1> HIDE DEF v
<1>10. CASE AtMcp(z)
  <2>1. w.status = 200 /\ w.says = <<"mcp">>
    BY <1>7, <1>9, <1>10 DEF WholeFits
  <2>2. w.says # <<"error", "streaming_unsupported">>
    BY <2>1
  <2> QED
    BY <1>2, <1>3, <1>10, <2>1, <2>2 DEF z
<1>11. CASE AtEvents(z)
  <2>1. /\ v # "GET" => w.status = 405
        /\ m = "GET" => w.status = 200 /\ w.says = <<"stream">>
        /\ m = "HEAD" => w.says = <<"error", "streaming_unsupported">>
    BY <1>4, <1>7, <1>8, <1>9, <1>11 DEF WholeFits
  <2>2. m = "GET" \/ m = "HEAD" \/ v # "GET"
    BY DEF v
  <2>3. m = "GET" => w.says # <<"error", "streaming_unsupported">>
    BY <2>1
  <2>4. m # "GET" <=> m = "HEAD" \/ v # "GET"
    BY DEF v
  <2>5. ServesAs(table, q, m) <=> m = "GET"
    BY <1>2, <2>1, <2>2, <2>3, <2>4
  <2> QED
    BY <1>3, <1>9, <1>11, <2>5 DEF z
<1>12. CASE ~ AtMcp(z) /\ ~ AtEvents(z)
  <2>1. w.status = d.status /\ w.says = d.says
    BY <1>7, <1>9, <1>12 DEF WholeFits
  <2>2. d.says # <<"error", "streaming_unsupported">>
    BY <1>6 DEF DispatchFits, Plain
  <2>3. ServesAs(table, q, m) <=> d.status \notin {404, 405}
    BY <1>2, <2>1, <2>2
  <2>4. DispatchFits(d, y, v)
    BY <1>6, <1>8
  <2>5. /\ y.under # NoPrefix => d.status = 404
        /\ y.under = NoPrefix /\ Gets(y.at, v) => d.status \notin {404, 405}
        /\ y.under = NoPrefix /\ ~ Gets(y.at, v) => d.status \in {404, 405}
    BY <2>4 DEF DispatchFits
  <2> QED
    BY <1>3, <1>8, <1>12, <2>3, <2>5 DEF z
<1> QED
  BY <1>10, <1>11, <1>12

-----------------------------------------------------------------------------
(* The parts of GatewayIsUniform.                                          *)

\* What NotAllowedNames and UnknownKnowsNone look at: a reply to a request
\* that is not answered at once, and who is served in its place.
LEMMA RoutedIs ==
  ASSUME NEW table, NEW q, Shaped(q), Whole(table, q).status \in {404, 405}
  PROVE  /\ ~ AnswersAtOnce(setting, q)
         /\ WholeFits(Whole(table, q), q, Stripped(setting, q),
                      Dispatch(setting, table, Stripped(setting, q)))
         /\ DispatchFits(Dispatch(setting, table, Stripped(setting, q)),
                         Stripped(setting, q), Verb(q))
         /\ \A m \in Verbs : ServesAs(table, q, m) <=> ServedAt(Stripped(setting, q), m)
<1> DEFINE w == Whole(table, q)
           z == Stripped(setting, q)
<1>1. ~ AnswersAtOnce(setting, q)
  <2>1. AnswersAtOnce(setting, q) => w = AtOnce(q)
    BY DEF Whole
  <2>2. AtOnceFits(AtOnce(q))
    BY AtOnceIs
  <2>3. AtOnce(q).status \notin {404, 405}
    BY <2>2 DEF AtOnceFits
  <2> QED
    BY <2>1, <2>3
<1>2. Authorized(setting, q)
  BY <1>1 DEF AnswersAtOnce
<1>3. Shaped(z) /\ Verb(z) = Verb(q)
  <2>1. StripsTo(setting, q, z)
    BY StrippedKeeps
  <2> HIDE DEF z
  <2> QED
    BY <2>1 DEF StripsTo, Verb
<1>4. DispatchFits(Dispatch(setting, table, z), z, Verb(z))
  BY <1>3, DispatchIs
<1> QED
  BY <1>1, <1>2, <1>3, <1>4, WholeIs, ServesIs

\* A verb that is not allowed names those that are.
LEMMA NotAllowedNames ==
  ASSUME NEW table, NEW q, Shaped(q), Whole(table, q).status = 405
  PROVE  VerbsOf(table, q) =
            IF AtTool(Stripped(setting, q)) /\ Whole(table, q).allow = {} THEN {"POST"}
            ELSE Whole(table, q).allow
<1> DEFINE z == Stripped(setting, q)
           w == Whole(table, q)
           d == Dispatch(setting, table, z)
           gets(m) == Gets(z.at, IF m = "HEAD" THEN "GET" ELSE m)
<1>1. w.status = 405
  OBVIOUS
<1>2. WholeFits(w, q, z, d)
  BY RoutedIs
<1>3. DispatchFits(d, z, Verb(q))
  BY RoutedIs
<1>4. \A m \in Verbs : ServesAs(table, q, m) <=> ServedAt(z, m)
  BY RoutedIs
<1>5. AtTool(z) <=> z.under = NoPrefix /\ z.at \in Tools
  BY DEF AtTool
<1> HIDE DEF z, w, d
<1>6. VerbsOf(table, q) = {m \in Verbs : ServedAt(z, m)}
  BY <1>4 DEF VerbsOf
<1>7. ~ AtMcp(z)
  BY <1>1, <1>2 DEF WholeFits
<1>8. CASE AtEvents(z)
  <2>1. Verb(q) # "GET"
    BY <1>1, <1>2, <1>8 DEF Verb, WholeFits
  <2>2. w.allow = {"GET"}
    BY <1>2, <1>8, <2>1 DEF WholeFits
  <2>3. \A m \in Verbs : ServedAt(z, m) <=> m = "GET"
    BY <1>7, <1>8 DEF ServedAt
  <2>4. VerbsOf(table, q) = {"GET"}
    BY <1>6, <2>3 DEF Verbs
  <2> QED
    BY <2>2, <2>4 DEF w, z
<1>9. CASE ~ AtEvents(z)
  <2>1. d.status = 405 /\ w.allow = d.allow
    BY <1>1, <1>2, <1>7, <1>9 DEF WholeFits
  <2>2. z.under = NoPrefix /\ ~ Gets(z.at, Verb(q))
    BY <1>3, <2>1 DEF DispatchFits
  <2>3. \A m \in Verbs : ServedAt(z, m) <=> gets(m)
    BY <1>7, <1>9, <2>2 DEF ServedAt
  <2>4. VerbsOf(table, q) = {m \in Verbs : gets(m)}
    BY <1>6, <2>3
  <2>5. IF z.at \in HttpGetOnlyRoutes
        THEN d.status = 405 /\ d.allow = {"GET", "HEAD"}
        ELSE IF z.at \in Tools /\ Verb(q) # "POST" THEN d.status = 405 /\ d.allow = {}
        ELSE d.status = 404
    BY <1>3, <2>2 DEF DispatchFits
  <2>6. CASE z.at \in HttpGetOnlyRoutes
    <3>1. w.allow = {"GET", "HEAD"}
      BY <2>1, <2>5, <2>6
    <3>2. \A m \in Verbs : gets(m) <=> m \in {"GET", "HEAD"}
      BY <2>6 DEF Gets, Verbs
    <3>3. {m \in Verbs : gets(m)} = {"GET", "HEAD"}
      BY <3>2 DEF Verbs
    <3>4. w.allow # {}
      BY <3>1
    <3> QED
      BY <2>4, <3>1, <3>3, <3>4 DEF w, z
  <2>7. CASE z.at \notin HttpGetOnlyRoutes
    <3>1. z.at \in Tools /\ w.allow = {}
      BY <2>1, <2>5, <2>7
    <3>2. z.at \notin Unlisted
      BY <3>1, RequestsOK
    <3>3. ASSUME NEW v PROVE <<v, z.at>> \notin Endpoints
      <4>1. <<v, z.at>> \in Endpoints => z.at \in HttpGetOnlyRoutes \cup Unlisted
        BY EndpointsNamed
      <4> QED
        BY <2>7, <3>2, <4>1
    <3>4. z.at # "/"
      BY <3>2 DEF Unlisted
    <3>5. ASSUME NEW m \in Verbs PROVE gets(m) <=> m = "POST"
      <4>1. \A v : Gets(z.at, v) <=> v = "POST"
        BY <2>7, <3>1, <3>3, <3>4 DEF Gets
      <4> QED
        BY <4>1
    <3>6. {m \in Verbs : gets(m)} = {"POST"}
      BY <3>5 DEF Verbs
    <3> QED
      BY <1>5, <2>2, <2>4, <3>1, <3>6 DEF w, z
  <2> QED
    BY <2>6, <2>7
<1> QED
  BY <1>8, <1>9

\* An address that is not known for one verb is known for none.
LEMMA UnknownKnowsNone ==
  ASSUME NEW table, NEW q, Shaped(q), Whole(table, q).status = 404
  PROVE  VerbsOf(table, q) = {} \/ Stripped(setting, q).at \in Unlisted
<1> DEFINE z == Stripped(setting, q)
           w == Whole(table, q)
           d == Dispatch(setting, table, z)
<1>1. w.status = 404
  OBVIOUS
<1>2. WholeFits(w, q, z, d)
  BY RoutedIs
<1>3. DispatchFits(d, z, Verb(q))
  BY RoutedIs
<1>4. \A m \in Verbs : ServesAs(table, q, m) <=> ServedAt(z, m)
  BY RoutedIs
<1> HIDE DEF z, w, d
<1>5. ~ AtMcp(z) /\ ~ AtEvents(z) /\ d.status = 404
  <2>1. ~ AtMcp(z)
    BY <1>1, <1>2 DEF WholeFits
  <2>2. ~ AtEvents(z)
    BY <1>1, <1>2 DEF WholeFits, Verb
  <2> QED
    BY <1>1, <1>2, <2>1, <2>2 DEF WholeFits
<1>6. CASE z.under # NoPrefix
  BY <1>4, <1>5, <1>6 DEF VerbsOf, ServedAt
<1>7. CASE z.under = NoPrefix /\ z.at \notin Unlisted
  <2>1. ~ Gets(z.at, Verb(q)) /\ z.at \notin HttpGetOnlyRoutes
    BY <1>3, <1>5, <1>7 DEF DispatchFits
  <2>2. z.at \notin Tools
    <3> SUFFICES ASSUME z.at \in Tools PROVE FALSE
      OBVIOUS
    <3>1. Verb(q) = "POST"
      BY <1>3, <1>5, <1>7, <2>1 DEF DispatchFits
    <3> QED
      BY <2>1, <3>1 DEF Gets
  <2>3. ASSUME NEW v PROVE <<v, z.at>> \notin Endpoints
    <3>1. <<v, z.at>> \in Endpoints => z.at \in HttpGetOnlyRoutes \cup Unlisted
      BY EndpointsNamed
    <3> QED
      BY <1>7, <2>1, <3>1
  <2>4. ASSUME NEW v PROVE ~ Gets(z.at, v)
    BY <1>7, <2>1, <2>2, <2>3 DEF Gets, Unlisted
  <2>5. ASSUME NEW m \in Verbs PROVE ~ ServedAt(z, m)
    BY <1>5, <2>4 DEF ServedAt
  <2> QED
    BY <1>4, <2>5 DEF VerbsOf
<1> QED
  BY <1>6, <1>7 DEF z

\* A tool is reached.
LEMMA ToolIsReached ==
  ASSUME NEW table, NEW q, Shaped(q), q.method = "POST", AtTool(Stripped(setting, q)),
         Stripped(setting, q).at \notin HttpGetOnlyRoutes
  PROVE  Whole(table, q).status \notin {404, 405}
<1> DEFINE z == Stripped(setting, q)
           w == Whole(table, q)
           d == Dispatch(setting, table, z)
<1> SUFFICES ASSUME w.status \in {404, 405} PROVE FALSE
  OBVIOUS
<1>1. WholeFits(w, q, z, d)
  BY RoutedIs
<1>2. DispatchFits(d, z, Verb(q))
  BY RoutedIs
<1>3. z.under = NoPrefix /\ z.at \in Tools /\ z.at \notin HttpGetOnlyRoutes
  BY DEF AtTool
<1> HIDE DEF z, w, d
<1>4. Verb(q) = "POST"
  BY DEF Verb
<1>5. Gets(z.at, "POST") /\ ~ AtEvents(z)
  BY <1>3, RequestsOK DEF Gets, AtEvents
<1>6. d.status \notin {404, 405}
  BY <1>2, <1>3, <1>4, <1>5 DEF DispatchFits
<1> QED
  BY <1>1, <1>5, <1>6 DEF WholeFits

\* Requests that are alike once their prefix is off are routed alike.
LEMMA AlikeRouted ==
  ASSUME NEW s, NEW table, NEW q, NEW r,
         Alike(Stripped(s, q), Stripped(s, r)),
         EffectivePrefix(s, Stripped(s, q)) = EffectivePrefix(s, Stripped(s, r)),
         HandleEvents(Stripped(s, q)) = HandleEvents(Stripped(s, r)) \/ Stripped(s, q).at # "events"
  PROVE  Route(s, table, q) = Route(s, table, r)
<1> DEFINE z == Stripped(s, q)
           y == Stripped(s, r)
<1>1. z.under = y.under /\ z.at = y.at /\ z.gzip = y.gzip
  BY DEF Alike
<1>2. Dispatch(s, table, z) = Dispatch(s, table, y)
  BY AlikeDispatched
<1>3. HandleEvents(z) = HandleEvents(y) \/ z.at # "events"
  OBVIOUS
<1> HIDE DEF z, y
<1> DEFINE atMcp == s.mcp /\ z.under = NoPrefix /\ z.at = "/mcp"
           atEvents == z.under = NoPrefix /\ z.at = "events"
<1>4. CASE atMcp
  BY <1>1, <1>4 DEF Route, z, y
<1>5. CASE atEvents
  BY <1>1, <1>3, <1>5 DEF Route, z, y
<1>6. CASE ~ atMcp /\ ~ atEvents
  BY <1>1, <1>2, <1>6 DEF Route, z, y
<1> QED
  BY <1>4, <1>5, <1>6

\* Whatever becomes of a request is a reply.
LEMMA RouteReplies ==
  ASSUME NEW s, NEW table, NEW q, Shaped(q)
  PROVE  IsReply(Route(s, table, q))
<1> DEFINE z == Stripped(s, q)
           d == Dispatch(s, table, z)
<1>1. Shaped(z)
  <2>1. StripsTo(s, q, z)
    BY StrippedKeeps
  <2> HIDE DEF z
  <2> QED
    BY <2>1 DEF StripsTo
<1>2. IsReply(d)
  BY <1>1, DispatchReplies
<1>3. IsReply(Says(200, <<"mcp">>)) /\ IsReply(HandleEvents(z))
  BY RepliesAre DEF HandleEvents
<1>4. Zipped(d, z.gzip, [d EXCEPT !.zipped = z.gzip])
  <2> HIDE DEF d, z
  <2> QED
    BY <1>2, ReplySet
<1>5. IsReply([d EXCEPT !.zipped = z.gzip])
  BY <1>4 DEF Zipped
<1> QED
  BY <1>3, <1>5 DEF Route

\* A HEAD is answered as the GET is, without its body.
LEMMA HeadIsGet ==
  ASSUME NEW table, NEW q, Shaped(q), q.method = "HEAD",
         Stripped(setting, q).at # "events"
  PROVE  Whole(table, q) = [Whole(table, As(q, "GET")) EXCEPT !.sent = FALSE]
<1> DEFINE p == As(q, "GET")
           z == Stripped(setting, q)
           y == Stripped(setting, p)
<1>1. GoesWith(setting, q, "GET", p, z, y)
  BY StrippedAs
<1>2. StripsTo(setting, q, z)
  BY StrippedKeeps
<1>3. z.at # "events"
  OBVIOUS
<1> HIDE DEF p, z, y
<1>4. AnswersAtOnce(setting, p) <=> AnswersAtOnce(setting, q)
  BY <1>1 DEF GoesWith, AnswersAtOnce
<1>5. p.method = "GET" /\ EffectivePrefix(setting, z) = EffectivePrefix(setting, y)
  BY <1>1 DEF GoesWith
<1>6. Alike(z, y)
  BY <1>1, <1>2 DEF GoesWith, StripsTo, Alike, Verb
<1>7. Route(setting, table, q) = Route(setting, table, p)
  BY <1>3, <1>5, <1>6, AlikeRouted DEF z, y
<1> DEFINE r == IF AnswersAtOnce(setting, q) THEN Refuses(401, "unauthorized")
                ELSE Route(setting, table, q)
           none == FALSE
           full == TRUE
<1>8. Whole(table, q) = [r EXCEPT !.sent = none]
  BY DEF Whole, AtOnce, Answers
<1>9. Whole(table, p) = [r EXCEPT !.sent = full]
  BY <1>4, <1>5, <1>7 DEF Whole, AtOnce, Answers
<1>10. IsReply(r)
  BY RouteReplies, RepliesAre
<1> HIDE DEF r, none, full
<1>11. [r EXCEPT !.sent = none] = [[r EXCEPT !.sent = full] EXCEPT !.sent = none]
  BY <1>10 DEF IsReply
<1>12. Whole(table, q) = [Whole(table, p) EXCEPT !.sent = none]
  BY <1>8, <1>9, <1>11
<1> QED
  BY <1>12 DEF p, none

\* A proxy may keep its prefix or strip it.
LEMMA PrefixIsNothing ==
  ASSUME NEW table, NEW q, Shaped(q), q.at # "",
         q.under \in {NoPrefix, EffectivePrefix(setting, q)},
         NEW u \in {NoPrefix, EffectivePrefix(setting, q)},
         ~ (/\ setting.keyed
            /\ Stripped(setting, q).at \in {"health", "openapi.json", "ready"})
  PROVE  Whole(table, q) = Whole(table, [q EXCEPT !.under = u])
<1> DEFINE p == [q EXCEPT !.under = u]
           z == Stripped(setting, q)
           y == Stripped(setting, p)
<1>1. Shaped(p)
  BY StillShaped
<1>2. /\ p.method = q.method /\ p.under = u /\ p.at = q.at
      /\ p.args = q.args /\ p.body = q.body /\ p.cached = q.cached
      /\ p.fails = q.fails /\ p.does = q.does /\ p.gzip = q.gzip
      /\ p.forwardedPrefix = q.forwardedPrefix /\ p.authorization = q.authorization
  BY DEF Shaped, RequestFields
<1>3. StripsTo(setting, q, z)
  BY StrippedKeeps
<1>4. StripsTo(setting, p, y)
  BY <1>1, StrippedKeeps
<1>5. setting.keyed => z.at \notin {"health", "openapi.json", "ready"}
  OBVIOUS
<1> HIDE DEF p, z, y
<1>6. EffectivePrefix(setting, p) = EffectivePrefix(setting, q)
  BY <1>2 DEF EffectivePrefix
<1>7. z.under = NoPrefix /\ z.at = q.at
  BY <1>3 DEF StripsTo
<1>8. y.under = NoPrefix /\ y.at = q.at
  BY <1>2, <1>4, <1>6 DEF StripsTo
<1>9. z.method = y.method /\ EffectivePrefix(setting, z) = EffectivePrefix(setting, y)
  BY <1>2, <1>3, <1>4, <1>6 DEF StripsTo
<1>10. Alike(z, y)
  BY <1>2, <1>3, <1>4, <1>7, <1>8, <1>9 DEF StripsTo, Alike, Verb
<1>11. HandleEvents(z) = HandleEvents(y)
  BY <1>9 DEF HandleEvents, Verb
<1>12. Route(setting, table, q) = Route(setting, table, p)
  BY <1>9, <1>10, <1>11, AlikeRouted DEF z, y
<1>13. Authorized(setting, q) <=> Authorized(setting, p)
  BY <1>2, <1>5, <1>7 DEF Authorized, IsPublicProbe
<1>14. AtOnce(q) = AtOnce(p)
  BY ZenonT(120), <1>2 DEF AtOnce, Answers
<1>15. Answers(q, Route(setting, table, q)) = Answers(p, Route(setting, table, p))
  BY <1>2, <1>12 DEF Answers
<1>16. AnswersAtOnce(setting, q) <=> AnswersAtOnce(setting, p)
  BY <1>2, <1>13 DEF AnswersAtOnce
<1>17. Whole(table, q) = Whole(table, p)
  BY <1>14, <1>15, <1>16 DEF Whole
<1> QED
  BY <1>17 DEF p

\* What is said of a stream or a page is said by the one that is asked for.
LEMMA SaidBy ==
  ASSUME NEW table, NEW q, Shaped(q),
         Whole(table, q).says[1] \in {"stream", "mcp", "page"}
  PROVE  /\ ~ AnswersAtOnce(setting, q)
         /\ WholeFits(Whole(table, q), q, Stripped(setting, q),
                      Dispatch(setting, table, Stripped(setting, q)))
         /\ DispatchFits(Dispatch(setting, table, Stripped(setting, q)),
                         Stripped(setting, q), Verb(q))
<1> DEFINE w == Whole(table, q)
           z == Stripped(setting, q)
<1>1. ~ AnswersAtOnce(setting, q)
  <2>1. AnswersAtOnce(setting, q) => w = AtOnce(q)
    BY DEF Whole
  <2>2. AtOnceFits(AtOnce(q))
    BY AtOnceIs
  <2>3. AtOnce(q).says[1] \notin {"stream", "mcp", "page"}
    BY <2>2 DEF AtOnceFits
  <2> QED
    BY <2>1, <2>3
<1>2. Shaped(z) /\ Verb(z) = Verb(q)
  <2>1. StripsTo(setting, q, z)
    BY StrippedKeeps
  <2> HIDE DEF z
  <2> QED
    BY <2>1 DEF StripsTo, Verb
<1>3. DispatchFits(Dispatch(setting, table, z), z, Verb(z))
  BY <1>2, DispatchIs
<1> QED
  BY <1>1, <1>2, <1>3, WholeIs

\* No stream is compressed.
LEMMA StreamsAreWhole ==
  ASSUME NEW table, NEW q, Shaped(q), Whole(table, q).says \in {<<"stream">>, <<"mcp">>}
  PROVE  ~ Whole(table, q).zipped
<1> DEFINE z == Stripped(setting, q)
           w == Whole(table, q)
           d == Dispatch(setting, table, z)
<1>1. w.says[1] \in {"stream", "mcp"}
  <2> HIDE DEF w
  <2>1. w.says \in {<<"stream">>, <<"mcp">>}
    BY DEF w
  <2> QED
    BY <2>1
<1>2. WholeFits(w, q, z, d)
  BY <1>1, SaidBy
<1>3. DispatchFits(d, z, Verb(q))
  BY <1>1, SaidBy
<1> HIDE DEF z, w, d
<1>4. d.says[1] \notin {"stream", "mcp"}
  BY <1>3 DEF DispatchFits
<1>5. w.zipped = FALSE
  <2>1. AtMcp(z) \/ AtEvents(z)
    BY <1>1, <1>2, <1>4 DEF WholeFits
  <2> QED
    BY <1>2, <2>1 DEF WholeFits
<1> QED
  BY <1>5 DEF w

-----------------------------------------------------------------------------
(* Pages of projects.                                                      *)

Reason == {"dead_path", "inactive", "low_edges"}

\* What filterProjects' loop makes of what it has when it comes to a project.
FilterStep(opts, table, before, n) ==
    LET why == Drops(opts, table[n]) IN
    IF why = "kept"
    THEN [before EXCEPT !.kept = Append(@, table[n])]
    ELSE [before EXCEPT !.drops[why] = @ + 1]

FilterStart == [kept |-> <<>>, drops |-> [why \in Reason |-> 0]]

FilterTo(opts, table, f, m) ==
    f = [n \in 0 .. m |-> IF n = 0 THEN FilterStart
                          ELSE FilterStep(opts, table, f[n - 1], n)]

\* There is a function such as FilterProjects asks for.
LEMMA FilterExists ==
  ASSUME NEW opts, NEW table, NEW m \in Nat
  PROVE  \E f : FilterTo(opts, table, f, m)
<1> DEFINE Bad == {n \in Nat : ~ \E f : FilterTo(opts, table, f, n)}
<1>1. SUFFICES ASSUME Bad # {} PROVE FALSE
  OBVIOUS
<1>2. PICK n \in Bad : \A j \in Bad : n <= j
  <2> HIDE DEF Bad
  <2>1. Bad \in SUBSET Nat
    BY DEF Bad
  <2> QED
    BY <1>1, <2>1, LeastExists
<1>3. n # 0
  <2>1. FilterTo(opts, table, [d \in 0 .. 0 |-> FilterStart], 0)
    BY DEF FilterTo
  <2> QED
    BY <2>1
<1>4. n - 1 \in Nat /\ n - 1 \notin Bad
  BY <1>2, <1>3
<1>5. PICK g : FilterTo(opts, table, g, n - 1)
  BY <1>4
<1> DEFINE f == [d \in 0 .. n |-> IF d = n THEN FilterStep(opts, table, g[n - 1], n)
                                  ELSE g[d]]
<1>6. FilterTo(opts, table, f, n)
  <2>1. \A d \in 0 .. n : f[d] = IF d = 0 THEN FilterStart
                                 ELSE FilterStep(opts, table, f[d - 1], d)
    <3> TAKE d \in 0 .. n
    <3>1. CASE d = n
      BY <1>3, <3>1
    <3>2. CASE d # n
      <4>1. d \in 0 .. (n - 1) /\ (d # 0 => d - 1 \in 0 .. (n - 1) /\ d - 1 # n)
        BY <1>4, <3>2
      <4>2. g[d] = IF d = 0 THEN FilterStart ELSE FilterStep(opts, table, g[d - 1], d)
        BY <1>5, <4>1 DEF FilterTo
      <4> QED
        BY <3>2, <4>1, <4>2
    <3> QED
      BY <3>1, <3>2
  <2>2. f = [d \in 0 .. n |-> f[d]]
    OBVIOUS
  <2> HIDE DEF f
  <2> QED
    BY <2>1, <2>2 DEF FilterTo
<1> HIDE DEF f
<1> QED
  BY <1>6

\* Every project is kept or counted under one reason.
FilterFits(found, n) ==
    /\ found \in [kept : Seq(ProjectRow), drops : [Reason -> Nat]]
    /\ Len(found.kept) + (found.drops["dead_path"] + found.drops["inactive"]
                          + found.drops["low_edges"]) = n

\* One project more is kept or counted.
LEMMA FilterStepFits ==
  ASSUME NEW opts, NEW table \in Seq(ProjectRow), NEW n \in 1 .. Len(table),
         NEW before, FilterFits(before, n - 1)
  PROVE  FilterFits(FilterStep(opts, table, before, n), n)
<1> DEFINE why == Drops(opts, table[n])
           after == FilterStep(opts, table, before, n)
           row == table[n]
<1>1. /\ before = [kept |-> before.kept, drops |-> before.drops]
      /\ before.kept \in Seq(ProjectRow) /\ before.drops \in [Reason -> Nat]
      /\ Len(before.kept) + (before.drops["dead_path"] + before.drops["inactive"]
                             + before.drops["low_edges"]) = n - 1
  BY DEF FilterFits
<1>2. row \in ProjectRow
  BY ElementOfSeq
<1>3. why \in Reason \cup {"kept"}
  BY DEF Drops, Reason
<1>4. after = IF why = "kept" THEN [before EXCEPT !.kept = Append(@, row)]
              ELSE [before EXCEPT !.drops[why] = @ + 1]
  BY DEF FilterStep
<1>5. n \in Nat /\ Len(before.kept) \in Nat
  BY <1>1, LenProperties
<1>6. Append(before.kept, row) \in Seq(ProjectRow)
      /\ Len(Append(before.kept, row)) = Len(before.kept) + 1
  BY <1>1, <1>2, AppendProperties
<1>7. /\ before.drops["dead_path"] \in Nat /\ before.drops["inactive"] \in Nat
      /\ before.drops["low_edges"] \in Nat
  BY <1>1 DEF Reason
<1> HIDE DEF why, row, after
<1> DEFINE a == before.drops["dead_path"]
           b == before.drops["inactive"]
           c == before.drops["low_edges"]
<1>8. Len(before.kept) + (a + b + c) = n - 1 /\ a \in Nat /\ b \in Nat /\ c \in Nat
  BY <1>1, <1>7
<1>9. CASE why = "kept"
  <2>1. after = [kept |-> Append(before.kept, row), drops |-> before.drops]
    BY <1>1, <1>4, <1>9
  <2>2. after.kept = Append(before.kept, row) /\ after.drops = before.drops
        /\ after \in [kept : Seq(ProjectRow), drops : [Reason -> Nat]]
    BY <1>1, <1>6, <2>1
  <2>3. Len(after.kept) = Len(before.kept) + 1
    BY <1>6, <2>2
  <2>4. Len(after.kept) + (before.drops["dead_path"] + before.drops["inactive"]
                           + before.drops["low_edges"]) = n
    <3> DEFINE l == Len(before.kept)
    <3>2. l \in Nat /\ l + (a + b + c) = n - 1 /\ Len(after.kept) = l + 1
      BY <1>5, <1>8, <2>3
    <3> HIDE DEF a, b, c, l
    <3>1. Len(after.kept) + (a + b + c) = n
      BY <1>5, <1>8, <3>2
    <3> QED
      BY <3>1 DEF a, b, c
  <2> QED
    BY <2>2, <2>4 DEF FilterFits, after
<1>10. CASE why # "kept"
  <2> DEFINE drops == [before.drops EXCEPT ![why] = @ + 1]
  <2>1. why \in Reason
    BY <1>3, <1>10
  <2>2. after = [kept |-> before.kept, drops |-> drops]
    BY <1>1, <1>4, <1>10
  <2>3. drops \in [Reason -> Nat]
    BY <1>1, <2>1
  <2>4. /\ drops["dead_path"] = before.drops["dead_path"] + (IF why = "dead_path" THEN 1 ELSE 0)
        /\ drops["inactive"] = before.drops["inactive"] + (IF why = "inactive" THEN 1 ELSE 0)
        /\ drops["low_edges"] = before.drops["low_edges"] + (IF why = "low_edges" THEN 1 ELSE 0)
    BY <1>1, <1>7, <2>1 DEF Reason
  <2> HIDE DEF drops
  <2>5. after.kept = before.kept /\ after.drops = drops
        /\ after \in [kept : Seq(ProjectRow), drops : [Reason -> Nat]]
    BY <1>1, <2>2, <2>3
  <2>6. Len(before.kept) + (drops["dead_path"] + drops["inactive"] + drops["low_edges"]) = n
    BY SMTT(60), <1>1, <1>5, <1>7, <2>1, <2>4 DEF Reason
  <2> QED
    BY <2>5, <2>6 DEF FilterFits, after
<1> QED
  BY <1>9, <1>10

\* No project is lost between a page's total and the counts.
LEMMA FilterCounts ==
  ASSUME NEW opts, NEW table \in Seq(ProjectRow)
  PROVE  FilterFits(FilterProjects(opts, table), Len(table))
<1> DEFINE m == Len(table)
           f == CHOOSE g : FilterTo(opts, table, g, m)
<1>1. m \in Nat
  BY LenProperties
<1>2. FilterProjects(opts, table) = f[m]
  BY DEF FilterProjects, FilterTo, FilterStep, FilterStart, Reason
<1>3. FilterTo(opts, table, f, m)
  BY <1>1, FilterExists
<1> HIDE DEF f
<1>4. \A n \in 0 .. m : f[n] = IF n = 0 THEN FilterStart
                               ELSE FilterStep(opts, table, f[n - 1], n)
  BY <1>3 DEF FilterTo
<1>5. FilterFits(FilterStart, 0)
  <2>1. <<>> \in Seq(ProjectRow) /\ Len(<<>>) = 0
    BY EmptySeq
  <2> QED
    BY <2>1 DEF FilterFits, FilterStart, Reason
<1> DEFINE Bad == {n \in 0 .. m : ~ FilterFits(f[n], n)}
<1>6. Bad = {}
  <2> SUFFICES ASSUME Bad # {} PROVE FALSE
    OBVIOUS
  <2>1. PICK n \in Bad : \A j \in Bad : n <= j
    <3>1. Bad \in SUBSET Nat
      OBVIOUS
    <3> HIDE DEF Bad
    <3> QED
      BY <3>1, LeastExists
  <2>2. n # 0
    BY <1>1, <1>4, <1>5
  <2>3. n \in 1 .. m /\ n - 1 \in 0 .. m /\ ~ (n <= n - 1)
    BY <1>1, <2>1, <2>2
  <2>4. FilterFits(f[n - 1], n - 1)
    BY <2>1, <2>3
  <2>5. FilterFits(FilterStep(opts, table, f[n - 1], n), n)
    BY <2>3, <2>4, FilterStepFits
  <2>6. f[n] = FilterStep(opts, table, f[n - 1], n)
    BY <1>4, <2>2, <2>3
  <2> QED
    BY <2>1, <2>5, <2>6
<1> HIDE DEF m
<1>7. FilterFits(f[m], m)
  BY <1>1, <1>6
<1> QED
  BY <1>2, <1>7 DEF m

\* The greatest number there is, no smaller than any page.
LEMMA HugeIs == Huge \in Nat /\ Huge >= 500
BY SMT DEF Huge

\* A number that is asked for is within its bounds, as the default is.
LEMMA NumberWithin ==
  ASSUME NEW given, NEW lowest \in Int, NEW highest \in Int, NEW default \in lowest .. highest
  PROVE  Number(given, lowest, highest, default) \in lowest .. highest
BY DEF Number

\* The same page parameters, as far along as the page is long.
FollowedBy(page, next) ==
    /\ page.limit \in 1 .. 200 /\ page.offset \in 0 .. Huge
    /\ next.limit = page.limit /\ next.offset = page.offset + page.limit

\* more: what is asked for after args.
AskedNext(args, more) ==
    LET page == ParsePageParams(args, 50, 200) IN
    /\ more.limit = args.limit
    /\ more.offset = {page.offset + page.limit}
    /\ page.offset + page.limit <= Huge

\* The page that is asked for next begins where the one before it ends.
LEMMA NextPage ==
  ASSUME NEW args, NEW more, AskedNext(args, more)
  PROVE  FollowedBy(ParsePageParams(args, 50, 200), ParsePageParams(more, 50, 200))
<1> DEFINE asked == Number(args.limit, 1, Huge, 50)
           offset == Number(args.offset, 0, Huge, 0)
           limit == IF asked > 200 THEN 200 ELSE asked
           page == ParsePageParams(args, 50, 200)
           next == ParsePageParams(more, 50, 200)
<1>1. asked \in 1 .. Huge /\ offset \in 0 .. Huge
  <2>1. /\ 0 \in Int /\ 1 \in Int /\ Huge \in Int /\ 50 \in 1 .. Huge /\ 0 \in 0 .. Huge
    BY HugeIs
  <2>2. Number(args.limit, 1, Huge, 50) \in 1 .. Huge
    BY <2>1, NumberWithin
  <2>3. Number(args.offset, 0, Huge, 0) \in 0 .. Huge
    BY <2>1, NumberWithin
  <2> QED
    BY <2>2, <2>3
<1>2. page.limit = limit /\ page.offset = offset
  BY DEF ParsePageParams
<1>3. next.limit = limit /\ next.offset = Number(more.offset, 0, Huge, 0)
  BY DEF ParsePageParams, AskedNext
<1> HIDE DEF asked, offset
<1>4. limit \in 1 .. 200
  BY <1>1
<1> HIDE DEF limit, page, next
<1>5. more.offset = {offset + limit} /\ offset + limit \in 0 .. Huge
  <2>1. more.offset = {offset + limit} /\ offset + limit <= Huge
    BY <1>2 DEF AskedNext, page
  <2> QED
    BY <1>1, <1>4, <2>1, HugeIs
<1>6. Number(more.offset, 0, Huge, 0) = offset + limit
  BY <1>5 DEF Number
<1>7. FollowedBy(page, next)
  BY <1>1, <1>2, <1>3, <1>4, <1>6 DEF FollowedBy
<1> QED
  BY <1>7 DEF page, next

\* A page says that there are more when there is one after it.
LEMMA MoreIsNext ==
  ASSUME NEW S, NEW found \in Seq(S), NEW page, NEW next, FollowedBy(page, next)
  PROVE  SliceWindow(found, page).more <=> SliceWindow(found, next).page # <<>>
<1> DEFINE total == Len(found)
           o == page.offset
           l == page.limit
           end == IF o + l > total THEN total ELSE o + l
           last == IF o + l + l > total THEN total ELSE o + l + l
<1>1. total \in Nat /\ o \in Nat /\ l \in Nat /\ l >= 1
  <2>1. total \in Nat
    BY LenProperties
  <2>2. page.offset \in 0 .. Huge /\ page.limit \in 1 .. 200
    BY DEF FollowedBy
  <2>3. o \in 0 .. Huge /\ l \in 1 .. 200
    BY <2>2
  <2> HIDE DEF total, o, l
  <2> QED
    BY <2>1, <2>3, HugeIs
<1>2. SliceWindow(found, page).more <=> o < total /\ end < total
  BY DEF SliceWindow
<1>3. SliceWindow(found, next).page = SubSeq(found, o + l + 1, last)
  BY DEF SliceWindow, FollowedBy
<1> HIDE DEF total, o, l
<1>4. o < total /\ end < total <=> o + l < total
  BY <1>1
<1>5. CASE o + l < total
  <2>1. o + l + 1 \in Nat /\ last \in Nat /\ o + l + 1 <= last /\ o + l + 1 \in 1 .. total + 1
        /\ last \in 0 .. total
    BY <1>1, <1>5
  <2> HIDE DEF last
  <2>2. \A i \in o + l + 1 .. last : found[i] \in S
    <3>1. \A i \in 1 .. total : found[i] \in S
      BY ElementOfSeq DEF total
    <3> QED
      BY <1>1, <2>1, <3>1
  <2>3. /\ SubSeq(found, o + l + 1, last) \in Seq(S)
        /\ Len(SubSeq(found, o + l + 1, last)) = last - (o + l + 1) + 1
    BY <1>1, <2>1, <2>2, SubSeqProperties
  <2>4. Len(SubSeq(found, o + l + 1, last)) # 0
    BY <1>1, <2>1, <2>3
  <2>5. SubSeq(found, o + l + 1, last) # <<>>
    <3>1. Len(<<>>) = 0
      OBVIOUS
    <3> QED
      BY <2>4, <3>1, Zenon
  <2> QED
    BY <1>2, <1>3, <1>4, <1>5, <2>5
<1>6. CASE ~ (o + l < total)
  <2>1. o + l + 1 > last /\ o + l + 1 \in Int /\ last \in Int
    BY <1>1, <1>6
  <2> HIDE DEF last
  <2>2. SubSeq(found, o + l + 1, last) = <<>>
    BY <2>1, SubSeqEmpty
  <2> QED
    BY <1>2, <1>3, <1>4, <1>6, <2>2
<1> QED
  BY <1>5, <1>6

\* What the projects are answered: a page, or none.
LEMMA ProjectsAre ==
  ASSUME NEW s, NEW table, NEW z, z.at = "projects"
  PROVE  LET d == Dispatch(s, table, z)
             read == z.under = NoPrefix /\ Verb(z) = "GET" /\ ~ z.fails
         IN  /\ read => d.says = ProjectsPage(z.args, table)
             /\ d.says[1] = "page" => read
<1> DEFINE d == Dispatch(s, table, z)
           e == Endpoint(s, table, z)
           v == Verb(z)
<1>1. z.at \notin Tools /\ z.at \notin HttpGetOnlyRoutes /\ z.at # "/"
  BY RequestsOK DEF Unlisted, HttpGetOnlyRoutes
<1>2. <<v, z.at>> \in Endpoints <=> v = "GET" \/ v = "DELETE"
  BY DEF Endpoints, HttpGetOnlyRoutes
<1>3. d = IF z.under = NoPrefix /\ <<v, z.at>> \in Endpoints THEN e
          ELSE Refuses(404, "not_found")
  BY <1>1 DEF Dispatch, AtTool
<1>4. Refuses(404, "not_found").says[1] = "error"
  BY DEF Refuses, Says
<1>5. CASE z.under = NoPrefix /\ v = "GET" /\ ~ z.fails
  <2>1. d = e
    BY <1>2, <1>3, <1>5
  <2>2. e = Says(200, Payload(s, table, z))
    BY <1>5 DEF Endpoint
  <2>3. Payload(s, table, z) = ProjectsPage(z.args, table)
    BY <1>5 DEF Payload
  <2>4. d.says = ProjectsPage(z.args, table)
    BY <2>1, <2>2, <2>3 DEF Says
  <2> QED
    BY <1>5, <2>4
<1>6. CASE z.under # NoPrefix \/ v \notin {"GET", "DELETE"}
  <2>1. d = Refuses(404, "not_found")
    BY <1>2, <1>3, <1>6
  <2>2. d.says[1] # "page"
    BY <1>4, <2>1
  <2> QED
    BY <1>6, <2>2
<1>7. CASE z.under = NoPrefix /\ v = "GET" /\ z.fails
  <2>1. d = e
    BY <1>2, <1>3, <1>7
  <2>2. e = Refuses(500, "internal_error")
    BY <1>7 DEF Endpoint, ReadsDatabase
  <2>3. d.says[1] # "page"
    BY <2>1, <2>2 DEF Refuses, Says
  <2> QED
    BY <1>7, <2>3
<1>8. CASE z.under = NoPrefix /\ v = "DELETE"
  <2>1. d = e
    BY <1>2, <1>3, <1>8
  <2>2. Payload(s, table, z) = <<"deleted", z.body>>
    BY <1>8 DEF Payload
  <2>3. \/ e = Refuses(400, "bad_request")
        \/ e = Refuses(500, "internal_error")
        \/ e = Says(200, <<"deleted", z.body>>)
    BY <1>8, <2>2 DEF Endpoint
  <2>4. d.says[1] # "page"
    BY <2>1, <2>3 DEF Refuses, Says
  <2> QED
    BY <1>8, <2>4
<1> QED
  BY <1>5, <1>6, <1>7, <1>8

\* A request that is answered a page of projects.
ReadsProjects(q) ==
    /\ ~ AnswersAtOnce(setting, q) /\ Stripped(setting, q).at = "projects"
    /\ Stripped(setting, q).under = NoPrefix /\ Verb(q) = "GET" /\ ~ q.fails

\* The page is the one that is asked for.
LEMMA PageIs ==
  ASSUME NEW table, NEW q, Shaped(q), Stripped(setting, q).at = "projects"
  PROVE  /\ ReadsProjects(q) => Whole(table, q).says = ProjectsPage(q.args, table)
         /\ Whole(table, q).says[1] = "page" => ReadsProjects(q)
<1> DEFINE z == Stripped(setting, q)
           d == Dispatch(setting, table, z)
           w == Whole(table, q)
<1>1. StripsTo(setting, q, z)
  BY StrippedKeeps
<1>2. ~ AnswersAtOnce(setting, q) => WholeFits(w, q, z, d)
  BY WholeIs
<1>3. w.says[1] = "page" => ~ AnswersAtOnce(setting, q)
  BY SaidBy
<1>4. ReadsProjects(q) <=>
        ~ AnswersAtOnce(setting, q) /\ z.under = NoPrefix /\ Verb(q) = "GET" /\ ~ q.fails
  BY DEF ReadsProjects
<1>5. /\ z.under = NoPrefix /\ Verb(z) = "GET" /\ ~ z.fails => d.says = ProjectsPage(z.args, table)
      /\ d.says[1] = "page" => z.under = NoPrefix /\ Verb(z) = "GET" /\ ~ z.fails
  BY ProjectsAre
<1>6. z.at = "projects"
  OBVIOUS
<1> HIDE DEF z, d, w
<1>7. Verb(z) = Verb(q) /\ z.fails = q.fails /\ z.args = q.args
  BY <1>1 DEF StripsTo, Verb
<1>8. ~ AtMcp(z) /\ ~ AtEvents(z)
  BY <1>6 DEF AtMcp, AtEvents
<1>9. ~ AnswersAtOnce(setting, q) => w.says = d.says
  BY <1>2, <1>8 DEF WholeFits
<1>10. ReadsProjects(q) => w.says = ProjectsPage(q.args, table)
  BY <1>4, <1>5, <1>7, <1>9
<1>11. w.says[1] = "page" => ReadsProjects(q)
  BY <1>3, <1>4, <1>5, <1>7, <1>9
<1> QED
  BY <1>10, <1>11 DEF w

\* Asking for another page leads to the same place.
LEMMA SamePlace ==
  ASSUME NEW q, Shaped(q), NEW args, ReadsProjects(q)
  PROVE  LET p == [q EXCEPT !.args = args] IN
         ReadsProjects(p) /\ Shaped(p) /\ p.args = args
<1> DEFINE p == [q EXCEPT !.args = args]
           z == Stripped(setting, q)
           y == Stripped(setting, p)
<1>1. Shaped(p)
  BY StillShaped
<1>2. /\ p.method = q.method /\ p.under = q.under /\ p.at = q.at /\ p.fails = q.fails
      /\ p.forwardedPrefix = q.forwardedPrefix /\ p.authorization = q.authorization
      /\ p.args = args
  BY DEF Shaped, RequestFields
<1>3. StripsTo(setting, q, z)
  BY StrippedKeeps
<1>4. StripsTo(setting, p, y)
  BY <1>1, StrippedKeeps
<1>5. /\ ~ AnswersAtOnce(setting, q) /\ z.at = "projects"
      /\ z.under = NoPrefix /\ Verb(q) = "GET" /\ ~ q.fails
  BY DEF ReadsProjects
<1> HIDE DEF p, z, y
<1>6. EffectivePrefix(setting, p) = EffectivePrefix(setting, q)
  BY <1>2 DEF EffectivePrefix
<1>7. y.at = "projects" /\ y.under = NoPrefix
  BY <1>2, <1>3, <1>4, <1>5, <1>6 DEF StripsTo
<1>8. ~ AnswersAtOnce(setting, p)
  BY <1>2, <1>5 DEF AnswersAtOnce, Authorized, IsPublicProbe
<1>9. Verb(p) = "GET" /\ ~ p.fails
  BY <1>2, <1>5 DEF Verb
<1>10. ReadsProjects(p)
  BY <1>7, <1>8, <1>9 DEF ReadsProjects, y
<1> QED
  BY <1>1, <1>2, <1>10 DEF p

\* What a page of projects says.
PageFits(args, table, says) ==
    LET found == FilterProjects(ProjectFilterOpts(args), table)
        page == SliceWindow(found.kept, ParsePageParams(args, 50, 200))
    IN  /\ says[1] = "page" /\ says[2] = page /\ says[3] = found.drops
        /\ says[2].page = page.page /\ says[2].more = page.more
        /\ says[2].total = Len(found.kept)

\* It says the page, what it is a part of, and what is left out.
LEMMA PageSays ==
  ASSUME NEW args, NEW table
  PROVE  PageFits(args, table, ProjectsPage(args, table))
<1> DEFINE found == FilterProjects(ProjectFilterOpts(args), table)
           page == SliceWindow(found.kept, ParsePageParams(args, 50, 200))
<1>1. ProjectsPage(args, table) = <<"page", page, found.drops>>
  BY DEF ProjectsPage
<1>2. page.total = Len(found.kept)
  BY DEF SliceWindow
<1> HIDE DEF page, found
<1>3. /\ <<"page", page, found.drops>>[1] = "page"
      /\ <<"page", page, found.drops>>[2] = page
      /\ <<"page", page, found.drops>>[3] = found.drops
  OBVIOUS
<1> QED
  BY <1>1, <1>2, <1>3 DEF PageFits, page, found

\* What a page of projects, which q was answered, says of others.
PageTrue(table, q, says) ==
    LET page == ParsePageParams(q.args, 50, 200)
        next == [q EXCEPT !.args.offset = {page.offset + page.limit}]
    IN  /\ page.offset + page.limit <= Huge =>
            (says[2].more <=> Whole(table, next).says[2].page # <<>>)
        /\ says[2].total = Len(table) - (says[3]["dead_path"] + says[3]["inactive"]
                                         + says[3]["low_edges"])

\* A page says truly whether another follows, and how many there are.
LEMMA PagesAreTrue ==
  ASSUME NEW table \in Seq(ProjectRow), NEW q, Shaped(q), q.args \in Arguments,
         Stripped(setting, q).at = "projects", Whole(table, q).says[1] = "page"
  PROVE  PageTrue(table, q, Whole(table, q).says)
<1> DEFINE page == ParsePageParams(q.args, 50, 200)
           more == [q.args EXCEPT !.offset = {page.offset + page.limit}]
           next == [q EXCEPT !.args = more]
           found == FilterProjects(ProjectFilterOpts(q.args), table)
           says == Whole(table, q).says
           after == Whole(table, next).says
<1>1. ReadsProjects(q)
  BY PageIs
<1>2. PageFits(q.args, table, says)
  BY <1>1, PageIs, PageSays
<1>3. ReadsProjects(next) /\ Shaped(next) /\ next.args = more
  <2> HIDE DEF more
  <2> QED
    BY <1>1, SamePlace
<1>4. PageFits(more, table, after)
  <2> HIDE DEF next
  <2>1. Stripped(setting, next).at = "projects"
    BY <1>3 DEF ReadsProjects
  <2> QED
    BY <1>3, <2>1, PageIs, PageSays
<1>5. /\ more.offset = {page.offset + page.limit} /\ more.limit = q.args.limit
      /\ more.hideDead = q.args.hideDead /\ more.active = q.args.active
      /\ more.minEdges = q.args.minEdges
  <2> HIDE DEF page
  <2> QED
    BY DEF Arguments
<1>6. next = [q EXCEPT !.args.offset = {page.offset + page.limit}]
  <2> HIDE DEF page
  <2> QED
    OBVIOUS
<1> HIDE DEF more, next
<1>7. ProjectFilterOpts(more) = ProjectFilterOpts(q.args)
  BY <1>5 DEF ProjectFilterOpts
<1>8. FilterFits(found, Len(table))
  BY FilterCounts
<1>9. found.kept \in Seq(ProjectRow)
  BY <1>8 DEF FilterFits
<1>10. ASSUME page.offset + page.limit <= Huge
       PROVE  says[2].more <=> after[2].page # <<>>
  <2>1. AskedNext(q.args, more)
    BY <1>5, <1>10 DEF AskedNext
  <2>2. FollowedBy(page, ParsePageParams(more, 50, 200))
    BY <2>1, NextPage
  <2>3. says[2].more = SliceWindow(found.kept, page).more
    BY <1>2 DEF PageFits
  <2>4. after[2].page = SliceWindow(found.kept, ParsePageParams(more, 50, 200)).page
    BY <1>4, <1>7 DEF PageFits
  <2> HIDE DEF page, found, says, after
  <2> QED
    BY <1>9, <2>2, <2>3, <2>4, MoreIsNext
<1>11. says[2].total = Len(table) - (says[3]["dead_path"] + says[3]["inactive"]
                                     + says[3]["low_edges"])
  <2>1. says[2].total = Len(found.kept) /\ says[3] = found.drops
    BY <1>2 DEF PageFits
  <2> DEFINE l == Len(found.kept)
             a == found.drops["dead_path"]
             b == found.drops["inactive"]
             c == found.drops["low_edges"]
  <2>2. l \in Nat /\ a \in Nat /\ b \in Nat /\ c \in Nat /\ l + (a + b + c) = Len(table)
    <3>1. found.drops \in [Reason -> Nat] /\ found.kept \in Seq(ProjectRow)
      BY <1>8 DEF FilterFits
    <3>2. l + (a + b + c) = Len(table)
      BY <1>8 DEF FilterFits
    <3> HIDE DEF found
    <3> QED
      BY <3>1, <3>2, LenProperties DEF Reason
  <2>3. says[2].total = l /\ says[3]["dead_path"] = a /\ says[3]["inactive"] = b
        /\ says[3]["low_edges"] = c
    BY <2>1
  <2> HIDE DEF l, a, b, c, says
  <2> QED
    BY <2>2, <2>3
<1> HIDE DEF page, says, after
<1> QED
  BY <1>6, <1>10, <1>11 DEF PageTrue, page, says, after

-----------------------------------------------------------------------------
(* What is answered is what Whole says, and the projects stay projects.    *)

SparedTo(q, table, f, m) ==
    f = [n \in 0 .. m |-> IF n = 0 THEN <<>>
                          ELSE IF Spares(q, table[n]) THEN Append(f[n - 1], table[n])
                          ELSE f[n - 1]]

\* There is a function such as Spared asks for.
LEMMA SparedExists ==
  ASSUME NEW q, NEW table, NEW m \in Nat
  PROVE  \E f : SparedTo(q, table, f, m)
<1> DEFINE Bad == {n \in Nat : ~ \E f : SparedTo(q, table, f, n)}
           step(h, n) == IF Spares(q, table[n]) THEN Append(h[n - 1], table[n]) ELSE h[n - 1]
<1>1. SUFFICES ASSUME Bad # {} PROVE FALSE
  OBVIOUS
<1>2. PICK n \in Bad : \A j \in Bad : n <= j
  <2> HIDE DEF Bad
  <2>1. Bad \in SUBSET Nat
    BY DEF Bad
  <2> QED
    BY <1>1, <2>1, LeastExists
<1>3. n # 0
  <2>1. SparedTo(q, table, [d \in 0 .. 0 |-> <<>>], 0)
    BY DEF SparedTo
  <2> QED
    BY <2>1
<1>4. n - 1 \in Nat /\ n - 1 \notin Bad
  BY <1>2, <1>3
<1>5. PICK g : SparedTo(q, table, g, n - 1)
  BY <1>4
<1> DEFINE f == [d \in 0 .. n |-> IF d = n THEN step(g, n) ELSE g[d]]
<1>6. SparedTo(q, table, f, n)
  <2>1. \A d \in 0 .. n : f[d] = IF d = 0 THEN <<>> ELSE step(f, d)
    <3> TAKE d \in 0 .. n
    <3>1. CASE d = n
      BY <1>3, <3>1
    <3>2. CASE d # n
      <4>1. d \in 0 .. (n - 1) /\ (d # 0 => d - 1 \in 0 .. (n - 1) /\ d - 1 # n)
        BY <1>4, <3>2
      <4>2. g[d] = IF d = 0 THEN <<>> ELSE step(g, d)
        BY <1>5, <4>1 DEF SparedTo
      <4> QED
        BY <3>2, <4>1, <4>2
    <3> QED
      BY <3>1, <3>2
  <2>2. f = [d \in 0 .. n |-> f[d]]
    OBVIOUS
  <2> HIDE DEF f
  <2> QED
    BY <2>1, <2>2 DEF SparedTo
<1> HIDE DEF f
<1> QED
  BY <1>6

\* A request leaves rows of the projects table.
LEMMA SparedAreRows ==
  ASSUME NEW q, NEW table \in Seq(ProjectRow)
  PROVE  Spared(q, table) \in Seq(ProjectRow)
<1> DEFINE m == Len(table)
           f == CHOOSE g : SparedTo(q, table, g, m)
<1>1. m \in Nat
  BY LenProperties
<1>2. Spared(q, table) = f[m]
  BY DEF Spared, SparedTo
<1>3. SparedTo(q, table, f, m)
  BY <1>1, SparedExists
<1> HIDE DEF f
<1>4. \A n \in 0 .. m : f[n] = IF n = 0 THEN <<>>
                               ELSE IF Spares(q, table[n]) THEN Append(f[n - 1], table[n])
                               ELSE f[n - 1]
  BY <1>3 DEF SparedTo
<1> DEFINE Bad == {n \in 0 .. m : f[n] \notin Seq(ProjectRow)}
<1>5. Bad = {}
  <2> SUFFICES ASSUME Bad # {} PROVE FALSE
    OBVIOUS
  <2>1. PICK n \in Bad : \A j \in Bad : n <= j
    <3>1. Bad \in SUBSET Nat
      OBVIOUS
    <3> HIDE DEF Bad
    <3> QED
      BY <3>1, LeastExists
  <2>2. n # 0
    BY <1>1, <1>4, EmptySeq
  <2>3. n \in 1 .. m /\ n - 1 \in 0 .. m /\ ~ (n <= n - 1)
    BY <1>1, <2>1, <2>2
  <2>4. f[n - 1] \in Seq(ProjectRow)
    BY <2>1, <2>3
  <2>5. table[n] \in ProjectRow
    BY <2>3, ElementOfSeq
  <2>6. Append(f[n - 1], table[n]) \in Seq(ProjectRow)
    BY <2>4, <2>5, AppendProperties
  <2>7. f[n] = Append(f[n - 1], table[n]) \/ f[n] = f[n - 1]
    BY <1>4, <2>2, <2>3
  <2> QED
    BY <2>1, <2>4, <2>6, <2>7
<1> HIDE DEF m
<1>6. f[m] \in Seq(ProjectRow)
  BY <1>1, <1>5
<1> QED
  BY <1>2, <1>6 DEF m

\* Whole under the flags s.
WholeFor(s, table, q) ==
    IF AnswersAtOnce(s, q) THEN AtOnce(q) ELSE Answers(q, Route(s, table, q))

\* q, asked of a table of projects, was replied to with 429 or as Whole says.
RepliedTo(s, q, table, reply) ==
    /\ q \in HttpRequest /\ table \in Seq(ProjectRow)
    /\ reply.status = 429 \/ reply = WholeFor(s, table, q)

RepliesOK ==
    /\ projects \in Seq(ProjectRow)
    /\ \A i \in DOMAIN arrived : ~ AnswersAtOnce(setting, arrived[i].q)
    /\ exchange # <<>> => RepliedTo(setting, exchange[1], exchange[2], exchange[3])

\* Too many requests are answered 429.
LEMMA RefusedIs ==
  ASSUME NEW q
  PROVE  Answers(q, Refuses(429, "rate_limited")).status = 429
<1> DEFINE r == Refuses(429, "rate_limited")
           full == q.method # "HEAD"
<1>1. IsReply(r) /\ r.status = 429
  BY RepliesAre DEF Refuses, Says
<1> HIDE DEF r, full
<1>2. Resent(r, full, [r EXCEPT !.sent = full])
  BY <1>1, ReplySet
<1> QED
  BY <1>1, <1>2 DEF Resent, Answers, r, full

\* At first nothing has been answered.
LEMMA RepliesStart == GatewayInit => RepliesOK
<1> SUFFICES ASSUME GatewayInit PROVE RepliesOK
  OBVIOUS
<1>1. projects \in Seq(ProjectRow)
  BY RequestsOK DEF GatewayInit
<1>2. arrived = <<>> /\ exchange = <<>>
  BY DEF GatewayInit
<1>3. DOMAIN arrived = {}
  BY <1>2
<1> QED
  BY <1>1, <1>2, <1>3 DEF RepliesOK

\* Each step keeps it.
LEMMA RepliesStep == GatewayInv /\ RepliesOK /\ [GatewayNext]_gatewayVars => RepliesOK'
<1> SUFFICES ASSUME GatewayInv, RepliesOK, [GatewayNext]_gatewayVars PROVE RepliesOK'
  OBVIOUS
<1> USE DEF gatewayVars
<1>1. /\ setting \in Setting /\ arrived \in Seq(InFlight) /\ projects \in Seq(ProjectRow)
      /\ \A i \in DOMAIN arrived : ~ AnswersAtOnce(setting, arrived[i].q)
      /\ exchange # <<>> => RepliedTo(setting, exchange[1], exchange[2], exchange[3])
  BY DEF GatewayInv, GatewayTyping, RepliesOK
<1>2. CASE UNCHANGED <<setting, arrived, projects, exchange>>
  BY <1>1, <1>2 DEF RepliesOK
<1>3. ASSUME NEW q \in Sends[setting], Arrives(q)
      PROVE  RepliesOK'
  <2>1. setting' = setting /\ projects' = projects
    BY <1>3 DEF Arrives
  <2>2. q \in HttpRequest
    BY <1>1, RequestsOK
  <2>3. CASE AnswersAtOnce(setting, q)
    <3>1. arrived' = arrived /\ exchange' = <<q, projects, AtOnce(q)>>
      BY <1>3, <2>3 DEF Arrives
    <3>2. exchange'[1] = q /\ exchange'[2] = projects /\ exchange'[3] = AtOnce(q)
      BY <3>1
    <3>3. RepliedTo(setting, q, projects, AtOnce(q))
      BY <1>1, <2>2, <2>3 DEF RepliedTo, WholeFor
    <3> QED
      BY <1>1, <2>1, <3>1, <3>2, <3>3 DEF RepliesOK
  <2>4. CASE ~ AnswersAtOnce(setting, q)
    <3> DEFINE one == [q |-> q, read |-> clock]
    <3>1. arrived' = Append(arrived, one) /\ exchange' = <<>>
      BY <1>3, <2>4 DEF Arrives
    <3>2. \A i \in DOMAIN arrived' : arrived'[i] = one \/ (i \in DOMAIN arrived /\ arrived'[i] = arrived[i])
      <4>1. one \in InFlight
        BY DEF InFlight, GatewayInv, GatewayTyping
      <4> HIDE DEF one
      <4>2. /\ Len(Append(arrived, one)) = Len(arrived) + 1
            /\ \A i \in 1 .. Len(arrived) : Append(arrived, one)[i] = arrived[i]
            /\ Append(arrived, one)[Len(arrived) + 1] = one
            /\ Append(arrived, one) \in Seq(InFlight)
        BY <1>1, <4>1, AppendProperties
      <4>3. DOMAIN arrived = 1 .. Len(arrived) /\ Len(arrived) \in Nat
            /\ DOMAIN Append(arrived, one) = 1 .. Len(Append(arrived, one))
        BY <1>1, <4>2, LenProperties
      <4>4. ASSUME NEW i \in DOMAIN Append(arrived, one)
            PROVE  \/ Append(arrived, one)[i] = one
                   \/ i \in DOMAIN arrived /\ Append(arrived, one)[i] = arrived[i]
        <5>1. i = Len(arrived) + 1 \/ i \in 1 .. Len(arrived)
          BY <4>2, <4>3
        <5> QED
          BY <4>2, <4>3, <5>1
      <4> QED
        BY <3>1, <4>4
    <3>3. one.q = q
      OBVIOUS
    <3> HIDE DEF one
    <3>4. \A i \in DOMAIN arrived' : ~ AnswersAtOnce(setting, arrived'[i].q)
      BY <1>1, <2>4, <3>2, <3>3
    <3> QED
      BY <1>1, <2>1, <3>1, <3>4 DEF RepliesOK
  <2> QED
    BY <2>3, <2>4
<1>4. ASSUME NEW i \in DOMAIN arrived, Counts(i)
      PROVE  RepliesOK'
  <2> DEFINE r == arrived[i]
             left == SubSeq(arrived, 1, i - 1) \o SubSeq(arrived, i + 1, Len(arrived))
  <2>1. setting' = setting /\ arrived' = left
    BY <1>4 DEF Counts
  <2>2. DOMAIN arrived = 1 .. Len(arrived) /\ Len(arrived) \in Nat /\ i \in 1 .. Len(arrived)
    BY <1>1, LenProperties
  <2>3. r \in InFlight /\ ~ AnswersAtOnce(setting, r.q)
    BY <1>1, <2>2, ElementOfSeq
  <2>4. r.q \in HttpRequest
    BY <1>1, <2>3, RequestsOK DEF InFlight
  <2>5. \A k \in DOMAIN left : \E j \in DOMAIN arrived : left[k] = arrived[j]
    <3> DEFINE S == {arrived[j] : j \in DOMAIN arrived}
    <3>1. \A j \in 1 .. Len(arrived) : arrived[j] \in S
      BY <2>2
    <3>2. SubSeq(arrived, 1, i - 1) \in Seq(S)
      BY <1>1, <2>2, <3>1, SubSeqProperties
    <3>3. SubSeq(arrived, i + 1, Len(arrived)) \in Seq(S)
      BY <1>1, <2>2, <3>1, SubSeqProperties
    <3>4. left \in Seq(S)
      <4> HIDE DEF S
      <4> QED
        BY <3>2, <3>3, ConcatProperties
    <3> HIDE DEF left
    <3>5. \A k \in DOMAIN left : left[k] \in S
      <4> HIDE DEF S
      <4> QED
        BY <3>4, ElementOfSeq, LenProperties
    <3> QED
      BY <3>5
  <2>6. \A k \in DOMAIN arrived' : ~ AnswersAtOnce(setting, arrived'[k].q)
    <3> HIDE DEF left
    <3> QED
      BY <1>1, <2>1, <2>5
  <2> DEFINE limited == Answers(r.q, Refuses(429, "rate_limited"))
             routed == Answers(r.q, Route(setting, projects, r.q))
  <2>7. \/ exchange' = <<r.q, projects, limited>> /\ projects' = projects
        \/ /\ exchange' = <<r.q, projects, routed>>
           /\ projects' = Spared(Stripped(setting, r.q), projects)
    BY <1>4 DEF Counts
  <2>8. projects' \in Seq(ProjectRow)
    BY <1>1, <2>7, SparedAreRows
  <2>9. RepliedTo(setting, r.q, projects, limited)
    BY <1>1, <2>4, RefusedIs DEF RepliedTo
  <2>10. RepliedTo(setting, r.q, projects, routed)
    BY <1>1, <2>3, <2>4 DEF RepliedTo, WholeFor
  <2> HIDE DEF limited, routed, r, left
  <2>11. RepliedTo(setting, exchange'[1], exchange'[2], exchange'[3])
    BY <2>7, <2>9, <2>10
  <2> QED
    BY <2>1, <2>6, <2>8, <2>11 DEF RepliesOK
<1>5. CASE GatewayNext
  BY <1>2, <1>3, <1>4, <1>5 DEF GatewayNext, Tick
<1> QED
  BY <1>2, <1>5

\* Replies such as these are uniform.
LEMMA RepliesAreUniform == RepliesOK => GatewayIsUniform
<1> SUFFICES ASSUME RepliesOK, exchange # <<>>, exchange[3].status # 429
             PROVE  GatewayIsUniform
  BY DEF GatewayIsUniform
<1> DEFINE q == exchange[1]
           table == exchange[2]
           reply == exchange[3]
           z == Stripped(setting, q)
           prefixes == {NoPrefix, EffectivePrefix(setting, q)}
           page == ParsePageParams(q.args, 50, 200)
           next == [q EXCEPT !.args.offset = {page.offset + page.limit}]
<1>1. q \in HttpRequest /\ table \in Seq(ProjectRow) /\ reply = Whole(table, q)
  BY DEF RepliesOK, RepliedTo, Whole, WholeFor
<1>2. Shaped(q) /\ q.args \in Arguments
  BY <1>1, RequestsShaped DEF HttpRequest
<1> HIDE DEF q, table, reply
<1>3. reply.status = 405 => VerbsOf(table, q) = IF AtTool(z) /\ reply.allow = {}
                                                THEN {"POST"} ELSE reply.allow
  BY <1>1, <1>2, NotAllowedNames
<1>4. reply.status = 404 => VerbsOf(table, q) = {} \/ z.at \in Unlisted
  BY <1>1, <1>2, UnknownKnowsNone
<1>5. q.method = "HEAD" /\ z.at # "events"
        => reply = [Whole(table, [q EXCEPT !.method = "GET"]) EXCEPT !.sent = FALSE]
  BY <1>1, <1>2, HeadIsGet DEF As
<1>6. AtTool(z) /\ q.method = "POST" /\ z.at \notin HttpGetOnlyRoutes
        => reply.status \notin {404, 405}
  BY <1>1, <1>2, ToolIsReached
<1>7. q.under \in prefixes /\ q.at # "" =>
        \A u \in prefixes :
            \/ reply = Whole(table, [q EXCEPT !.under = u])
            \/ setting.keyed /\ z.at \in {"health", "openapi.json", "ready"}
  BY ZenonT(120), <1>1, <1>2, PrefixIsNothing
<1>8. reply.says[1] = "page" /\ z.at = "projects" =>
        /\ page.offset + page.limit <= Huge =>
            (reply.says[2].more <=> Whole(table, next).says[2].page # <<>>)
        /\ reply.says[2].total = Len(table) - (reply.says[3]["dead_path"]
                                               + reply.says[3]["inactive"]
                                               + reply.says[3]["low_edges"])
  <2> SUFFICES ASSUME reply.says[1] = "page", z.at = "projects"
               PROVE  /\ page.offset + page.limit <= Huge =>
                          (reply.says[2].more <=> Whole(table, next).says[2].page # <<>>)
                      /\ reply.says[2].total = Len(table) - (reply.says[3]["dead_path"]
                                                             + reply.says[3]["inactive"]
                                                             + reply.says[3]["low_edges"])
    OBVIOUS
  <2>1. PageTrue(table, q, Whole(table, q).says)
    BY <1>1, <1>2, PagesAreTrue
  <2> QED
    BY <1>1, <2>1 DEF PageTrue
<1>9. reply.says \in {<<"stream">>, <<"mcp">>} => ~ reply.zipped
  BY <1>1, <1>2, StreamsAreWhole
<1>10. VerbsOf(table, q) =
        {m \in {"GET", "HEAD", "POST", "PUT", "DELETE"} :
            /\ Whole(table, [q EXCEPT !.method = m]).status \notin {404, 405}
            /\ Whole(table, [q EXCEPT !.method = m]).says
                # <<"error", "streaming_unsupported">>}
  BY DEF VerbsOf, Verbs, ServesAs, As
<1> QED
  BY ZenonT(120), <1>3, <1>4, <1>5, <1>6, <1>7, <1>8, <1>9, <1>10 DEF GatewayIsUniform, q, table, reply

\* THEOREM: every verb, client and proxy finds the same addresses, and a page
\* is followed by another when it says so (GatewayIsUniform), for any requests,
\* flags, projects and tools.
THEOREM GatewayUniform == GatewayInit /\ [][GatewayNext]_gatewayVars => []GatewayIsUniform
<1>1. GatewayInit => GatewayInv /\ RepliesOK
  BY GatewayStarts, RepliesStart
<1>2. GatewayInv /\ RepliesOK /\ [GatewayNext]_gatewayVars => (GatewayInv /\ RepliesOK)'
  BY GatewayStep, RepliesStep
<1>3. GatewayInv /\ RepliesOK => GatewayIsUniform
  BY RepliesAreUniform
<1> QED
  BY <1>1, <1>2, <1>3, PTL
=============================================================================
