---------------------------- MODULE FreeQueueProofs ----------------------------
(***************************************************************************)
(* Proofs about the linked list of free blocks: that its links and its      *)
(* counter always agree, and that it implements the queue of BlockQueue.   *)
(*                                                                         *)
(* The invariant is that the links are those of SOME sequence s of          *)
(* different blocks (Linked).  Each operation is shown to turn the links of *)
(* s into those of the sequence the queue would have (CutFront, CutOut and *)
(* Insert), and reading the list back with get_all_free_blocks to return   *)
(* that sequence (ReadsBack), so the refinement follows step by step.       *)
(***************************************************************************)
EXTENDS FreeKVCacheBlockQueue, WellFoundedInduction, TLAPS

\* The i-th node of the list whose blocks are s, from the fake head, number 0,
\* to the fake tail.
At(s, i) == IF i = 0 THEN FakeHead ELSE IF i = Len(s) + 1 THEN FakeTail ELSE s[i]

\* s has no block twice.
Distinct(s) == s \in Seq(Blocks) /\ \A i, j \in 1..Len(s) : s[i] = s[j] => i = j

\* The links are those of the list s, and no other block has one.
Linked(s) ==
    /\ Distinct(s)
    /\ prev \in [Nodes -> Nodes \cup {None}]
    /\ next \in [Nodes -> Nodes \cup {None}]
    /\ num_free = Len(s)
    /\ \A i \in 0..Len(s) : next[At(s, i)] = At(s, i + 1) /\ prev[At(s, i + 1)] = At(s, i)
    /\ prev[FakeHead] = None /\ next[FakeTail] = None
    /\ \A b \in Blocks : (\A i \in 1..Len(s) : s[i] # b) => next[b] = None /\ prev[b] = None

\* s without its i-th block, and the chain of a splice.
Without(s, i) == SubSeq(s, 1, i - 1) \o SubSeq(s, i + 1, Len(s))
Chain(l, bs, r) == <<l>> \o bs \o <<r>>

\* The fake ends are nodes and no blocks, None is neither.
LEMMA Ends ==
    /\ FakeHead \notin Blocks /\ FakeTail \notin Blocks /\ None \notin Nodes
    /\ FakeHead # FakeTail /\ FakeHead \in Nodes /\ FakeTail \in Nodes
    /\ Blocks \subseteq Nodes /\ \A b \in Blocks : b \in Nat
    /\ NumBlocks \in Nat /\ NumBlocks > 0
  BY QueueAssumption DEF Blocks, Nodes

\* A set of natural numbers that is not empty has a least element: the
\* induction of this module is by the least counterexample.
LEMMA Least ==
    ASSUME NEW S \in SUBSET Nat, S # {} PROVE \E x \in S : \A y \in S : x <= y
  <1>1. PICK x \in S : \A y \in S : ~(<<y, x>> \in OpToRel(<, Nat))
    BY NatLessThanWellFounded, WFMin, Zenon
  <1>2. \A y \in S : ~(y < x)
    BY Zenon, <1>1 DEF OpToRel
  <1>3. QED BY <1>2

\* The elements of a sequence over S are in S.
LEMMA SeqElement ==
    ASSUME NEW S, NEW s \in Seq(S), NEW i \in 1..Len(s) PROVE s[i] \in S
  OBVIOUS

\* The nodes of a list from fake head to fake tail are all different.
LEMMA AtFacts ==
    ASSUME NEW s, Distinct(s)
    PROVE  /\ Len(s) \in Nat
           /\ \A i \in 1..Len(s) : At(s, i) = s[i] /\ s[i] \in Blocks
           /\ At(s, 0) = FakeHead /\ At(s, Len(s) + 1) = FakeTail
           /\ \A i \in 0..(Len(s) + 1) : At(s, i) \in Nodes
           /\ \A i, j \in 0..(Len(s) + 1) : At(s, i) = At(s, j) => i = j
  <1>1. Len(s) \in Nat /\ \A i \in 1..Len(s) : s[i] \in Blocks
    BY SeqElement DEF Distinct
  <1>2. \A i \in 1..Len(s) : At(s, i) = s[i]
    BY <1>1 DEF At
  <1>3. At(s, 0) = FakeHead /\ At(s, Len(s) + 1) = FakeTail
    BY <1>1 DEF At
  <1>4. \A i \in 0..(Len(s) + 1) : i = 0 \/ i = Len(s) + 1 \/ i \in 1..Len(s)
    BY <1>1
  <1>5. \A i \in 0..(Len(s) + 1) : At(s, i) \in Nodes
    BY <1>1, <1>2, <1>3, <1>4, Ends
  <1>6. ASSUME NEW i \in 0..(Len(s) + 1), NEW j \in 0..(Len(s) + 1), At(s, i) = At(s, j)
        PROVE  i = j
    <2>1. i \in 1..Len(s) /\ j \in 1..Len(s) => s[i] = s[j]
      BY <1>2, <1>6
    <2>2. i \in 1..Len(s) /\ j \in 1..Len(s) => i = j
      BY <2>1 DEF Distinct
    <2>3. QED BY <1>1, <1>2, <1>3, <1>4, <1>6, <2>2, Ends
  <1>7. QED BY <1>1, <1>2, <1>3, <1>5, <1>6

\* An injection does not go into a smaller set.
LEMMA Pigeons ==
    ASSUME NEW n \in Nat, NEW m \in Nat, NEW f \in [1..m -> 0..(n - 1)],
           \A i, j \in 1..m : f[i] = f[j] => i = j
    PROVE  m <= n
  <1> DEFINE Into(k, l, g) == /\ g \in [1..l -> 0..(k - 1)]
                              /\ \A i, j \in 1..l : g[i] = g[j] => i = j
             Bad == {k \in Nat : \E l \in Nat : l > k /\ \E g : Into(k, l, g)}
  <1>1. SUFFICES ASSUME Bad # {} PROVE FALSE
    <2>1. ~(m <= n) => m > n
      OBVIOUS
    <2>2. Into(n, m, f)
      OBVIOUS
    <2> HIDE DEF Into
    <2>3. m > n => n \in Bad
      BY <2>2
    <2>4. QED BY Zenon, <2>1, <2>3
  <1>2. PICK k \in Bad : \A x \in Bad : k <= x
    <2>1. Bad \in SUBSET Nat
      OBVIOUS
    <2>2. QED BY Zenon, <1>1, <2>1, Least
  <1>a. PICK l \in Nat : l > k /\ \E g : Into(k, l, g)
    BY Zenon
  <1>3. PICK g : l > k /\ Into(k, l, g)
    BY Zenon, <1>a
  <1>4. k \in Nat /\ l \in 1..l /\ g[l] \in 0..(k - 1)
    BY <1>3
  <1>5. k > 0 /\ k - 1 \in Nat /\ l - 1 \in Nat /\ l - 1 > k - 1
    BY <1>3, <1>4
  <1> DEFINE h == [i \in 1..(l - 1) |-> IF g[i] = k - 1 THEN g[l] ELSE g[i]]
  <1>6. \A i \in 1..(l - 1) : i \in 1..l /\ i # l /\ g[i] \in 0..(k - 1) /\ g[i] # g[l]
    <2>1. TAKE i \in 1..(l - 1)
    <2>2. i \in 1..l /\ i # l
      BY <1>5
    <2>3. QED BY <1>3, <1>4, <2>2
  <1>7. \A i \in 1..(l - 1) : h[i] \in 0..((k - 1) - 1)
    BY <1>4, <1>5, <1>6, SMTT(30)
  <1>8. \A i, j \in 1..(l - 1) : h[i] = h[j] => i = j
    BY <1>3, <1>6
  <1>9. Into(k - 1, l - 1, h)
    BY <1>7, <1>8
  <1>10. k - 1 \in Bad
    <2> HIDE DEF Into, h
    <2>1. QED BY <1>5, <1>9
  <1>11. k <= k - 1
    <2> HIDE DEF Bad
    <2>1. QED BY <1>2, <1>10
  <1>12. QED BY <1>4, <1>11

\* A list has no more blocks than there are.
LEMMA Bounded ==
    ASSUME NEW s, Distinct(s) PROVE Len(s) <= NumBlocks
  <1>1. s \in Seq(Blocks) /\ Len(s) \in Nat /\ NumBlocks \in Nat
    BY Ends DEF Distinct
  <1>2. s \in [1..Len(s) -> 0..(NumBlocks - 1)]
    BY <1>1 DEF Blocks
  <1>3. QED BY SMTT(30), <1>1, <1>2, Pigeons DEF Distinct

\* Following the next links from the fake head, as popleft_n and
\* get_all_free_blocks do, goes through the list to the fake tail and then None.
LEMMA WalkIs ==
    ASSUME NEW s, Linked(s)
    PROVE  \A n \in 0..(NumBlocks + 1) : Walk[n] = IF n <= Len(s) THEN At(s, n + 1) ELSE None
  <1> DEFINE D == 0..(NumBlocks + 1)
             F(w) == [n \in D |-> IF n = 0 THEN next[FakeHead]
                                  ELSE IF w[n - 1] = None THEN None ELSE next[w[n - 1]]]
             W == [n \in D |-> IF n <= Len(s) THEN At(s, n + 1) ELSE None]
  <1>0. /\ Distinct(s) /\ Len(s) \in Nat /\ Len(s) <= NumBlocks /\ NumBlocks \in Nat
        /\ \A i \in 0..Len(s) : next[At(s, i)] = At(s, i + 1)
        /\ next[FakeTail] = None
    BY AtFacts, Bounded, Ends DEF Linked
  <1>1. Walk = CHOOSE w : w = F(w)
    BY DEF Walk
  <1>2. ASSUME NEW n \in D, n # 0
        PROVE  (IF W[n - 1] = None THEN None ELSE next[W[n - 1]]) = W[n]
    <2>1. n - 1 \in D /\ n \in Nat /\ n - 1 \in Nat
      BY <1>0, <1>2
    <2>2. CASE n <= Len(s)
      <3>1. W[n - 1] = At(s, n) /\ W[n] = At(s, n + 1) /\ n \in 0..(Len(s) + 1) /\ n \in 0..Len(s)
        BY <1>0, <2>1, <2>2
      <3>2. At(s, n) # None
        BY <1>0, <3>1, AtFacts, Ends
      <3>3. QED BY <1>0, <3>1, <3>2
    <2>3. CASE n = Len(s) + 1
      <3>1. W[n - 1] = At(s, n) /\ W[n] = None
        BY <1>0, <2>1, <2>3
      <3>2. At(s, n) = FakeTail /\ FakeTail # None
        BY <1>0, <2>3, AtFacts, Ends
      <3>3. QED BY <1>0, <3>1, <3>2
    <2>4. CASE n > Len(s) + 1
      BY <1>0, <2>1, <2>4
    <2>5. QED BY <1>0, <2>1, <2>2, <2>3, <2>4
  <1>3. W[0] = next[FakeHead] /\ 0 \in D
    BY <1>0, AtFacts
  <1>4. W = F(W)
    <2>1. \A n \in D : W[n] = F(W)[n]
      BY <1>2, <1>3
    <2>2. QED BY <2>1
  <1>5. Walk = F(Walk)
    <2> HIDE DEF F, W
    <2>1. QED BY <1>1, <1>4
  <1>6. \A n \in D : Walk[n] = IF n = 0 THEN next[FakeHead]
                               ELSE IF Walk[n - 1] = None THEN None ELSE next[Walk[n - 1]]
    BY Zenon, <1>5
  <1> DEFINE Bad == {n \in D : Walk[n] # W[n]}
  <1>7. Bad = {}
    <2>1. SUFFICES ASSUME Bad # {} PROVE FALSE
      OBVIOUS
    <2>2. Bad \in SUBSET Nat
      OBVIOUS
    <2>3. PICK n \in Bad : \A m \in Bad : n <= m
      BY Zenon, <2>1, <2>2, Least
    <2>4. n \in D /\ Walk[n] # W[n]
      OBVIOUS
    <2>5. n # 0
      BY <1>3, <1>6, <2>4
    <2>6. n - 1 \in D /\ ~(n <= n - 1)
      BY <1>0, <2>4, <2>5
    <2>7. Walk[n - 1] = W[n - 1]
      BY <2>3, <2>6
    <2>8. QED BY <1>2, <1>6, <2>4, <2>5, <2>7
  <1>8. QED BY Zenon, <1>7

\* get_all_free_blocks returns the list the links are those of.
LEMMA ReadsBack ==
    ASSUME NEW s, Linked(s) PROVE AllFreeBlocks = s
  <1>0. /\ s \in Seq(Blocks) /\ Len(s) \in Nat /\ Len(s) <= NumBlocks /\ NumBlocks \in Nat
        /\ \A i \in 0..Len(s) : next[At(s, i)] = At(s, i + 1)
        /\ next[FakeTail] = None
    BY Zenon, AtFacts, Bounded, Ends DEF Linked, Distinct
  <1> DEFINE D == 0..(NumBlocks + 1)
             End(n) == /\ Walk[n] = None \/ next[Walk[n]] = None
                       /\ \A m \in 0..(n-1) : Walk[m] # None /\ next[Walk[m]] # None
  <1>1. \A m \in 0..(Len(s) - 1) : Walk[m] # None /\ next[Walk[m]] # None
    <2>1. TAKE m \in 0..(Len(s) - 1)
    <2>2. Walk[m] = At(s, m + 1) /\ next[Walk[m]] = At(s, (m + 1) + 1)
      <3>1. m \in D /\ m <= Len(s) /\ m + 1 \in 0..Len(s)
        BY <1>0
      <3>2. Walk[m] = At(s, m + 1)
        BY <3>1, WalkIs
      <3>3. QED BY <1>0, <3>1, <3>2
    <2>3. m + 1 \in 0..(Len(s) + 1) /\ (m + 1) + 1 \in 0..(Len(s) + 1)
      BY <1>0
    <2>4. QED BY <2>2, <2>3, AtFacts, Ends DEF Linked
  <1>2. Walk[Len(s)] = FakeTail
    <2>1. Len(s) \in D /\ Len(s) <= Len(s)
      BY <1>0
    <2>2. QED BY <2>1, WalkIs, AtFacts DEF Linked
  <1>3. Len(s) \in D /\ End(Len(s))
    BY <1>0, <1>1, <1>2
  <1>4. ASSUME NEW n \in D, End(n) PROVE n = Len(s)
    <2>1. CASE n < Len(s)
      <3>1. n \in 0..(Len(s) - 1)
        BY <1>0, <2>1
      <3>2. QED BY <1>1, <1>4, <3>1
    <2>2. CASE n > Len(s)
      <3>1. Len(s) \in 0..(n - 1)
        BY <1>0, <2>2
      <3>2. QED BY <1>0, <1>2, <1>4, <3>1
    <2>3. QED BY <1>0, <2>1, <2>2
  <1>5. (CHOOSE n \in D : End(n)) = Len(s)
    <2> HIDE DEF End, D
    <2>1. QED BY <1>3, <1>4
  <1>6. AllFreeBlocks = [i \in 1..Len(s) |-> Walk[i-1]]
    BY Zenon, <1>5 DEF AllFreeBlocks
  <1>7. \A i \in 1..Len(s) : Walk[i - 1] = s[i]
    <2>1. TAKE i \in 1..Len(s)
    <2>2. i - 1 \in D /\ i - 1 <= Len(s) /\ (i - 1) + 1 = i
      BY <1>0
    <2>3. Walk[i - 1] = At(s, (i - 1) + 1)
      BY <2>2, WalkIs
    <2>4. QED BY <2>2, <2>3, AtFacts DEF Linked
  <1>8. s = [i \in 1..Len(s) |-> s[i]]
    BY <1>0
  <1>9. QED BY <1>6, <1>7, <1>8

\* The same with the list quantified.
LEMMA ReadsBackAlways == \A s : Linked(s) => AllFreeBlocks = s
  BY ReadsBack

\* The same of the state after a step.
LEMMA ReadsBackNext == (\A s : Linked(s) => AllFreeBlocks = s)'
  BY ReadsBackAlways, PTL

\* What is left of a list without its first n blocks.
LEMMA SuffixFacts ==
    ASSUME NEW s \in Seq(Blocks), NEW n \in 0..Len(s), NEW t, t = SubSeq(s, n + 1, Len(s))
    PROVE  /\ t \in Seq(Blocks) /\ Len(t) = Len(s) - n
           /\ \A i \in 1..Len(t) : t[i] = s[i + n]
  OBVIOUS

\* popleft and popleft_n: relinking the fake head to the node after the
\* first n leaves the list without them, and those n unlinked.
LEMMA CutFront ==
    ASSUME NEW s, Linked(s), NEW n \in 1..Len(s), NEW t, t = SubSeq(s, n + 1, Len(s)),
           next' = [x \in Nodes |-> IF x \in {s[i] : i \in 1..n} THEN None
                                    ELSE IF x = FakeHead THEN At(s, n + 1) ELSE next[x]],
           prev' = [x \in Nodes |-> IF x \in {s[i] : i \in 1..n} THEN None
                                    ELSE IF x = At(s, n + 1) THEN FakeHead ELSE prev[x]],
           num_free' = num_free - n
    PROVE  Linked(t)'
  <1> DEFINE P == {s[i] : i \in 1..n}
  <1>0. /\ Distinct(s) /\ s \in Seq(Blocks) /\ Len(s) \in Nat /\ n \in Nat /\ n <= Len(s) /\ n > 0
        /\ \A i \in 0..Len(s) : next[At(s, i)] = At(s, i + 1) /\ prev[At(s, i + 1)] = At(s, i)
        /\ prev[FakeHead] = None /\ next[FakeTail] = None
        /\ \A b \in Blocks : (\A i \in 1..Len(s) : s[i] # b) => next[b] = None /\ prev[b] = None
        /\ num_free = Len(s)
        /\ prev \in [Nodes -> Nodes \cup {None}] /\ next \in [Nodes -> Nodes \cup {None}]
    BY DEF Linked, Distinct
  <1>1. /\ \A i \in 1..Len(s) : At(s, i) = s[i] /\ s[i] \in Blocks
        /\ At(s, 0) = FakeHead /\ At(s, Len(s) + 1) = FakeTail
        /\ \A i \in 0..(Len(s) + 1) : At(s, i) \in Nodes
        /\ \A i, j \in 0..(Len(s) + 1) : At(s, i) = At(s, j) => i = j
    BY <1>0, AtFacts
  <1>2. t \in Seq(Blocks) /\ Len(t) = Len(s) - n /\ Len(t) \in Nat
        /\ \A i \in 1..Len(t) : t[i] = s[i + n]
    BY <1>0, SuffixFacts, SMTT(30)
  <1>3. Distinct(t)
    <2>1. ASSUME NEW i \in 1..Len(t), NEW j \in 1..Len(t), t[i] = t[j] PROVE i = j
      <3>1. i + n \in 1..Len(s) /\ j + n \in 1..Len(s) /\ s[i + n] = s[j + n]
        BY <1>0, <1>2, <2>1
      <3>2. i + n = j + n
        BY <1>0, <3>1 DEF Distinct
      <3>3. QED BY <1>0, <3>2
    <2>2. QED BY Zenon, <1>2, <2>1 DEF Distinct
  <1>4. At(t, 0) = FakeHead /\ \A i \in 1..(Len(t) + 1) : At(t, i) = At(s, i + n)
    <2>1. At(t, 0) = FakeHead
      BY DEF At
    <2>2. ASSUME NEW i \in 1..(Len(t) + 1) PROVE At(t, i) = At(s, i + n)
      <3>1. CASE i = Len(t) + 1
        <4>1. i + n = Len(s) + 1 /\ i # 0
          BY <1>0, <1>2, <3>1
        <4>2. QED BY <1>1, <3>1, <4>1 DEF At
      <3>2. CASE i \in 1..Len(t)
        <4>1. i + n \in 1..Len(s) /\ i # 0 /\ i # Len(t) + 1
          BY <1>0, <1>2, <3>2
        <4>2. QED BY <1>1, <1>2, <3>2, <4>1 DEF At
      <3>3. QED BY <1>2, <3>1, <3>2
    <2>3. QED BY <2>1, <2>2
  <1>5. \A i \in 0..(Len(s) + 1) : At(s, i) \in P <=> i \in 1..n
    <2>1. ASSUME NEW i \in 0..(Len(s) + 1), At(s, i) \in P PROVE i \in 1..n
      <3>1. PICK j \in 1..n : At(s, i) = s[j]
        BY <2>1
      <3>2. j \in 1..Len(s) /\ j \in 0..(Len(s) + 1)
        BY <1>0
      <3>3. At(s, j) = s[j]
        BY <1>1, <3>2
      <3>4. i = j
        BY <1>1, <3>1, <3>2, <3>3
      <3>5. QED BY <3>4
    <2>2. ASSUME NEW i \in 1..n PROVE At(s, i) \in P
      <3>1. i \in 1..Len(s)
        BY <1>0
      <3>2. QED BY <1>1, <3>1
    <2>3. QED BY Zenon, <2>1, <2>2
  <1> HIDE DEF P
  <1>6. /\ \A x \in Nodes : next'[x] = IF x \in P THEN None
                                       ELSE IF x = FakeHead THEN At(s, n + 1) ELSE next[x]
        /\ \A x \in Nodes : prev'[x] = IF x \in P THEN None
                                       ELSE IF x = At(s, n + 1) THEN FakeHead ELSE prev[x]
    BY DEF P
  <1>7. n + 1 \in 0..(Len(s) + 1) /\ n + 1 \notin 1..n /\ At(s, n + 1) \in Nodes /\ At(s, n + 1) \notin P
    <2>1. n + 1 \in 0..(Len(s) + 1) /\ n + 1 \notin 1..n
      BY <1>0
    <2>2. QED BY <1>1, <1>5, <2>1
  <1>8. FakeHead \notin P /\ FakeTail \notin P /\ FakeHead # At(s, n + 1)
    <2>1. 0 \in 0..(Len(s) + 1) /\ Len(s) + 1 \in 0..(Len(s) + 1) /\ 0 \notin 1..n
          /\ Len(s) + 1 \notin 1..n /\ n + 1 # 0
      BY <1>0
    <2>2. QED BY <1>1, <1>5, <1>7, <2>1
  <1>9. ASSUME NEW i \in 0..Len(t)
        PROVE  next'[At(t, i)] = At(t, i + 1) /\ prev'[At(t, i + 1)] = At(t, i)
    <2>1. CASE i = 0
      <3>1. At(t, 0 + 1) = At(s, n + 1)
        <4>1. 1 \in 1..(Len(t) + 1) /\ 1 + n = n + 1 /\ 0 + 1 = 1
          BY <1>0, <1>2
        <4>2. QED BY <1>4, <4>1
      <3>2. QED BY <1>4, <1>6, <1>7, <1>8, <2>1, <3>1, Ends
    <2>2. CASE i # 0
      <3>1. /\ i \in 1..(Len(t) + 1) /\ i + 1 \in 1..(Len(t) + 1) /\ i + n \in 0..Len(s)
            /\ i + n \in 0..(Len(s) + 1) /\ (i + n) + 1 \in 0..(Len(s) + 1)
            /\ (i + 1) + n = (i + n) + 1
            /\ i + n \notin 1..n /\ (i + n) + 1 \notin 1..n /\ (i + n) + 1 # n + 1 /\ i + n # 0
        BY <1>0, <1>2, <2>2
      <3>2. At(t, i) = At(s, i + n) /\ At(t, i + 1) = At(s, (i + n) + 1)
        <4>1. At(t, i) = At(s, i + n) /\ At(t, i + 1) = At(s, (i + 1) + n)
          BY <1>4, <3>1
        <4>2. QED BY <3>1, <4>1
      <3>3. /\ At(s, i + n) \in Nodes /\ At(s, i + n) \notin P /\ At(s, i + n) # FakeHead
            /\ At(s, (i + n) + 1) \in Nodes /\ At(s, (i + n) + 1) \notin P
            /\ At(s, (i + n) + 1) # At(s, n + 1)
        <4>1. 0 \in 0..(Len(s) + 1)
          BY <1>0
        <4>2. QED BY <1>1, <1>5, <1>7, <3>1, <4>1
      <3>4. next[At(s, i + n)] = At(s, (i + n) + 1) /\ prev[At(s, (i + n) + 1)] = At(s, i + n)
        BY SMTT(30), <1>0, <3>1
      <3>5. QED BY <1>6, <3>2, <3>3, <3>4
    <2>3. QED BY <2>1, <2>2
  <1>10. prev'[FakeHead] = None /\ next'[FakeTail] = None
    BY <1>0, <1>6, <1>8, Ends
  <1>11. ASSUME NEW b \in Blocks, \A i \in 1..Len(t) : t[i] # b
         PROVE  next'[b] = None /\ prev'[b] = None
    <2>1. CASE b \in P
      BY <1>6, <2>1, Ends
    <2>2. CASE b \notin P
      <3>1. ASSUME NEW i \in 1..Len(s) PROVE s[i] # b
        <4>1. CASE i \in 1..n
          BY <2>2, <4>1 DEF P
        <4>2. CASE i \notin 1..n
          <5>1. i - n \in 1..Len(t) /\ (i - n) + n = i
            BY <1>0, <1>2, <4>2
          <5>2. t[i - n] = s[i]
            BY <1>2, <5>1
          <5>3. QED BY SMTT(30), <1>11, <5>1, <5>2
        <4>3. QED BY <4>1, <4>2
      <3>2. b # At(s, n + 1)
        <4>1. n + 1 \in 1..Len(s) \/ n + 1 = Len(s) + 1
          BY <1>0
        <4>2. QED BY <1>1, <3>1, <4>1, Ends
      <3>3. next[b] = None /\ prev[b] = None
        BY <1>0, <3>1
      <3>4. QED BY <1>6, <2>2, <3>2, <3>3, Ends
    <2>3. QED BY <2>1, <2>2
  <1>12. prev' \in [Nodes -> Nodes \cup {None}] /\ next' \in [Nodes -> Nodes \cup {None}]
    BY <1>0, <1>7, Ends
  <1>13. num_free' = Len(t)
    BY <1>0, <1>2
  <1>14. QED BY Zenon, <1>3, <1>9, <1>10, <1>11, <1>12, <1>13 DEF Linked, At

\* Two lists one after the other.
LEMMA ConcatFacts ==
    ASSUME NEW S, NEW u \in Seq(S), NEW v \in Seq(S)
    PROVE  /\ u \o v \in Seq(S) /\ Len(u \o v) = Len(u) + Len(v) /\ Len(u) \in Nat /\ Len(v) \in Nat
           /\ \A j \in 1..Len(u) : (u \o v)[j] = u[j]
           /\ \A j \in 1..Len(v) : (u \o v)[Len(u) + j] = v[j]
  OBVIOUS

\* A list without its i-th block.
LEMMA WithoutFacts ==
    ASSUME NEW s \in Seq(Blocks), NEW i \in 1..Len(s)
    PROVE  /\ Without(s, i) \in Seq(Blocks) /\ Len(Without(s, i)) = Len(s) - 1
           /\ \A j \in 1..(Len(s) - 1) : Without(s, i)[j] = IF j < i THEN s[j] ELSE s[j + 1]
  <1> DEFINE u == SubSeq(s, 1, i - 1)
             v == SubSeq(s, i + 1, Len(s))
             t == Without(s, i)
  <1>0. Len(s) \in Nat /\ i \in Nat /\ i <= Len(s) /\ i > 0
    OBVIOUS
  <1>1. u \in Seq(Blocks) /\ Len(u) = i - 1 /\ \A j \in 1..(i - 1) : u[j] = s[j]
    OBVIOUS
  <1>2. v \in Seq(Blocks) /\ Len(v) = Len(s) - i /\ \A j \in 1..(Len(s) - i) : v[j] = s[j + i]
    OBVIOUS
  <1>3. t = u \o v
    BY DEF Without
  <1> HIDE DEF u, v, t
  <1>4. /\ t \in Seq(Blocks) /\ Len(t) = Len(u) + Len(v)
        /\ \A j \in 1..Len(u) : t[j] = u[j]
        /\ \A j \in 1..Len(v) : t[Len(u) + j] = v[j]
    <2>1. u \in Seq(Blocks) /\ v \in Seq(Blocks)
      BY <1>1, <1>2
    <2>2. /\ u \o v \in Seq(Blocks) /\ Len(u \o v) = Len(u) + Len(v)
          /\ \A j \in 1..Len(u) : (u \o v)[j] = u[j]
          /\ \A j \in 1..Len(v) : (u \o v)[Len(u) + j] = v[j]
      BY <2>1
    <2>3. QED BY <1>3, <2>2, Zenon
  <1>5. Len(t) = Len(s) - 1
    BY <1>0, <1>1, <1>2, <1>4
  <1>6. ASSUME NEW j \in 1..(Len(s) - 1) PROVE t[j] = IF j < i THEN s[j] ELSE s[j + 1]
    <2>1. CASE j < i
      <3>1. j \in 1..(i - 1)
        BY <1>0, <2>1
      <3>2. QED BY <1>1, <1>4, <2>1, <3>1
    <2>2. CASE ~(j < i)
      <3>1. j - (i - 1) \in 1..(Len(s) - i) /\ (j - (i - 1)) + i = j + 1 /\ (i - 1) + (j - (i - 1)) = j
        BY <1>0, <2>2
      <3>2. t[(i - 1) + (j - (i - 1))] = v[j - (i - 1)]
        BY <1>1, <1>2, <1>4, <3>1
      <3>3. v[j - (i - 1)] = s[(j - (i - 1)) + i]
        BY <1>2, <3>1
      <3>4. QED BY <2>2, <3>1, <3>2, <3>3
    <2>3. QED BY <2>1, <2>2
  <1>7. QED BY <1>4, <1>5, <1>6 DEF t

\* remove: linking the two neighbours of the i-th block to each other leaves
\* the list without it.
LEMMA CutOut ==
    ASSUME NEW s, Linked(s), NEW i \in 1..Len(s), NEW t,
           t = Without(s, i),
           next' = [next EXCEPT ![At(s, i - 1)] = At(s, i + 1), ![s[i]] = None],
           prev' = [prev EXCEPT ![At(s, i + 1)] = At(s, i - 1), ![s[i]] = None],
           num_free' = num_free - 1
    PROVE  Linked(t)'
  <1>0. /\ Distinct(s) /\ s \in Seq(Blocks) /\ Len(s) \in Nat /\ i \in Nat /\ i <= Len(s) /\ i > 0
        /\ \A j \in 0..Len(s) : next[At(s, j)] = At(s, j + 1) /\ prev[At(s, j + 1)] = At(s, j)
        /\ prev[FakeHead] = None /\ next[FakeTail] = None
        /\ \A b \in Blocks : (\A j \in 1..Len(s) : s[j] # b) => next[b] = None /\ prev[b] = None
        /\ num_free = Len(s)
        /\ prev \in [Nodes -> Nodes \cup {None}] /\ next \in [Nodes -> Nodes \cup {None}]
    BY DEF Linked, Distinct
  <1>1. /\ \A j \in 1..Len(s) : At(s, j) = s[j] /\ s[j] \in Blocks
        /\ At(s, 0) = FakeHead /\ At(s, Len(s) + 1) = FakeTail
        /\ \A j \in 0..(Len(s) + 1) : At(s, j) \in Nodes
        /\ \A j, k \in 0..(Len(s) + 1) : At(s, j) = At(s, k) => j = k
    BY <1>0, AtFacts
  <1>2. t \in Seq(Blocks) /\ Len(t) = Len(s) - 1 /\ Len(t) \in Nat
        /\ \A j \in 1..Len(t) : t[j] = IF j < i THEN s[j] ELSE s[j + 1]
    <2>1. /\ t \in Seq(Blocks) /\ Len(t) = Len(s) - 1
          /\ \A j \in 1..(Len(s) - 1) : t[j] = IF j < i THEN s[j] ELSE s[j + 1]
      BY Zenon, <1>0, WithoutFacts
    <2>2. Len(s) - 1 \in Nat
      BY <1>0
    <2>3. QED BY SMTT(30), <2>1, <2>2
  <1>3. Distinct(t)
    <2>1. ASSUME NEW j \in 1..Len(t), NEW k \in 1..Len(t), t[j] = t[k] PROVE j = k
      <3>1. /\ j \in 1..Len(s) /\ j + 1 \in 1..Len(s) /\ k \in 1..Len(s) /\ k + 1 \in 1..Len(s)
            /\ j \in Nat /\ k \in Nat
        BY <1>0, <1>2
      <3>2. (IF j < i THEN s[j] ELSE s[j + 1]) = (IF k < i THEN s[k] ELSE s[k + 1])
        BY Zenon, <1>2, <2>1
      <3>3. (IF j < i THEN j ELSE j + 1) = (IF k < i THEN k ELSE k + 1)
        BY <1>0, <3>1, <3>2 DEF Distinct
      <3>4. QED BY <1>0, <3>1, <3>3
    <2>2. QED BY <1>2, <2>1 DEF Distinct
  <1>4. \A j \in 0..(Len(t) + 1) : At(t, j) = IF j < i THEN At(s, j) ELSE At(s, j + 1)
    <2>1. TAKE j \in 0..(Len(t) + 1)
    <2>2. CASE j = 0
      BY <1>0, <1>1, <2>2 DEF At
    <2>3. CASE j = Len(t) + 1
      <3>1. j # 0 /\ ~(j < i) /\ j + 1 = Len(s) + 1
        BY <1>0, <1>2, <2>3
      <3>2. QED BY <1>1, <2>3, <3>1 DEF At
    <2>4. CASE j \in 1..Len(t)
      <3>1. j # 0 /\ j # Len(t) + 1 /\ j \in 1..Len(s) /\ j + 1 \in 1..Len(s)
        BY <1>0, <1>2, <2>4
      <3>2. At(t, j) = t[j]
        BY <3>1 DEF At
      <3>3. QED BY <1>1, <1>2, <2>4, <3>1, <3>2
    <2>5. QED BY <1>2, <2>2, <2>3, <2>4
  <1>5. i \in 0..(Len(s) + 1) /\ i - 1 \in 0..(Len(s) + 1) /\ i + 1 \in 0..(Len(s) + 1)
        /\ s[i] = At(s, i) /\ i - 1 # i /\ i + 1 # i
    BY <1>0, <1>1
  <1>6. ASSUME NEW j \in 0..(Len(s) + 1)
        PROVE  /\ next'[At(s, j)] = IF j = i THEN None ELSE IF j = i - 1 THEN At(s, i + 1) ELSE next[At(s, j)]
               /\ prev'[At(s, j)] = IF j = i THEN None ELSE IF j = i + 1 THEN At(s, i - 1) ELSE prev[At(s, j)]
    <2>1. At(s, j) \in Nodes /\ (At(s, j) = s[i] <=> j = i)
          /\ (At(s, j) = At(s, i - 1) <=> j = i - 1) /\ (At(s, j) = At(s, i + 1) <=> j = i + 1)
      BY <1>1, <1>5
    <2>2. QED BY <1>0, <2>1
  <1>7. ASSUME NEW j \in 0..Len(t)
        PROVE  next'[At(t, j)] = At(t, j + 1) /\ prev'[At(t, j + 1)] = At(t, j)
    <2>0. j \in 0..(Len(t) + 1) /\ j + 1 \in 0..(Len(t) + 1)
      BY <1>2
    <2>1. CASE j + 1 < i
      <3>1. j \in 0..(Len(s) + 1) /\ j + 1 \in 0..(Len(s) + 1) /\ j \in 0..Len(s) /\ j < i
            /\ j # i /\ j # i - 1 /\ j + 1 # i /\ j + 1 # i + 1
        BY <1>0, <1>2, <2>1
      <3>2. At(t, j) = At(s, j) /\ At(t, j + 1) = At(s, j + 1)
        BY <1>4, <2>0, <2>1, <3>1
      <3>3. QED BY Zenon, <1>0, <1>6, <3>1, <3>2
    <2>2. CASE j + 1 = i
      <3>1. j = i - 1 /\ j < i /\ ~(j + 1 < i) /\ (j + 1) + 1 = i + 1
        BY <1>0, <2>2
      <3>2. At(t, j) = At(s, i - 1) /\ At(t, j + 1) = At(s, i + 1)
        BY <1>4, <2>0, <2>2, <3>1
      <3>3. i - 1 # i + 1
        BY <1>0
      <3>4. QED BY Zenon, <1>5, <1>6, <3>2, <3>3
    <2>3. CASE j + 1 > i
      <3>1. j + 1 \in 0..(Len(s) + 1) /\ (j + 1) + 1 \in 0..(Len(s) + 1) /\ j + 1 \in 0..Len(s)
            /\ ~(j < i) /\ ~(j + 1 < i)
            /\ j + 1 # i /\ j + 1 # i - 1 /\ (j + 1) + 1 # i /\ (j + 1) + 1 # i + 1
        BY <1>0, <1>2, <2>3
      <3>2. At(t, j) = At(s, j + 1) /\ At(t, j + 1) = At(s, (j + 1) + 1)
        BY <1>4, <2>0, <3>1
      <3>3. next[At(s, j + 1)] = At(s, (j + 1) + 1) /\ prev[At(s, (j + 1) + 1)] = At(s, j + 1)
        BY <1>0, <3>1
      <3>4. next'[At(s, j + 1)] = next[At(s, j + 1)] /\ prev'[At(s, (j + 1) + 1)] = prev[At(s, (j + 1) + 1)]
        BY Zenon, <1>6, <3>1
      <3>5. QED BY <3>2, <3>3, <3>4
    <2>4. QED BY <1>0, <1>2, <2>1, <2>2, <2>3
  <1>8. prev'[FakeHead] = None /\ next'[FakeTail] = None
    <2>1. 0 \in 0..(Len(s) + 1) /\ Len(s) + 1 \in 0..(Len(s) + 1) /\ 0 # i /\ 0 # i + 1
          /\ Len(s) + 1 # i /\ Len(s) + 1 # i - 1
      BY <1>0
    <2>2. prev'[At(s, 0)] = prev[At(s, 0)] /\ next'[At(s, Len(s) + 1)] = next[At(s, Len(s) + 1)]
      BY Zenon, <1>6, <2>1
    <2>3. QED BY <1>0, <1>1, <2>2
  <1>9. ASSUME NEW b \in Blocks, \A j \in 1..Len(t) : t[j] # b
        PROVE  next'[b] = None /\ prev'[b] = None
    <2>1. CASE b = s[i]
      BY Zenon, <1>5, <1>6, <2>1
    <2>2. CASE b # s[i]
      <3>1. ASSUME NEW j \in 1..Len(s) PROVE s[j] # b
        <4>1. CASE j < i
          <5>1. j \in 1..Len(t)
            BY <1>0, <1>2, <4>1
          <5>2. QED BY <1>2, <1>9, <4>1, <5>1
        <4>2. CASE j = i
          BY <2>2, <4>2
        <4>3. CASE j > i
          <5>1. j - 1 \in 1..Len(t) /\ ~(j - 1 < i) /\ (j - 1) + 1 = j
            BY <1>0, <1>2, <4>3
          <5>2. t[j - 1] = s[j]
            BY <1>2, <5>1
          <5>3. QED BY <1>9, <5>1, <5>2
        <4>4. QED BY <1>0, <4>1, <4>2, <4>3
      <3>2. ASSUME NEW j \in 0..(Len(s) + 1) PROVE b # At(s, j)
        <4>1. j = 0 \/ j = Len(s) + 1 \/ j \in 1..Len(s)
          <5>1. Len(s) \in Nat
            BY <1>0
          <5>2. QED BY <5>1
        <4>2. QED BY <1>1, <3>1, <4>1, Ends
      <3>3. next[b] = None /\ prev[b] = None
        BY <1>0, <3>1
      <3>4. b # At(s, i - 1) /\ b # At(s, i + 1)
        BY <1>5, <3>2
      <3>5. QED BY <1>0, <2>2, <3>3, <3>4, Ends
    <2>3. QED BY <2>1, <2>2
  <1>10. prev' \in [Nodes -> Nodes \cup {None}] /\ next' \in [Nodes -> Nodes \cup {None}]
    BY Zenon, <1>0, <1>1, <1>5
  <1>11. num_free' = Len(t)
    BY <1>0, <1>2
  <1>12. QED BY Zenon, <1>3, <1>7, <1>8, <1>9, <1>10, <1>11 DEF Linked, At

\* The chain of the blocks bs between two nodes.
LEMMA ChainFacts ==
    ASSUME NEW bs \in Seq(Blocks), NEW l, NEW r, NEW c, c = Chain(l, bs, r)
    PROVE  /\ Len(c) = Len(bs) + 2 /\ Len(bs) \in Nat
           /\ c[1] = l /\ c[Len(bs) + 2] = r
           /\ \A j \in 1..Len(bs) : c[j + 1] = bs[j]
  <1> DEFINE S == Blocks \cup {l, r}
  <1>1. <<l>> \in Seq(S) /\ bs \in Seq(S) /\ <<r>> \in Seq(S) /\ Len(<<l>>) = 1 /\ Len(<<r>>) = 1
        /\ <<l>>[1] = l /\ <<r>>[1] = r /\ Len(bs) \in Nat
    OBVIOUS
  <1> DEFINE u == <<l>> \o bs
  <1>2. u \in Seq(S) /\ Len(u) = Len(bs) + 1 /\ u[1] = l /\ \A j \in 1..Len(bs) : u[j + 1] = bs[j]
    BY <1>1
  <1> HIDE DEF u, S
  <1>3. c = u \o <<r>>
    BY DEF u, Chain
  <1>4. Len(c) = Len(bs) + 2 /\ c[Len(bs) + 2] = r /\ \A j \in 1..(Len(bs) + 1) : c[j] = u[j]
    BY <1>1, <1>2, <1>3
  <1>5. 1 \in 1..(Len(bs) + 1) /\ \A j \in 1..Len(bs) : j + 1 \in 1..(Len(bs) + 1)
    BY <1>1
  <1>6. QED BY <1>1, <1>2, <1>4, <1>5

\* What Splice writes: the links along the chain and no other.
LEMMA SpliceFacts ==
    ASSUME NEW bs \in Seq(Blocks), NEW l \in Nodes, NEW r \in Nodes, l # r,
           \A i, j \in 1..Len(bs) : bs[i] = bs[j] => i = j,
           \A j \in 1..Len(bs) : bs[j] # l /\ bs[j] # r,
           Splice(l, bs, r), NEW c, c = Chain(l, bs, r)
    PROVE  /\ \A j \in 1..(Len(bs) + 1) : next'[c[j]] = c[j + 1] /\ prev'[c[j + 1]] = c[j]
           /\ \A x \in Nodes : x # l /\ (\A j \in 1..Len(bs) : bs[j] # x) => next'[x] = next[x]
           /\ \A x \in Nodes : x # r /\ (\A j \in 1..Len(bs) : bs[j] # x) => prev'[x] = prev[x]
           /\ DOMAIN next' = Nodes /\ DOMAIN prev' = Nodes
           /\ next' = [x \in Nodes |-> next'[x]] /\ prev' = [x \in Nodes |-> prev'[x]]
           /\ num_free' = num_free + Len(bs)
  <1> DEFINE at(x) == CHOOSE i \in 1..Len(c) : c[i] = x
  <1>1. /\ Len(c) = Len(bs) + 2 /\ Len(bs) \in Nat
        /\ c[1] = l /\ c[Len(bs) + 2] = r
        /\ \A j \in 1..Len(bs) : c[j + 1] = bs[j]
    BY ChainFacts
  <1>2. \A j \in 1..Len(c) : j = 1 \/ j = Len(bs) + 2 \/ \E k \in 1..Len(bs) : j = k + 1
    <2>1. TAKE j \in 1..Len(c)
    <2>2. CASE j # 1 /\ j # Len(bs) + 2
      <3>1. j - 1 \in 1..Len(bs) /\ j = (j - 1) + 1
        BY <1>1, <2>2
      <3>2. QED BY <3>1
    <2>3. QED BY <2>2
  <1>3. ASSUME NEW i \in 1..Len(c), NEW j \in 1..Len(c), c[i] = c[j] PROVE i = j
    <2>1. CASE i = 1
      BY <1>1, <1>2, <1>3, <2>1
    <2>2. CASE i = Len(bs) + 2
      BY <1>1, <1>2, <1>3, <2>2
    <2>3. ASSUME NEW k \in 1..Len(bs), i = k + 1 PROVE i = j
      <3>1. c[i] = bs[k]
        BY <1>1, <2>3
      <3>2. PICK m \in 1..Len(bs) : j = m + 1
        BY Zenon, <1>1, <1>2, <1>3, <3>1
      <3>3. bs[k] = bs[m]
        BY Zenon, <1>1, <1>3, <3>1, <3>2
      <3>4. QED BY <2>3, <3>2, <3>3
    <2>4. QED BY <1>2, <2>1, <2>2, <2>3
  <1>4. \A i \in 1..Len(c) : at(c[i]) = i
    <2>1. TAKE i \in 1..Len(c)
    <2>2. QED BY <1>3
  <1>5. \A i \in 1..Len(c) : c[i] \in Nodes
    <2>1. TAKE i \in 1..Len(c)
    <2>2. \A k \in 1..Len(bs) : bs[k] \in Nodes
      BY SeqElement, Ends
    <2>3. QED BY <1>1, <1>2, <2>2
  <1>6. /\ next' = [x \in Nodes |-> IF \E i \in 1..(Len(c) - 1) : c[i] = x THEN c[at(x) + 1] ELSE next[x]]
        /\ prev' = [x \in Nodes |-> IF \E i \in 2..Len(c) : c[i] = x THEN c[at(x) - 1] ELSE prev[x]]
        /\ num_free' = num_free + Len(bs)
    BY DEF Splice, Chain
  <1> HIDE DEF at
  <1>7. ASSUME NEW j \in 1..(Len(bs) + 1) PROVE next'[c[j]] = c[j + 1] /\ prev'[c[j + 1]] = c[j]
    <2>1. j \in 1..Len(c) /\ j + 1 \in 1..Len(c) /\ j \in 1..(Len(c) - 1) /\ j + 1 \in 2..Len(c)
          /\ (j + 1) - 1 = j
      BY <1>1
    <2>2. at(c[j]) = j /\ at(c[j + 1]) = j + 1 /\ c[j] \in Nodes /\ c[j + 1] \in Nodes
      BY <1>4, <1>5, <2>1
    <2>3. next'[c[j]] = c[at(c[j]) + 1]
      BY <1>6, <2>1, <2>2
    <2>4. prev'[c[j + 1]] = c[at(c[j + 1]) - 1]
      BY <1>6, <2>1, <2>2
    <2>5. QED BY <2>1, <2>2, <2>3, <2>4
  <1>8. ASSUME NEW x \in Nodes, x # l, \A j \in 1..Len(bs) : bs[j] # x PROVE next'[x] = next[x]
    <2>1. ASSUME NEW i \in 1..(Len(c) - 1) PROVE c[i] # x
      <3>1. i \in 1..Len(c) /\ i # Len(bs) + 2
        BY <1>1
      <3>2. QED BY <1>1, <1>2, <1>8, <3>1
    <2>2. QED BY <1>6, <2>1
  <1>9. ASSUME NEW x \in Nodes, x # r, \A j \in 1..Len(bs) : bs[j] # x PROVE prev'[x] = prev[x]
    <2>1. ASSUME NEW i \in 2..Len(c) PROVE c[i] # x
      <3>1. i \in 1..Len(c) /\ i # 1
        BY <1>1
      <3>2. QED BY <1>1, <1>2, <1>9, <3>1
    <2>2. QED BY <1>6, <2>1
  <1>10. next' = [x \in Nodes |-> next'[x]] /\ prev' = [x \in Nodes |-> prev'[x]]
    BY <1>6
  <1>11. QED BY Zenon, <1>6, <1>7, <1>8, <1>9, <1>10

\* The numbers of the nodes of a list.
LEMMA NodeNumbers ==
    ASSUME NEW n \in Nat, NEW i \in 0..(n + 1) PROVE i = 0 \/ i = n + 1 \/ i \in 1..n
  OBVIOUS

\* Where the chain of a splice after the k-th node ends.
LEMMA ChainEnd ==
    ASSUME NEW k \in Nat, NEW m \in Nat, NEW n \in Nat, k <= n
    PROVE  k + ((m + 2) - 1) = (k + 1) + m /\ k + 1 \in (k + 1)..(n + 1)
  OBVIOUS

\* Which element of that chain the i-th node is.
LEMMA ChainPlace ==
    ASSUME NEW k \in Nat, NEW m \in Nat, NEW i \in Nat, k <= i, i <= k + m
    PROVE  \E a \in 1..(m + 1) :
              /\ a \in 1..(m + 2) /\ a + 1 \in 1..(m + 2)
              /\ k + (a - 1) = i /\ k + ((a + 1) - 1) = i + 1
  <1>1. /\ (i - k) + 1 \in 1..(m + 1) /\ (i - k) + 1 \in 1..(m + 2)
        /\ ((i - k) + 1) + 1 \in 1..(m + 2)
        /\ k + (((i - k) + 1) - 1) = i /\ k + ((((i - k) + 1) + 1) - 1) = i + 1
    OBVIOUS
  <1>2. QED BY <1>1

\* append, append_n and prepend_n: splicing a batch of unlinked blocks between
\* the k-th node and the next one gives the list t with the batch there.
LEMMA Insert ==
    ASSUME NEW s, Linked(s), NEW k \in 0..Len(s), NEW bs \in Seq(Blocks),
           \A i, j \in 1..Len(bs) : bs[i] = bs[j] => i = j,
           \A j \in 1..Len(bs) : next[bs[j]] = None,
           Splice(At(s, k), bs, At(s, k + 1)),
           NEW t \in Seq(Blocks), Len(t) = Len(s) + Len(bs),
           \A j \in 1..k : t[j] = s[j],
           \A j \in 1..Len(bs) : t[k + j] = bs[j],
           \A j \in (k + 1)..Len(s) : t[j + Len(bs)] = s[j]
    PROVE  Linked(t)'
  <1> DEFINE m == Len(bs)
             c == Chain(At(s, k), bs, At(s, k + 1))
  <1>0. /\ Distinct(s) /\ s \in Seq(Blocks) /\ Len(s) \in Nat /\ k \in Nat /\ k <= Len(s)
        /\ m \in Nat
    BY SMTT(30) DEF Linked, Distinct
  <1>1. /\ \A j \in 0..Len(s) : next[At(s, j)] = At(s, j + 1) /\ prev[At(s, j + 1)] = At(s, j)
        /\ prev[FakeHead] = None /\ next[FakeTail] = None
        /\ \A b \in Blocks : (\A j \in 1..Len(s) : s[j] # b) => next[b] = None /\ prev[b] = None
        /\ num_free = Len(s)
        /\ prev \in [Nodes -> Nodes \cup {None}] /\ next \in [Nodes -> Nodes \cup {None}]
    BY DEF Linked
  <1>2. /\ \A j \in 1..Len(s) : At(s, j) = s[j] /\ s[j] \in Blocks
        /\ At(s, 0) = FakeHead /\ At(s, Len(s) + 1) = FakeTail
        /\ \A j \in 0..(Len(s) + 1) : At(s, j) \in Nodes
        /\ \A i, j \in 0..(Len(s) + 1) : At(s, i) = At(s, j) => i = j
    BY <1>0, AtFacts
  <1>3. \A j \in 1..m : bs[j] \in Blocks /\ bs[j] \in Nodes
    BY SeqElement, Ends
  <1>4. ASSUME NEW i \in 0..(Len(s) + 1), NEW j \in 1..m PROVE At(s, i) # bs[j]
    <2>1. i = 0 \/ i = Len(s) + 1 \/ i \in 1..Len(s)
      BY Zenon, <1>0, NodeNumbers
    <2>2. CASE i \in 1..Len(s)
      <3>1. i \in 0..Len(s) /\ i + 1 \in 0..(Len(s) + 1)
        BY <1>0, <2>2
      <3>2. next[At(s, i)] \in Nodes
        BY <1>1, <1>2, <3>1
      <3>3. QED BY <3>2, Ends, SMTT(30)
    <2>3. QED BY Zenon, <1>2, <1>3, <2>1, <2>2, Ends
  <1>5. k \in 0..(Len(s) + 1) /\ k + 1 \in 0..(Len(s) + 1) /\ k # k + 1
    BY <1>0
  <1>6. /\ \A j \in 1..(m + 1) : next'[c[j]] = c[j + 1] /\ prev'[c[j + 1]] = c[j]
        /\ \A x \in Nodes : x # At(s, k) /\ (\A j \in 1..m : bs[j] # x) => next'[x] = next[x]
        /\ \A x \in Nodes : x # At(s, k + 1) /\ (\A j \in 1..m : bs[j] # x) => prev'[x] = prev[x]
        /\ DOMAIN next' = Nodes /\ DOMAIN prev' = Nodes
        /\ next' = [x \in Nodes |-> next'[x]] /\ prev' = [x \in Nodes |-> prev'[x]]
        /\ num_free' = num_free + m
    <2>1. At(s, k) \in Nodes /\ At(s, k + 1) \in Nodes /\ At(s, k) # At(s, k + 1)
      BY <1>2, <1>5
    <2>2. \A j \in 1..m : bs[j] # At(s, k) /\ bs[j] # At(s, k + 1)
      BY <1>4, <1>5
    <2>3. QED BY <2>1, <2>2, SpliceFacts
  <1>7. /\ c[1] = At(s, k) /\ c[m + 2] = At(s, k + 1)
        /\ \A j \in 1..m : c[j + 1] = bs[j]
    BY ChainFacts
  <1> HIDE DEF c
  <1>8. Len(t) = Len(s) + m /\ Len(t) \in Nat
    BY <1>0
  <1>9. \A j \in 0..k : At(t, j) = At(s, j)
    <2>1. TAKE j \in 0..k
    <2>2. CASE j = 0
      BY <2>2 DEF At
    <2>3. CASE j # 0
      <3>1. j \in 1..k /\ j \in 1..Len(s) /\ j # Len(t) + 1
        BY <1>0, <1>8, <2>3
      <3>2. QED BY <1>2, <2>3, <3>1 DEF At
    <2>4. QED BY <2>2, <2>3
  <1>10. \A j \in 1..m : At(t, k + j) = bs[j]
    <2>1. TAKE j \in 1..m
    <2>2. k + j # 0 /\ k + j # Len(t) + 1
      BY <1>0, <1>8
    <2>3. QED BY <2>2 DEF At
  <1>11. \A j \in (k + 1)..(Len(s) + 1) : At(t, j + m) = At(s, j)
    <2>1. TAKE j \in (k + 1)..(Len(s) + 1)
    <2>2. CASE j = Len(s) + 1
      <3>1. j + m = Len(t) + 1 /\ j + m # 0
        BY <1>0, <1>8, <2>2
      <3>2. QED BY <1>2, <2>2, <3>1 DEF At
    <2>3. CASE j # Len(s) + 1
      <3>1. j \in (k + 1)..Len(s) /\ j \in 1..Len(s) /\ j + m # 0 /\ j + m # Len(t) + 1
        BY <1>0, <1>8, <2>3
      <3>2. QED BY <1>2, <3>1 DEF At
    <2>4. QED BY <2>2, <2>3
  <1>12. \A j \in 1..(m + 2) : At(t, k + (j - 1)) = c[j]
    <2>1. TAKE j \in 1..(m + 2)
    <2>2. CASE j = 1
      <3>1. k + (j - 1) = k /\ k \in 0..k
        BY <1>0, <2>2
      <3>2. QED BY <1>7, <1>9, <2>2, <3>1
    <2>3. CASE j = m + 2
      <3>1. k + (j - 1) = (k + 1) + m /\ k + 1 \in (k + 1)..(Len(s) + 1)
        BY Zenon, <1>0, <2>3, ChainEnd
      <3>2. QED BY <1>7, <1>11, <2>3, <3>1
    <2>4. CASE j # 1 /\ j # m + 2
      <3>1. j - 1 \in 1..m /\ (j - 1) + 1 = j
        BY <1>0, <2>4
      <3>2. c[(j - 1) + 1] = bs[j - 1] /\ At(t, k + (j - 1)) = bs[j - 1]
        BY <1>7, <1>10, <3>1
      <3>3. QED BY <3>1, <3>2
    <2>5. QED BY <2>2, <2>3, <2>4
  <1>13. ASSUME NEW i \in 0..Len(t)
         PROVE  next'[At(t, i)] = At(t, i + 1) /\ prev'[At(t, i + 1)] = At(t, i)
    <2>1. CASE i < k
      <3>1. i \in 0..k /\ i + 1 \in 0..k /\ i \in 0..Len(s) /\ i \in 0..(Len(s) + 1)
            /\ i + 1 \in 0..(Len(s) + 1) /\ i # k /\ i + 1 # k + 1
        BY <1>0, <2>1
      <3>2. At(t, i) = At(s, i) /\ At(t, i + 1) = At(s, i + 1)
        BY <1>9, <3>1
      <3>3. /\ At(s, i) \in Nodes /\ At(s, i) # At(s, k)
            /\ At(s, i + 1) \in Nodes /\ At(s, i + 1) # At(s, k + 1)
        BY <1>2, <1>5, <3>1
      <3>4. \A j \in 1..m : bs[j] # At(s, i) /\ bs[j] # At(s, i + 1)
        BY <1>4, <3>1
      <3>5. next'[At(s, i)] = next[At(s, i)] /\ prev'[At(s, i + 1)] = prev[At(s, i + 1)]
        BY <1>6, <3>3, <3>4
      <3>6. QED BY <1>1, <3>1, <3>2, <3>5
    <2>2. CASE k <= i /\ i <= k + m
      <3>0. i \in Nat
        BY <1>8
      <3>1. PICK a \in 1..(m + 1) :
               /\ a \in 1..(m + 2) /\ a + 1 \in 1..(m + 2)
               /\ k + (a - 1) = i /\ k + ((a + 1) - 1) = i + 1
        BY <1>0, <2>2, <3>0, ChainPlace
      <3>2. At(t, k + (a - 1)) = c[a] /\ At(t, k + ((a + 1) - 1)) = c[a + 1]
        BY Zenon, <1>12, <3>1
      <3>3. At(t, i) = c[a] /\ At(t, i + 1) = c[a + 1]
        BY Zenon, <3>1, <3>2
      <3>4. next'[c[a]] = c[a + 1] /\ prev'[c[a + 1]] = c[a]
        BY <1>6, <3>1
      <3>5. QED BY <3>3, <3>4
    <2>3. CASE i > k + m
      <3> DEFINE a == i - m
      <3>1. /\ a \in (k + 1)..(Len(s) + 1) /\ a + 1 \in (k + 1)..(Len(s) + 1) /\ a \in 0..Len(s)
            /\ a \in 0..(Len(s) + 1) /\ a + 1 \in 0..(Len(s) + 1) /\ a # k /\ a + 1 # k + 1
            /\ a + m = i /\ (a + 1) + m = i + 1
        BY SMTT(30), <1>0, <1>8, <2>3
      <3> HIDE DEF a
      <3>2. At(t, a + m) = At(s, a) /\ At(t, (a + 1) + m) = At(s, a + 1)
        BY <1>11, <3>1
      <3>3. /\ At(s, a) \in Nodes /\ At(s, a) # At(s, k)
            /\ At(s, a + 1) \in Nodes /\ At(s, a + 1) # At(s, k + 1)
        BY SMTT(30), <1>2, <1>5, <3>1
      <3>4. \A j \in 1..m : bs[j] # At(s, a) /\ bs[j] # At(s, a + 1)
        BY Zenon, <1>4, <3>1
      <3>5. next'[At(s, a)] = next[At(s, a)] /\ prev'[At(s, a + 1)] = prev[At(s, a + 1)]
        BY <1>6, <3>3, <3>4
      <3>6. QED BY <1>1, <3>1, <3>2, <3>5
    <2>4. QED BY <1>0, <2>1, <2>2, <2>3
  <1>14. prev'[FakeHead] = None /\ next'[FakeTail] = None
    <2>1. 0 \in 0..(Len(s) + 1) /\ Len(s) + 1 \in 0..(Len(s) + 1) /\ 0 # k + 1 /\ Len(s) + 1 # k
      BY <1>0
    <2>2. FakeHead # At(s, k + 1) /\ FakeTail # At(s, k)
          /\ \A j \in 1..m : bs[j] # FakeHead /\ bs[j] # FakeTail
      BY <1>2, <1>3, <1>5, <2>1, Ends, SMTT(30)
    <2>3. next'[FakeTail] = next[FakeTail]
      BY Zenon, <1>6, <2>2, Ends
    <2>4. prev'[FakeHead] = prev[FakeHead]
      BY Zenon, <1>6, <2>2, Ends
    <2>5. QED BY <1>1, <2>3, <2>4
  <1>15. ASSUME NEW b \in Blocks, \A j \in 1..Len(t) : t[j] # b
         PROVE  next'[b] = None /\ prev'[b] = None
    <2>1. ASSUME NEW j \in 1..m PROVE bs[j] # b
      <3>1. k + j \in 1..Len(t)
        BY <1>0, <1>8
      <3>2. QED BY <1>15, <3>1
    <2>2. ASSUME NEW j \in 1..Len(s) PROVE s[j] # b
      <3>1. CASE j \in 1..k
        <4>1. j \in 1..Len(t)
          BY <1>0, <1>8
        <4>2. QED BY <1>15, <3>1, <4>1
      <3>2. CASE j \notin 1..k
        <4>1. j \in (k + 1)..Len(s) /\ j + m \in 1..Len(t)
          BY <1>0, <1>8, <3>2
        <4>2. QED BY <1>15, <4>1
      <3>3. QED BY <3>1, <3>2
    <2>3. ASSUME NEW i \in 0..(Len(s) + 1) PROVE b # At(s, i)
      <3>1. i = 0 \/ i = Len(s) + 1 \/ i \in 1..Len(s)
        BY <1>0, NodeNumbers
      <3>2. i \in 1..Len(s) => At(s, i) # b
        BY <1>2, <2>2
      <3>3. QED BY <1>2, <3>1, <3>2, Ends
    <2>4. next[b] = None /\ prev[b] = None
      BY <1>1, <2>2
    <2>5. QED BY <1>5, <1>6, <2>1, <2>3, <2>4, Ends
  <1>16. ASSUME NEW i \in 0..(Len(t) + 1) PROVE At(t, i) \in Nodes
    <2>1. CASE i \in 0..k
      BY <1>0, <1>2, <1>9, <2>1
    <2>2. CASE i \in (k + 1)..(k + m)
      <3>1. i - k \in 1..m /\ k + (i - k) = i
        BY <1>0, <2>2
      <3>2. At(t, k + (i - k)) = bs[i - k] /\ bs[i - k] \in Nodes
        BY <1>3, <1>10, <3>1
      <3>3. QED BY <3>1, <3>2
    <2>3. CASE i > k + m
      <3>1. i - m \in (k + 1)..(Len(s) + 1) /\ i - m \in 0..(Len(s) + 1) /\ (i - m) + m = i
        BY <1>0, <1>8, <2>3
      <3>2. At(t, (i - m) + m) = At(s, i - m) /\ At(s, i - m) \in Nodes
        BY <1>2, <1>11, <3>1
      <3>3. QED BY <3>1, <3>2
    <2>4. QED BY <1>0, <1>8, <2>1, <2>2, <2>3
  <1>17. ASSUME NEW i \in 1..Len(t), NEW j \in 1..Len(t), t[i] = t[j] PROVE i = j
    <2>1. ASSUME NEW x \in 1..Len(t)
          PROVE  \/ x \in 1..k /\ x \in 1..Len(s) /\ t[x] = s[x]
                 \/ x - k \in 1..m /\ t[x] = bs[x - k]
                 \/ x - m \in (k + 1)..Len(s) /\ x - m \in 1..Len(s) /\ t[x] = s[x - m]
      <3>1. CASE x \in 1..k
        BY <1>0, <3>1
      <3>2. CASE x \in (k + 1)..(k + m)
        <4>1. x - k \in 1..m /\ k + (x - k) = x
          BY <1>0, <3>2
        <4>2. QED BY <4>1
      <3>3. CASE x > k + m
        <4>1. x - m \in (k + 1)..Len(s) /\ x - m \in 1..Len(s) /\ (x - m) + m = x
          BY <1>0, <1>8, <3>3
        <4>2. QED BY SMTT(30), <4>1
      <3>4. QED BY <1>0, <3>1, <3>2, <3>3
    <2>2. \A x \in 1..Len(s), y \in 1..m : s[x] # bs[y]
      <3>1. \A x \in 1..Len(s) : x \in 0..(Len(s) + 1)
        BY <1>0
      <3>2. QED BY <1>2, <1>4, <3>1
    <2>3. \A x, y \in 1..Len(s) : s[x] = s[y] => x = y
      BY <1>0 DEF Distinct
    <2>4. i \in Nat /\ j \in Nat
      OBVIOUS
    <2>5. /\ \/ i \in 1..k /\ i \in 1..Len(s) /\ t[i] = s[i]
             \/ i - k \in 1..m /\ t[i] = bs[i - k]
             \/ i - m \in (k + 1)..Len(s) /\ i - m \in 1..Len(s) /\ t[i] = s[i - m]
          /\ \/ j \in 1..k /\ j \in 1..Len(s) /\ t[j] = s[j]
             \/ j - k \in 1..m /\ t[j] = bs[j - k]
             \/ j - m \in (k + 1)..Len(s) /\ j - m \in 1..Len(s) /\ t[j] = s[j - m]
      BY <2>1
    <2>6. CASE i - k \in 1..m /\ t[i] = bs[i - k]
      <3>0. \A x \in 1..Len(s) : t[j] # s[x]
        BY <1>17, <2>2, <2>6
      <3>1. j - k \in 1..m /\ t[j] = bs[j - k]
        BY <2>5, <3>0
      <3>2. i - k = j - k
        BY Zenon, <1>17, <2>6, <3>1
      <3>3. QED BY <1>0, <2>4, <3>2
    <2>7. CASE j - k \in 1..m /\ t[j] = bs[j - k]
      <3>1. i - k \in 1..m /\ t[i] = bs[i - k]
        BY <1>17, <2>2, <2>5, <2>7, SMTT(30)
      <3>2. QED BY <2>6, <3>1
    <2>8. ASSUME NEW x \in 1..k, NEW y \in (k + 1)..Len(s) PROVE x # y
      BY <1>0
    <2>9. CASE i \in 1..k /\ i \in 1..Len(s) /\ t[i] = s[i]
      <3>1. CASE j \in 1..k /\ j \in 1..Len(s) /\ t[j] = s[j]
        BY Zenon, <1>17, <2>3, <2>9, <3>1
      <3>2. CASE j - m \in (k + 1)..Len(s) /\ j - m \in 1..Len(s) /\ t[j] = s[j - m]
        <4>1. i = j - m
          BY Zenon, <1>17, <2>3, <2>9, <3>2
        <4>2. QED BY <2>8, <2>9, <3>2, <4>1
      <3>3. QED BY <2>5, <2>7, <3>1, <3>2
    <2>10. CASE i - m \in (k + 1)..Len(s) /\ i - m \in 1..Len(s) /\ t[i] = s[i - m]
      <3>1. CASE j \in 1..k /\ j \in 1..Len(s) /\ t[j] = s[j]
        <4>1. i - m = j
          BY Zenon, <1>17, <2>3, <2>10, <3>1
        <4>2. QED BY <2>8, <2>10, <3>1, <4>1
      <3>2. CASE j - m \in (k + 1)..Len(s) /\ j - m \in 1..Len(s) /\ t[j] = s[j - m]
        <4>1. i - m = j - m
          BY Zenon, <1>17, <2>3, <2>10, <3>2
        <4>2. QED BY <1>0, <2>4, <4>1
      <3>3. QED BY <2>5, <2>7, <3>1, <3>2
    <2>11. QED BY <2>5, <2>6, <2>9, <2>10
  <1>18. Distinct(t)
    BY Zenon, <1>17 DEF Distinct
  <1>19. ASSUME NEW x \in Nodes PROVE next'[x] \in Nodes \cup {None} /\ prev'[x] \in Nodes \cup {None}
    <2>1. CASE \E i \in 0..(Len(t) + 1) : x = At(t, i)
      <3>1. PICK i \in 0..(Len(t) + 1) : x = At(t, i)
        BY <2>1
      <3>2. CASE i = 0
        <4>1. 0 \in 0..Len(t) /\ 0 + 1 \in 0..(Len(t) + 1)
          BY <1>8
        <4>2. next'[x] \in Nodes
          BY <1>13, <1>16, <3>1, <3>2, <4>1
        <4>3. x = FakeHead
          BY <3>1, <3>2 DEF At
        <4>4. QED BY <1>14, <4>2, <4>3
      <3>3. CASE i = Len(t) + 1
        <4>1. Len(t) \in 0..Len(t) /\ Len(t) \in 0..(Len(t) + 1) /\ i # 0
          BY <1>8, <3>3
        <4>2. prev'[x] \in Nodes
          BY SMTT(30), <1>13, <1>16, <3>1, <3>3, <4>1
        <4>3. x = FakeTail
          BY <3>1, <3>3, <4>1 DEF At
        <4>4. QED BY <1>14, <4>2, <4>3
      <3>4. CASE i \in 1..Len(t)
        <4>1. i \in 0..Len(t) /\ i + 1 \in 0..(Len(t) + 1) /\ i - 1 \in 0..Len(t)
              /\ i - 1 \in 0..(Len(t) + 1) /\ (i - 1) + 1 = i
          BY <1>8, <3>4
        <4>2. next'[At(t, i)] = At(t, i + 1) /\ prev'[At(t, (i - 1) + 1)] = At(t, i - 1)
          BY <1>13, <4>1
        <4>3. QED BY <1>16, <3>1, <4>1, <4>2
      <3>5. QED BY <1>8, <3>2, <3>3, <3>4
    <2>2. CASE ~\E i \in 0..(Len(t) + 1) : x = At(t, i)
      <3>1. x \in Blocks
        <4>1. 0 \in 0..(Len(t) + 1) /\ Len(t) + 1 \in 0..(Len(t) + 1) /\ Len(t) + 1 # 0
          BY <1>8
        <4>2. At(t, 0) = FakeHead /\ At(t, Len(t) + 1) = FakeTail
          BY <4>1 DEF At
        <4>3. QED BY <2>2, <4>1, <4>2 DEF Nodes
      <3>2. ASSUME NEW j \in 1..Len(t) PROVE t[j] # x
        <4>1. j \in 0..(Len(t) + 1) /\ j # 0 /\ j # Len(t) + 1
          BY <1>8
        <4>2. QED BY <2>2, <4>1 DEF At
      <3>3. QED BY <1>15, <3>1, <3>2
    <2>3. QED BY <2>1, <2>2
  <1>20. next' \in [Nodes -> Nodes \cup {None}] /\ prev' \in [Nodes -> Nodes \cup {None}]
    BY <1>6, <1>19
  <1>21. num_free' = Len(t)
    BY <1>1, <1>6, <1>8
  <1> HIDE DEF m
  <1>22. QED BY <1>13, <1>14, <1>15, <1>18, <1>20, <1>21 DEF Linked, At

\* popleft, on a list s.
LEMMA PopOne ==
    ASSUME NEW s, Linked(s), popleft
    PROVE  1 \in 1..Len(s) /\ Linked(SubSeq(s, 1 + 1, Len(s)))'
  <1>0. /\ Distinct(s) /\ Len(s) \in Nat /\ next[FakeHead] = At(s, 1)
        /\ next[At(s, 1)] = At(s, 2) \/ Len(s) = 0
        /\ prev \in [Nodes -> Nodes \cup {None}] /\ next \in [Nodes -> Nodes \cup {None}]
    <2>1. Distinct(s) /\ Len(s) \in Nat /\ At(s, 0) = FakeHead
      BY AtFacts DEF Linked
    <2>2. 0 \in 0..Len(s) /\ (1 \in 0..Len(s) \/ Len(s) = 0)
      BY <2>1
    <2>3. \A i \in 0..Len(s) : next[At(s, i)] = At(s, i + 1)
      BY DEF Linked
    <2>4. next[At(s, 0)] = At(s, 0 + 1) /\ (next[At(s, 1)] = At(s, 1 + 1) \/ Len(s) = 0)
      BY <2>2, <2>3
    <2>5. 0 + 1 = 1 /\ 1 + 1 = 2
      OBVIOUS
    <2>6. QED BY <2>1, <2>4, <2>5 DEF Linked
  <1>1. /\ At(s, 1) # FakeTail
        /\ next' = [next EXCEPT ![FakeHead] = next[At(s, 1)], ![At(s, 1)] = None]
        /\ prev' = [prev EXCEPT ![next[At(s, 1)]] = FakeHead, ![At(s, 1)] = None]
        /\ num_free' = num_free - 1
    BY <1>0 DEF popleft
  <1>2. Len(s) # 0
    BY <1>1 DEF At
  <1>3. 1 \in 1..Len(s) /\ 1 \in 0..(Len(s) + 1) /\ 2 \in 0..(Len(s) + 1) /\ 0 \in 0..(Len(s) + 1)
    BY <1>0, <1>2
  <1>4. /\ At(s, 1) = s[1] /\ s[1] \in Blocks /\ At(s, 2) \in Nodes /\ At(s, 2) # s[1] /\ next[s[1]] = At(s, 2)
    <2>1. At(s, 1) = s[1] /\ s[1] \in Blocks /\ At(s, 2) \in Nodes
      BY <1>0, <1>3, AtFacts
    <2>2. At(s, 2) # At(s, 1)
      BY <1>0, <1>3, AtFacts
    <2>3. QED BY <1>0, <1>2, <2>1, <2>2
  <1>5. {s[i] : i \in 1..1} = {s[1]} /\ 1 + 1 = 2
    OBVIOUS
  <1>6. next' = [x \in Nodes |-> IF x \in {s[i] : i \in 1..1} THEN None
                                 ELSE IF x = FakeHead THEN At(s, 1 + 1) ELSE next[x]]
    BY Zenon, <1>0, <1>1, <1>4, <1>5, Ends
  <1>7. prev' = [x \in Nodes |-> IF x \in {s[i] : i \in 1..1} THEN None
                                 ELSE IF x = At(s, 1 + 1) THEN FakeHead ELSE prev[x]]
    BY Zenon, <1>0, <1>1, <1>4, <1>5, Ends
  <1>8. num_free' = num_free - 1
    BY <1>1
  <1> DEFINE t == SubSeq(s, 1 + 1, Len(s))
  <1>9. t = SubSeq(s, 1 + 1, Len(s)) /\ 1 \in 1..Len(s)
    BY <1>3
  <1> HIDE DEF t
  <1>10. Linked(t)'
    BY Zenon, <1>6, <1>7, <1>8, <1>9, CutFront
  <1>11. QED BY <1>9, <1>10 DEF t

\* popleft_n, on a list s.
LEMMA PopMany ==
    ASSUME NEW s, Linked(s), NEW n \in 0..NumBlocks, popleft_n(n)
    PROVE  n \in 1..Len(s) /\ Linked(SubSeq(s, n + 1, Len(s)))'
  <1>0. /\ Distinct(s) /\ Len(s) \in Nat /\ num_free = Len(s) /\ Len(s) <= NumBlocks /\ NumBlocks \in Nat
    BY AtFacts, Bounded, Ends DEF Linked
  <1>1. n > 0 /\ Len(s) >= n /\ n \in Nat
    BY <1>0 DEF popleft_n
  <1>2. n \in 1..Len(s) /\ n \in 0..(NumBlocks + 1) /\ n <= Len(s) /\ n + 1 \in 0..(Len(s) + 1)
    BY <1>0, <1>1
  <1>3. Walk[n] = At(s, n + 1) /\ Walk[n] # None
    BY <1>0, <1>2, WalkIs, AtFacts, Ends
  <1>4. {Walk[i] : i \in 0..(n-1)} = {s[i] : i \in 1..n}
    <2>1. ASSUME NEW i \in 0..(n - 1) PROVE Walk[i] = s[i + 1] /\ i + 1 \in 1..n
      <3>1. i \in 0..(NumBlocks + 1) /\ i <= Len(s) /\ i + 1 \in 1..Len(s) /\ i + 1 \in 1..n
        BY <1>0, <1>1
      <3>2. QED BY Zenon, <1>0, <3>1, WalkIs, AtFacts
    <2>2. ASSUME NEW i \in 1..n PROVE i - 1 \in 0..(n - 1) /\ s[i] = Walk[i - 1]
      <3>1. i - 1 \in 0..(n - 1) /\ (i - 1) + 1 = i
        BY <1>1
      <3>2. QED BY <2>1, <3>1
    <2>3. QED BY <2>1, <2>2
  <1>5. next' = [x \in Nodes |-> IF x \in {s[i] : i \in 1..n} THEN None
                                 ELSE IF x = FakeHead THEN At(s, n + 1) ELSE next[x]]
    BY Zenon, <1>3, <1>4 DEF popleft_n
  <1>6. prev' = [x \in Nodes |-> IF x \in {s[i] : i \in 1..n} THEN None
                                 ELSE IF x = At(s, n + 1) THEN FakeHead ELSE prev[x]]
    BY Zenon, <1>3, <1>4 DEF popleft_n
  <1>7. num_free' = num_free - n
    BY DEF popleft_n
  <1>8. QED BY Zenon, <1>2, <1>5, <1>6, <1>7, CutFront

\* remove, on a list s.
LEMMA RemoveOne ==
    ASSUME NEW s, Linked(s), NEW b \in Blocks, remove(b)
    PROVE  \E i \in 1..Len(s) : s[i] = b /\ Linked(Without(s, i))'
  <1>0. Distinct(s) /\ Len(s) \in Nat
    BY AtFacts DEF Linked
  <1>1. PICK i \in 1..Len(s) : s[i] = b
    BY DEF remove, Linked
  <1>2. i \in 0..Len(s) /\ i - 1 \in 0..Len(s) /\ (i - 1) + 1 = i
    BY <1>0
  <1>3. At(s, i) = b
    BY <1>0, <1>1, AtFacts
  <1>4. \A j \in 0..Len(s) : next[At(s, j)] = At(s, j + 1) /\ prev[At(s, j + 1)] = At(s, j)
    BY DEF Linked
  <1>5. next[b] = At(s, i + 1) /\ prev[b] = At(s, i - 1)
    <2>1. next[At(s, i)] = At(s, i + 1) /\ prev[At(s, (i - 1) + 1)] = At(s, i - 1)
      BY <1>2, <1>4
    <2>2. QED BY <1>2, <1>3, <2>1
  <1>6. /\ next' = [next EXCEPT ![At(s, i - 1)] = At(s, i + 1), ![s[i]] = None]
        /\ prev' = [prev EXCEPT ![At(s, i + 1)] = At(s, i - 1), ![s[i]] = None]
        /\ num_free' = num_free - 1
    BY <1>1, <1>5 DEF remove
  <1>7. Linked(Without(s, i))'
    BY Zenon, <1>6, CutOut
  <1>8. QED BY <1>1, <1>7

\* append and append_n, on a list s.
LEMMA AppendMany ==
    ASSUME NEW s, Linked(s), NEW bs \in Seq(Blocks),
           \A i, j \in 1..Len(bs) : bs[i] = bs[j] => i = j,
           \A j \in 1..Len(bs) : next[bs[j]] = None,
           Splice(prev[FakeTail], bs, FakeTail)
    PROVE  Linked(s \o bs)'
  <1>0. Distinct(s) /\ s \in Seq(Blocks) /\ Len(s) \in Nat /\ At(s, Len(s) + 1) = FakeTail
    BY AtFacts DEF Linked, Distinct
  <1>1. Len(s) \in 0..Len(s)
    BY <1>0
  <1>2. prev[FakeTail] = At(s, Len(s))
    BY <1>0, <1>1 DEF Linked
  <1> DEFINE t == s \o bs
             k == Len(s)
  <1>3. /\ t \in Seq(Blocks) /\ Len(t) = Len(s) + Len(bs)
        /\ \A j \in 1..k : t[j] = s[j]
        /\ \A j \in 1..Len(bs) : t[k + j] = bs[j]
    BY <1>0, ConcatFacts
  <1>4. \A j \in (k + 1)..Len(s) : t[j + Len(bs)] = s[j]
    BY <1>0
  <1>5. Splice(At(s, k), bs, At(s, k + 1)) /\ k \in 0..Len(s)
    BY <1>0, <1>1, <1>2
  <1> HIDE DEF t, k
  <1>6. Linked(t)'
    BY <1>3, <1>4, <1>5, Insert, ZenonT(60)
  <1>7. QED BY <1>6 DEF t

\* prepend_n, on a list s.
LEMMA PrependMany ==
    ASSUME NEW s, Linked(s), NEW bs \in Seq(Blocks),
           \A i, j \in 1..Len(bs) : bs[i] = bs[j] => i = j,
           \A j \in 1..Len(bs) : next[bs[j]] = None,
           Splice(FakeHead, bs, next[FakeHead])
    PROVE  Linked(bs \o s)'
  <1>0. Distinct(s) /\ s \in Seq(Blocks) /\ Len(s) \in Nat /\ At(s, 0) = FakeHead /\ Len(bs) \in Nat
    BY AtFacts DEF Linked, Distinct
  <1>1. 0 \in 0..Len(s)
    BY <1>0, SMTT(30)
  <1>2. next[FakeHead] = At(s, 0 + 1)
    BY <1>0, <1>1 DEF Linked
  <1> DEFINE t == bs \o s
             k == 0
  <1>3. /\ t \in Seq(Blocks) /\ Len(t) = Len(s) + Len(bs)
        /\ \A j \in 1..Len(bs) : t[j] = bs[j]
        /\ \A j \in 1..Len(s) : t[Len(bs) + j] = s[j]
    BY <1>0, ConcatFacts
  <1>4. \A j \in 1..k : t[j] = s[j]
    OBVIOUS
  <1>5. Splice(At(s, k), bs, At(s, k + 1)) /\ k \in 0..Len(s)
    BY <1>0, <1>1, <1>2
  <1> HIDE DEF t
  <1>6. \A j \in 1..Len(bs) : t[k + j] = bs[j]
    BY <1>3
  <1>7. \A j \in (k + 1)..Len(s) : t[j + Len(bs)] = s[j]
    BY <1>0, <1>3
  <1> HIDE DEF k
  <1>8. Linked(t)'
    BY <1>3, <1>4, <1>5, <1>6, <1>7, Insert, ZenonT(60)
  <1>9. QED BY <1>8 DEF t

\* What a caller passes in is a list of different blocks that are not linked.
LEMMA BatchFacts ==
    ASSUME NEW bs \in Batches
    PROVE  /\ bs \in Seq(Blocks) /\ Len(bs) \in 0..MaxBatch
           /\ bs \in [1..Len(bs) -> Blocks]
           /\ \A i, j \in 1..Len(bs) : bs[i] = bs[j] => i = j
           /\ \A j \in 1..Len(bs) : next[bs[j]] = None /\ prev[bs[j]] = None
  <1>1. PICK m \in 0..MaxBatch : bs \in Injection(1..m, {b \in Blocks : prev[b] = None /\ next[b] = None})
    BY DEF Batches
  <1>2. /\ bs \in [1..m -> {b \in Blocks : prev[b] = None /\ next[b] = None}] /\ m \in Nat
        /\ \A i, j \in 1..m : bs[i] = bs[j] => i = j
    BY <1>1, QueueAssumption DEF Injection, IsInjective
  <1>3. bs \in Seq(Blocks) /\ Len(bs) = m /\ bs \in [1..m -> Blocks]
    BY <1>2
  <1>4. QED BY <1>1, <1>2, <1>3

\* The inductive invariant: the links are those of a list of different blocks.
IInv == \E s : Linked(s)

\* __init__ links all blocks in the order of their numbers.
LEMMA InitLinked ==
    ASSUME Init PROVE Linked([i \in 1..NumBlocks |-> i - 1])
  <1> DEFINE s == [i \in 1..NumBlocks |-> i - 1]
  <1>0. NumBlocks \in Nat /\ NumBlocks > 0
    BY Ends
  <1>1. s \in Seq(Blocks) /\ Len(s) = NumBlocks /\ \A i \in 1..NumBlocks : s[i] = i - 1
    BY <1>0 DEF Blocks
  <1> HIDE DEF s
  <1>2. Distinct(s)
    BY <1>0, <1>1 DEF Distinct
  <1>3. prev \in [Nodes -> Nodes \cup {None}] /\ next \in [Nodes -> Nodes \cup {None}]
    BY <1>0 DEF Init, Nodes, Blocks
  <1>4. prev[FakeHead] = None /\ next[FakeTail] = None
    BY Ends DEF Init
  <1>5. ASSUME NEW i \in 0..Len(s)
        PROVE  next[At(s, i)] = At(s, i + 1) /\ prev[At(s, i + 1)] = At(s, i)
    <2>0. FakeHead \in Nodes /\ FakeTail \in Nodes /\ FakeHead # FakeTail
          /\ \A x \in Blocks : x \in Nodes /\ x # FakeHead /\ x # FakeTail
      BY Ends
    <2>1. next[At(s, i)] = At(s, i + 1)
      <3>1. CASE i = 0
        <4>1. At(s, i) = FakeHead /\ At(s, i + 1) = 0
          BY <3>1, <1>0, <1>1 DEF At
        <4>2. QED BY <2>0, <4>1 DEF Init
      <3>2. CASE i = NumBlocks
        <4>1. At(s, i) = NumBlocks - 1 /\ At(s, i + 1) = FakeTail /\ NumBlocks - 1 \in Blocks
          BY <3>2, <1>0, <1>1 DEF At, Blocks
        <4>2. QED BY <2>0, <4>1 DEF Init
      <3>3. CASE i # 0 /\ i # NumBlocks
        <4>1. At(s, i) = i - 1 /\ At(s, i + 1) = i /\ i - 1 \in Blocks /\ i - 1 # NumBlocks - 1
              /\ (i - 1) + 1 = i
          BY <3>3, <1>0, <1>1 DEF At, Blocks
        <4>2. QED BY <2>0, <4>1 DEF Init
      <3>4. QED BY <3>1, <3>2, <3>3
    <2>2. prev[At(s, i + 1)] = At(s, i)
      <3>1. CASE i = 0
        <4>1. At(s, i) = FakeHead /\ At(s, i + 1) = 0 /\ 0 \in Blocks
          BY <3>1, <1>0, <1>1 DEF At, Blocks
        <4>2. QED BY <2>0, <4>1 DEF Init
      <3>2. CASE i = NumBlocks
        <4>1. At(s, i) = NumBlocks - 1 /\ At(s, i + 1) = FakeTail
          BY <3>2, <1>0, <1>1 DEF At, Blocks
        <4>2. QED BY <2>0, <4>1 DEF Init
      <3>3. CASE i # 0 /\ i # NumBlocks
        <4>1. At(s, i) = i - 1 /\ At(s, i + 1) = i /\ i \in Blocks
          BY <3>3, <1>0, <1>1 DEF At, Blocks
        <4>2. QED BY <2>0, <3>3, <4>1 DEF Init
      <3>4. QED BY <3>1, <3>2, <3>3
    <2>3. QED BY <2>1, <2>2
  <1>6. ASSUME NEW b \in Blocks PROVE \E i \in 1..Len(s) : s[i] = b
    <2>1. b + 1 \in 1..NumBlocks /\ (b + 1) - 1 = b
      BY <1>0 DEF Blocks
    <2>2. QED BY <1>1, <2>1
  <1>7. num_free = Len(s)
    BY <1>1 DEF Init
  <1>8. Linked(s)
    BY <1>2, <1>3, <1>4, <1>5, <1>6, <1>7 DEF Linked
  <1>9. QED BY <1>8 DEF s

\* append, of one block that is not linked.
LEMMA AppendOne ==
    ASSUME NEW s, Linked(s), NEW b \in Blocks, next[b] = None, append(b)
    PROVE  Linked(s \o <<b>>)'
  <1> DEFINE bs == <<b>>
  <1>1. bs \in Seq(Blocks) /\ Len(bs) = 1 /\ bs[1] = b
    OBVIOUS
  <1>2. Splice(prev[FakeTail], bs, FakeTail)
    BY DEF append
  <1> HIDE DEF bs
  <1>3. /\ \A i, j \in 1..Len(bs) : bs[i] = bs[j] => i = j
        /\ \A j \in 1..Len(bs) : next[bs[j]] = None
    BY <1>1
  <1>4. Linked(s \o bs)'
    BY <1>1, <1>2, <1>3, AppendMany
  <1>5. QED BY <1>4 DEF bs

\* Every step leaves a list.
LEMMA StepLinked ==
    ASSUME IInv, [Next]_vars PROVE IInv'
  <1>0. PICK s : Linked(s)
    BY DEF IInv
  <1>1. CASE popleft
    BY <1>0, <1>1, PopOne DEF IInv
  <1>2. CASE \E n \in Blocks \cup {NumBlocks} : popleft_n(n)
    <2>1. PICK n \in 0..NumBlocks : popleft_n(n)
      BY <1>2, Ends DEF Blocks
    <2>2. Linked(SubSeq(s, n + 1, Len(s)))'
      BY <1>0, <2>1, PopMany
    <2>3. QED BY <2>2 DEF IInv
  <1>3. CASE \E b \in Blocks : remove(b)
    BY <1>0, <1>3, RemoveOne DEF IInv
  <1>4. CASE \E b \in Blocks : prev[b] = None /\ next[b] = None /\ append(b)
    BY Zenon, <1>0, <1>4, AppendOne DEF IInv
  <1>5. CASE \E bs \in Batches : append_n(bs) \/ prepend_n(bs)
    <2>1. PICK bs \in Batches : append_n(bs) \/ prepend_n(bs)
      BY <1>5
    <2>2. CASE append_n(bs)
      <3>1. Linked(s \o bs)'
        BY <1>0, <2>2, BatchFacts, AppendMany DEF append_n
      <3>2. QED BY <3>1 DEF IInv
    <2>3. CASE prepend_n(bs)
      <3>1. Linked(bs \o s)'
        BY <1>0, <2>3, BatchFacts, PrependMany DEF prepend_n
      <3>2. QED BY <3>1 DEF IInv
    <2>4. QED BY <2>1, <2>2, <2>3
  <1>6. CASE UNCHANGED vars
    BY <1>0, <1>6 DEF IInv, Linked, vars
  <1>7. QED BY <1>1, <1>2, <1>3, <1>4, <1>5, <1>6 DEF Next

\* In every reachable state the links are those of some list: whatever the
\* order of pops, removals, appends and prepends, no block is linked twice, and
\* none is left half linked.
THEOREM Inductive == Spec => []IInv
  <1>1. Init => IInv
    BY InitLinked DEF IInv
  <1>2. IInv /\ [Next]_vars => IInv'
    BY StepLinked
  <1>3. QED BY <1>1, <1>2, PTL DEF Spec

\* A link is one between neighbours of the list.
LEMMA Neighbours ==
    ASSUME NEW s, Linked(s)
    PROVE  LinksAgree
  <1>0. /\ Distinct(s) /\ Len(s) \in Nat /\ num_free = Len(s)
        /\ prev \in [Nodes -> Nodes \cup {None}] /\ next \in [Nodes -> Nodes \cup {None}]
        /\ None \notin Nodes
    BY AtFacts, Ends DEF Linked
  <1>1. \A i \in 0..Len(s) : next[At(s, i)] = At(s, i + 1) /\ prev[At(s, i + 1)] = At(s, i)
    BY DEF Linked
  <1>2. ASSUME NEW x \in Nodes, next[x] # None
        PROVE  \E i \in 0..Len(s) : x = At(s, i)
    <2>1. x # FakeTail
      BY <1>2 DEF Linked
    <2>2. CASE x = FakeHead
      <3>1. 0 \in 0..Len(s) /\ At(s, 0) = FakeHead
        BY <1>0, AtFacts
      <3>2. QED BY <2>2, <3>1
    <2>3. CASE x \in Blocks
      <3>1. PICK i \in 1..Len(s) : s[i] = x
        BY <1>2, <2>3 DEF Linked
      <3>2. At(s, i) = x /\ i \in 0..Len(s)
        BY <1>0, <3>1, AtFacts
      <3>3. QED BY <3>2
    <2>4. QED BY <2>1, <2>2, <2>3 DEF Nodes
  <1>3. ASSUME NEW x \in Nodes, prev[x] # None
        PROVE  \E i \in 0..Len(s) : x = At(s, i + 1)
    <2>1. x # FakeHead
      BY <1>3 DEF Linked
    <2>2. CASE x = FakeTail
      <3>1. Len(s) \in 0..Len(s) /\ At(s, Len(s) + 1) = FakeTail
        BY <1>0, AtFacts
      <3>2. QED BY <2>2, <3>1
    <2>3. CASE x \in Blocks
      <3>1. PICK i \in 1..Len(s) : s[i] = x
        BY <1>3, <2>3 DEF Linked
      <3>2. At(s, i) = x /\ i - 1 \in 0..Len(s) /\ (i - 1) + 1 = i
        BY <1>0, <3>1, AtFacts
      <3>3. QED BY <3>2
    <2>4. QED BY <2>1, <2>2, <2>3 DEF Nodes
  <1>4. ASSUME NEW x \in Nodes, NEW y \in Nodes, next[x] = y PROVE prev[y] = x
    <2>1. PICK i \in 0..Len(s) : x = At(s, i)
      BY <1>0, <1>2, <1>4
    <2>2. QED BY <1>1, <1>4, <2>1
  <1>5. ASSUME NEW x \in Nodes, NEW y \in Nodes, prev[y] = x PROVE next[x] = y
    <2>1. PICK i \in 0..Len(s) : y = At(s, i + 1)
      BY <1>0, <1>3, <1>5
    <2>2. QED BY <1>1, <1>5, <2>1
  <1>6. num_free = Len(AllFreeBlocks)
    BY <1>0, ReadsBack
  <1>7. TypeOK
    BY <1>0 DEF TypeOK
  <1>8. QED BY <1>4, <1>5, <1>6, <1>7 DEF LinksAgree

\* The prev and the next links of the free list agree and num_free_blocks is
\* its length, for every number of blocks and every batch size.
THEOREM LinksAlwaysAgree == Spec => []LinksAgree
  <1>1. IInv => LinksAgree
    BY Neighbours DEF IInv
  <1>2. QED BY <1>1, Inductive, PTL

\* What a caller may add to the list, it may add to the queue.
LEMMA BatchMaps ==
    ASSUME NEW s, Linked(s), NEW bs \in Batches PROVE bs \in Queue!Batches
  <1>1. AllFreeBlocks = s /\ Distinct(s) /\ s \in Seq(Blocks)
    BY ReadsBack DEF Linked, Distinct
  <1>2. ASSUME NEW b \in Blocks, next[b] = None PROVE b \notin Range(s)
    <2>1. ASSUME NEW i \in 1..Len(s) PROVE s[i] # b
      <3>1. i \in 0..Len(s) /\ i + 1 \in 0..(Len(s) + 1) /\ At(s, i) = s[i]
        BY <1>1, AtFacts
      <3>2. next[s[i]] = At(s, i + 1) /\ At(s, i + 1) \in Nodes
        BY <1>1, <3>1, AtFacts DEF Linked
      <3>3. QED BY <1>2, <3>2, Ends
    <2>2. DOMAIN s = 1..Len(s)
      BY <1>1
    <2>3. QED BY <2>1, <2>2 DEF Range
  <1>3. PICK m \in 0..MaxBatch : bs \in Injection(1..m, {b \in Blocks : prev[b] = None /\ next[b] = None})
    BY DEF Batches
  <1>4. /\ bs \in [1..m -> {b \in Blocks : prev[b] = None /\ next[b] = None}]
        /\ IsInjective(bs)
    BY <1>3 DEF Injection
  <1>5. bs \in [1..m -> (0..(NumBlocks - 1)) \ Range(s)]
    BY <1>2, <1>4 DEF Blocks
  <1>6. Range(AllFreeBlocks) = Queue!Range(AllFreeBlocks)
    BY DEF Range, Queue!Range
  <1>7. bs \in Queue!Injection(1..m, (0..(NumBlocks - 1)) \ Queue!Range(AllFreeBlocks))
    BY <1>1, <1>4, <1>5, <1>6 DEF Queue!Injection, Queue!IsInjective, IsInjective
  <1>8. QED BY <1>7 DEF Queue!Batches

\* Each operation changes the list read back as its counterpart changes the queue.
LEMMA TakesFirst ==
    ASSUME NEW s, Linked(s), NEW n \in Nat, n \in 1..Len(s), Linked(SubSeq(s, n + 1, Len(s)))'
    PROVE  n \in 1..Len(AllFreeBlocks) /\ Queue!TakeFirst(n)
  <1>1. AllFreeBlocks = s
    BY ReadsBack
  <1>2. AllFreeBlocks' = SubSeq(s, n + 1, Len(s))
    BY Zenon, ReadsBackNext
  <1>3. QED BY <1>1, <1>2 DEF Queue!TakeFirst

\* remove takes the block out of the queue, wherever it is.
LEMMA TakesOut ==
    ASSUME NEW s, Linked(s), NEW b \in Blocks, remove(b)
    PROVE  b \in Range(AllFreeBlocks) /\ Queue!TakeOut(b)
  <1>1. AllFreeBlocks = s /\ s \in Seq(Blocks)
    BY ReadsBack DEF Linked, Distinct
  <1>2. PICK i \in 1..Len(s) : s[i] = b /\ Linked(Without(s, i))'
    BY RemoveOne
  <1>3. AllFreeBlocks' = SubSeq(s, 1, i - 1) \o SubSeq(s, i + 1, Len(s))
    BY Zenon, <1>2, ReadsBackNext DEF Without
  <1>4. b \in Range(s)
    BY <1>1, <1>2 DEF Range
  <1>5. QED BY Zenon, <1>1, <1>2, <1>3, <1>4 DEF Queue!TakeOut

\* append_n adds the batch behind the queue.
LEMMA AddsLast ==
    ASSUME NEW s, Linked(s), NEW bs \in Batches, append_n(bs)
    PROVE  Queue!AddLast(bs)
  <1>1. AllFreeBlocks = s
    BY ReadsBack
  <1>2. Linked(s \o bs)'
    BY BatchFacts, AppendMany DEF append_n
  <1>3. AllFreeBlocks' = s \o bs
    BY Zenon, <1>2, ReadsBackNext
  <1>4. QED BY <1>1, <1>3 DEF Queue!AddLast

\* prepend_n adds the batch in front of the queue.
LEMMA AddsFirst ==
    ASSUME NEW s, Linked(s), NEW bs \in Batches, prepend_n(bs)
    PROVE  Queue!AddFirst(bs)
  <1>1. AllFreeBlocks = s
    BY ReadsBack
  <1>2. Linked(bs \o s)'
    BY BatchFacts, PrependMany DEF prepend_n
  <1>3. AllFreeBlocks' = bs \o s
    BY Zenon, <1>2, ReadsBackNext
  <1>4. QED BY <1>1, <1>3 DEF Queue!AddFirst

\* A single block is a batch.
LEMMA OneIsBatch ==
    ASSUME NEW b \in Blocks, prev[b] = None, next[b] = None
    PROVE  <<b>> \in Batches
  <1>1. 1 \in 0..MaxBatch
    BY QueueAssumption
  <1>2. <<b>> \in [1..1 -> {x \in Blocks : prev[x] = None /\ next[x] = None}]
    OBVIOUS
  <1>3. IsInjective(<<b>>)
    BY DEF IsInjective
  <1>4. QED BY <1>1, <1>2, <1>3 DEF Batches, Injection

\* Every step of the list is one of the queue, or leaves the queue alone.
LEMMA StepMaps ==
    ASSUME IInv, [Next]_vars PROVE [Queue!Next]_AllFreeBlocks
  <1>0. PICK s : Linked(s)
    BY DEF IInv
  <1>1. CASE popleft
    BY <1>0, <1>1, PopOne, TakesFirst DEF Queue!Next
  <1>2. CASE \E n \in Blocks \cup {NumBlocks} : popleft_n(n)
    <2>1. PICK n \in 0..NumBlocks : popleft_n(n)
      BY <1>2, Ends DEF Blocks
    <2>2. n \in 1..Len(s) /\ Linked(SubSeq(s, n + 1, Len(s)))'
      BY <1>0, <2>1, PopMany
    <2>3. n \in 1..Len(AllFreeBlocks) /\ Queue!TakeFirst(n)
      BY <1>0, <2>2, TakesFirst
    <2>4. QED BY <2>3 DEF Queue!Next
  <1>3. CASE \E b \in Blocks : remove(b)
    BY <1>0, <1>3, TakesOut DEF Queue!Next, Queue!Range, Range
  <1>4. CASE \E b \in Blocks : prev[b] = None /\ next[b] = None /\ append(b)
    <2>1. PICK b \in Blocks : prev[b] = None /\ next[b] = None /\ append(b)
      BY <1>4
    <2>2. Linked(s \o <<b>>)'
      BY <1>0, <2>1, AppendOne
    <2>3. AllFreeBlocks = s /\ AllFreeBlocks' = s \o <<b>>
      BY Zenon, <1>0, <2>2, ReadsBack, ReadsBackNext
    <2>4. <<b>> \in Queue!Batches
      BY <1>0, <2>1, OneIsBatch, BatchMaps
    <2>5. QED BY Zenon, <2>3, <2>4 DEF Queue!Next, Queue!AddLast
  <1>5. CASE \E bs \in Batches : append_n(bs) \/ prepend_n(bs)
    <2>1. PICK bs \in Batches : append_n(bs) \/ prepend_n(bs)
      BY <1>5
    <2>2. bs \in Queue!Batches
      BY <1>0, BatchMaps
    <2>3. Queue!AddLast(bs) \/ Queue!AddFirst(bs)
      BY <1>0, <2>1, AddsLast, AddsFirst
    <2>4. QED BY <2>2, <2>3 DEF Queue!Next
  <1>6. CASE UNCHANGED vars
    <2>1. Linked(s)'
      BY <1>0, <1>6 DEF Linked, vars
    <2>2. QED BY <1>0, <2>1, ReadsBack, ReadsBackNext
  <1>7. QED BY <1>1, <1>2, <1>3, <1>4, <1>5, <1>6 DEF Next

\* The linked list implements the abstract queue of free blocks, for every
\* number of blocks: read with get_all_free_blocks, each operation is one of the
\* queue.
THEOREM QueueImplemented == Spec => ImplementsQueue
  <1>1. Init => Queue!Init
    BY InitLinked, ReadsBack DEF Queue!Init
  <1>2. IInv /\ [Next]_vars => [Queue!Next]_AllFreeBlocks
    BY StepMaps
  <1>3. QED BY <1>1, <1>2, Inductive, PTL DEF Spec, ImplementsQueue, Queue!Spec

\* The action of EvictionOrder.
InOrder ==
    /\ popleft => Queue!TakeFirst(1)
    /\ \A n \in 1..NumBlocks : popleft_n(n) => Queue!TakeFirst(n)
    /\ \A b \in Blocks : remove(b) => Queue!TakeOut(b)
    /\ \A bs \in Batches : /\ append_n(bs) => Queue!AddLast(bs)
                           /\ prepend_n(bs) => Queue!AddFirst(bs)

\* From any list, each operation has the effect of its own counterpart.
LEMMA StepInOrder ==
    ASSUME IInv PROVE InOrder
  <1>0. PICK s : Linked(s)
    BY DEF IInv
  <1>1. popleft => Queue!TakeFirst(1)
    BY <1>0, PopOne, TakesFirst
  <1>2. ASSUME NEW n \in 1..NumBlocks, popleft_n(n) PROVE Queue!TakeFirst(n)
    <2>1. n \in 0..NumBlocks /\ n \in Nat
      BY Ends
    <2>2. QED BY <1>0, <1>2, <2>1, PopMany, TakesFirst
  <1>3. \A b \in Blocks : remove(b) => Queue!TakeOut(b)
    BY <1>0, TakesOut
  <1>4. \A bs \in Batches : /\ append_n(bs) => Queue!AddLast(bs)
                            /\ prepend_n(bs) => Queue!AddFirst(bs)
    BY <1>0, AddsLast, AddsFirst
  <1>5. QED BY <1>1, <1>2, <1>3, <1>4 DEF InOrder

\* Each operation of the list changes the eviction order as its own
\* counterpart on the queue does: the order its callers asked for.
THEOREM EvictionOrderHolds == Spec => EvictionOrder
  <1>1. IInv /\ [Next]_vars => [InOrder]_vars
    BY StepInOrder
  <1>2. QED BY <1>1, Inductive, PTL DEF Spec, EvictionOrder, InOrder
=============================================================================
