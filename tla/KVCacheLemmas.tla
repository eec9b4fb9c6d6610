---------------------------- MODULE KVCacheLemmas -----------------------------
(***************************************************************************)
(* What the calls of the KV cache manager do, one lemma per call, for any  *)
(* number of blocks, requests and tokens and any block size.  Each says    *)
(* that the call keeps the invariant Sound of the manager's state and      *)
(* which call of BlockOwnership it is through the refinement mapping of    *)
(* KVCacheManager.tla.  A conclusion that several steps use is an operator *)
(* (TouchEffect, AttachEffect, FreeEffect, SkipIs, CacheEffect).  The      *)
(* calls that allocate_slots makes are then composed to one step of        *)
(* BlockOwnership.                                                         *)
(***************************************************************************)
EXTENDS KVCache, Counting

-----------------------------------------------------------------------------
(* Numbers and sequences.                                                   *)

(* A leaf that cites it is given to Zenon, as with the pragma of that name  *)
(* in TLAPS.                                                                *)
ByZenon == TRUE (*{ by (prover:"zenon") }*)

(* A set of natural numbers that is not empty has a least element.          *)
LEMMA Least ==
    ASSUME Counting, NEW S \in SUBSET Nat, S # {} PROVE \E x \in S : \A y \in S : x <= y
  BY ByZenon DEF Counting, LeastNumber

(* The sizes of the empty set and of a singleton.                           *)
LEMMA CountSmall ==
    ASSUME Counting
    PROVE  /\ IsFiniteSet({}) /\ Cardinality({}) = 0
           /\ \A x : IsFiniteSet({x}) /\ Cardinality({x}) = 1
  BY ByZenon DEF Counting, EmptySize, SingletonSize

(* The size of a finite set.                                                *)
LEMMA CountType ==
    ASSUME Counting, NEW S, IsFiniteSet(S) PROVE Cardinality(S) \in Nat /\ ExistsBijection(1..Cardinality(S), S)
  BY ByZenon DEF Counting, SizeType

(* There are n numbers from 1 to n.                                         *)
LEMMA CountInterval ==
    ASSUME Counting, NEW n \in Nat PROVE IsFiniteSet(1..n) /\ Cardinality(1..n) = n
  <1>1. IsFiniteSet(1..n) /\ Cardinality(1..n) = IF 1 > n THEN 0 ELSE n - 1 + 1
    BY DEF Counting, IntervalSize
  <1>2. QED BY <1>1

(* A part of a finite set is finite and not larger.                         *)
LEMMA CountSubset ==
    ASSUME Counting, NEW S, IsFiniteSet(S), NEW T \in SUBSET S
    PROVE  IsFiniteSet(T) /\ Cardinality(T) <= Cardinality(S)
  BY ByZenon DEF Counting, SubsetSize

(* How many elements remain when a set is taken away.                       *)
LEMMA CountDifference ==
    ASSUME Counting, NEW S, NEW T, IsFiniteSet(S)
    PROVE  IsFiniteSet(S \ T) /\ Cardinality(S \ T) = Cardinality(S) - Cardinality(S \cap T)
  BY ByZenon DEF Counting, DifferenceSize

(* Sets in bijection have the same size.                                    *)
LEMMA CountBijection ==
    ASSUME Counting, NEW S, NEW T, IsFiniteSet(S), ExistsBijection(S, T)
    PROVE  IsFiniteSet(T) /\ Cardinality(T) = Cardinality(S)
  BY ByZenon DEF Counting, BijectionSize

(* An injection between sets of the same size reaches every element.        *)
LEMMA CountInjection ==
    ASSUME Counting, NEW S, NEW T, NEW f \in Injection(S, T), IsFiniteSet(T)
    PROVE  Cardinality(S) = Cardinality(T) <=> f \in Surjection(S, T)
  BY ByZenon DEF Counting, InjectionSize

(* A bounded set of natural numbers has the greatest element that the hit   *)
(* lookup and remove_skipped_blocks ask for.                                *)
LEMMA GreatestFacts ==
    ASSUME Counting, NEW n \in Nat, NEW S \in SUBSET (0..n), S # {}
    PROVE  Greatest(S) \in S /\ \A y \in S : y <= Greatest(S)
  <1> DEFINE T == {n - y : y \in S}
  <1>0. \A y \in S : y \in 0..n /\ n - y \in Nat
    OBVIOUS
  <1>1. T \in SUBSET Nat /\ T # {}
    BY ByZenon, <1>0
  <1>2. PICK t \in T : \A u \in T : t <= u
    BY ByZenon, <1>1, Least
  <1>3. PICK x \in S : t = n - x
    BY ByZenon
  <1>4. \A y \in S : y <= x
    <2>1. TAKE y \in S
    <2>2. n - x <= n - y
      BY ByZenon, <1>2, <1>3
    <2>3. x \in 0..n /\ y \in 0..n
      BY ByZenon
    <2>4. QED BY <2>2, <2>3
  <1>5. QED BY ByZenon, <1>4 DEF Greatest

(* The conclusion of SeqFun.                                                *)
SeqIs(S, s) ==
    /\ Len(s) \in Nat /\ DOMAIN s = 1..Len(s)
    /\ s \in [1..Len(s) -> S]
    /\ \A i \in 1..Len(s) : s[i] \in S
    /\ Range(s) = {s[i] : i \in 1..Len(s)} /\ Range(s) \subseteq S
    /\ \A i \in 1..Len(s) : s[i] \in Range(s)
    /\ \A x \in Range(s) : \E i \in 1..Len(s) : s[i] = x

(* A sequence is a function on its places, and its range is what stands at  *)
(* them.                                                                    *)
LEMMA SeqFun ==
    ASSUME NEW S, NEW s \in Seq(S)
    PROVE  SeqIs(S, s)
  <1> USE DEF SeqIs
  <1>1. Len(s) \in Nat /\ DOMAIN s = 1..Len(s) /\ s \in [1..Len(s) -> S]
    OBVIOUS
  <1>2. QED BY ByZenon, <1>1 DEF Range

(* A function on 1..n is a sequence of length n.                            *)
LEMMA FunSeq ==
    ASSUME NEW S, NEW n \in Nat, NEW f \in [1..n -> S]
    PROVE  f \in Seq(S) /\ Len(f) = n
  OBVIOUS

(* The conclusion of BackwardsFacts.                                        *)
BackwardsIs(S, s) ==
    /\ Backwards(s) \in Seq(S) /\ Len(Backwards(s)) = Len(s)
    /\ Range(Backwards(s)) = Range(s)
    /\ \A i \in 1..Len(s) : Backwards(s)[i] = s[Len(s) + 1 - i]

(* reversed(blocks) keeps the elements and mirrors the places.              *)
LEMMA BackwardsFacts ==
    ASSUME NEW S, NEW s \in Seq(S)
    PROVE  BackwardsIs(S, s)
  <1> USE DEF BackwardsIs
  <1> DEFINE t == Backwards(s)
  <1>1. Len(s) \in Nat /\ \A i \in 1..Len(s) : Len(s) + 1 - i \in 1..Len(s) /\ s[i] \in S
                                               /\ Len(s) + 1 - (Len(s) + 1 - i) = i
    OBVIOUS
  <1>2. /\ t \in [1..Len(s) -> S]
        /\ \A i \in 1..Len(s) : t[i] = s[Len(s) + 1 - i]
    BY ByZenon, <1>1 DEF Backwards
  <1> HIDE DEF t
  <1>3. t \in Seq(S) /\ Len(t) = Len(s)
    BY <1>1, <1>2
  <1>4. Range(t) = Range(s)
    <2>1. ASSUME NEW x \in Range(t) PROVE x \in Range(s)
      <3>1. PICK i \in 1..Len(s) : x = t[i]
        BY ByZenon, <1>3, SeqFun DEF SeqIs
      <3>2. QED BY <1>1, <1>2, <3>1, SeqFun DEF SeqIs
    <2>2. ASSUME NEW x \in Range(s) PROVE x \in Range(t)
      <3>1. PICK i \in 1..Len(s) : x = s[i]
        BY ByZenon, SeqFun DEF SeqIs
      <3>2. t[Len(s) + 1 - i] = x
        BY ByZenon, <1>1, <1>2, <3>1
      <3>3. QED BY ByZenon, <1>1, <1>3, <3>2, SeqFun DEF SeqIs
    <2>3. QED BY ByZenon, <2>1, <2>2
  <1>5. QED BY ByZenon, <1>2, <1>3, <1>4 DEF t

(* The conclusion of KeptIs.                                                *)
KeptSteps(T, s, S) ==
    Kept(s, S) = [n \in 0..Len(s) |->
       IF n = 0 THEN <<>>
       ELSE IF s[n] \in S THEN Append(Kept(s, S)[n - 1], s[n]) ELSE Kept(s, S)[n - 1]]

(* Kept is the function that its recursion describes.                       *)
LEMMA KeptIs ==
    ASSUME Counting, NEW T, NEW s \in Seq(T), NEW S
    PROVE  KeptSteps(T, s, S)
  <1> USE DEF KeptSteps
  <1> DEFINE Step(f, n) == IF n = 0 THEN <<>>
                           ELSE IF s[n] \in S THEN Append(f[n - 1], s[n]) ELSE f[n - 1]
             Good(k, f) == f = [n \in 0..k |-> Step(f, n)]
             Bad == {k \in Nat : ~(\E f : Good(k, f))}
  <1>0. Len(s) \in Nat
    OBVIOUS
  <1>1. \E f : Good(Len(s), f)
    <2>1. SUFFICES ASSUME Bad # {} PROVE FALSE
      BY ByZenon, <1>0
    <2>2. Bad \in SUBSET Nat
      BY ByZenon
    <2>3. PICK k \in Bad : \A x \in Bad : k <= x
      BY ByZenon, <2>1, <2>2, Least
    <2>4. CASE k = 0
      <3> DEFINE g == [n \in 0..0 |-> <<>>]
      <3>1. \A n \in 0..0 : n = 0
        OBVIOUS
      <3>2. Good(0, g)
        BY ByZenon, <3>1
      <3>3. QED BY ByZenon, <2>4, <3>2
    <2>5. CASE k # 0
      <3>1. k - 1 \in Nat /\ ~(k <= k - 1)
        BY <2>5
      <3> USE <3>1
      <3>2. PICK f : Good(k - 1, f)
        BY ByZenon, <2>3
      <3> DEFINE g == [n \in 0..k |-> Step(f, n)]
      <3>3. \A n \in 0..(k - 1) : g[n] = f[n] /\ n \in 0..k
        <4>1. \A n \in 0..(k - 1) : n \in 0..k
          OBVIOUS
        <4>2. \A n \in 0..k : g[n] = Step(f, n)
          BY ByZenon
        <4>3. \A n \in 0..(k - 1) : f[n] = Step(f, n)
          <5> DEFINE h == [n \in 0..(k - 1) |-> Step(f, n)]
          <5>1. \A n \in 0..(k - 1) : h[n] = Step(f, n)
            BY ByZenon
          <5>2. f = h
            BY ByZenon, <3>2
          <5> HIDE DEF h, Step
          <5>3. QED BY ByZenon, <5>1, <5>2
        <4> HIDE DEF g, Step
        <4>4. QED BY ByZenon, <4>1, <4>2, <4>3
      <3>4. \A n \in 0..k : n # 0 => n - 1 \in 0..(k - 1)
        OBVIOUS
      <3>5. \A n \in 0..k : Step(g, n) = Step(f, n)
        <4> HIDE DEF g
        <4>1. QED BY ByZenon, <3>3, <3>4
      <3>6. Good(k, g)
        <4> DEFINE h == [n \in 0..k |-> Step(g, n)]
        <4>1. h = g
          BY ByZenon, <3>5
        <4>2. QED BY ByZenon, <4>1
      <3>7. QED BY ByZenon, <3>6
    <2>6. QED BY ByZenon, <2>4, <2>5
  <1>2. Kept(s, S) = CHOOSE f : Good(Len(s), f)
    BY ByZenon DEF Kept
  <1>3. Good(Len(s), Kept(s, S))
    BY ByZenon, <1>1, <1>2
  <1>4. QED BY ByZenon, <1>3

(* s has no element of A at two places.                                     *)
Once(s, A) == \A i, j \in DOMAIN s : s[i] = s[j] /\ s[i] \in A => i = j

(* The conclusion of AppendFacts.                                           *)
AppendIs(T, s, x, A) ==
    /\ Append(s, x) \in Seq(T) /\ Len(Append(s, x)) = Len(s) + 1
    /\ Range(Append(s, x)) = Range(s) \cup {x}
    /\ Once(s, A) /\ x \notin Range(s) => Once(Append(s, x), A)

(* Appending one element to a table.                                        *)
LEMMA AppendFacts ==
    ASSUME NEW T, NEW s \in Seq(T), NEW x \in T, NEW A
    PROVE  AppendIs(T, s, x, A)
  <1> USE DEF AppendIs
  <1> DEFINE t == Append(s, x)
             n == Len(s)
  <1>1. /\ t \in Seq(T) /\ Len(t) = n + 1 /\ n \in Nat /\ DOMAIN t = 1..(n + 1) /\ DOMAIN s = 1..n
        /\ \A i \in 1..n : t[i] = s[i]
        /\ t[n + 1] = x
    OBVIOUS
  <1> USE <1>1
  <1>2. \A i \in 1..(n + 1) : i \in 1..n \/ i = n + 1
    OBVIOUS
  <1>3. \A i \in 1..n : i \in 1..(n + 1) /\ i # n + 1
    OBVIOUS
  <1>3a. n + 1 \in 1..(n + 1)
    OBVIOUS
  <1> HIDE DEF t, n
  <1>4. Range(t) = Range(s) \cup {x}
    BY ByZenon, <1>2, <1>3, <1>3a DEF Range
  <1>5. ASSUME Once(s, A), x \notin Range(s) PROVE Once(t, A)
    <2>1. \A i \in 1..n : s[i] # x
      BY ByZenon, <1>5 DEF Range
    <2>2. QED BY ByZenon, <1>2, <1>5, <2>1 DEF Once
  <1>6. QED BY ByZenon, <1>4, <1>5 DEF t, n

(* The conclusion of ConcatFacts.                                           *)
ConcatIs(T, s, t, A) ==
    /\ s \o t \in Seq(T) /\ Len(s \o t) = Len(s) + Len(t)
    /\ Range(s \o t) = Range(s) \cup Range(t)
    /\ \A i \in 1..Len(s) : (s \o t)[i] = s[i]
    /\ \A i \in 1..Len(t) : (s \o t)[Len(s) + i] = t[i]
    /\ \A i \in 1..(Len(s) + Len(t)) :
          (s \o t)[i] = IF i <= Len(s) THEN s[i] ELSE t[i - Len(s)]
    /\ Once(s, A) /\ Once(t, A) /\ (\A x \in A : ~(x \in Range(s) /\ x \in Range(t)))
         => Once(s \o t, A)

(* Concatenating two tables: places, elements, and that no block of A comes *)
(* twice when the two share none.                                           *)
LEMMA ConcatFacts ==
    ASSUME NEW T, NEW s \in Seq(T), NEW t \in Seq(T), NEW A
    PROVE  ConcatIs(T, s, t, A)
  <1> USE DEF ConcatIs
  <1> DEFINE u == s \o t
             m == Len(s)
             n == Len(t)
  <1>1. /\ u \in Seq(T) /\ Len(u) = m + n /\ m \in Nat /\ n \in Nat
        /\ DOMAIN u = 1..(m + n) /\ DOMAIN s = 1..m /\ DOMAIN t = 1..n
        /\ \A i \in 1..(m + n) : u[i] = IF i <= m THEN s[i] ELSE t[i - m]
    OBVIOUS
  <1> USE <1>1
  <1> HIDE DEF u, m, n
  <1>2. \A i \in 1..m : i \in 1..(m + n) /\ i <= m
    OBVIOUS
  <1>3. \A i \in 1..n : m + i \in 1..(m + n) /\ ~(m + i <= m) /\ (m + i) - m = i
    OBVIOUS
  <1>4. \A i \in 1..(m + n) : i \in 1..m \/ (i - m \in 1..n /\ i = m + (i - m) /\ ~(i <= m))
    OBVIOUS
  <1>5. (\A i \in 1..m : u[i] = s[i]) /\ (\A i \in 1..n : u[m + i] = t[i])
    BY ByZenon, <1>2, <1>3
  <1> USE <1>5
  <1>6. Range(u) = Range(s) \cup Range(t)
    <2>1. ASSUME NEW i \in 1..(m + n) PROVE u[i] \in Range(s) \cup Range(t)
      <3>1. CASE i \in 1..m
        BY ByZenon, <3>1 DEF Range
      <3>2. CASE i - m \in 1..n /\ ~(i <= m)
        <4>1. u[i] = t[i - m]
          BY ByZenon, <3>2
        <4>2. QED BY ByZenon, <3>2, <4>1 DEF Range
      <3>3. QED BY ByZenon, <1>4, <3>1, <3>2
    <2>2. \A i \in DOMAIN s : s[i] \in Range(u)
      BY ByZenon, <1>2 DEF Range
    <2>3. \A i \in DOMAIN t : t[i] \in Range(u)
      BY ByZenon, <1>3 DEF Range
    <2>4. QED BY ByZenon, <2>1, <2>2, <2>3 DEF Range
  <1>7. ASSUME Once(s, A), Once(t, A), \A x \in A : ~(x \in Range(s) /\ x \in Range(t))
        PROVE  Once(u, A)
    <2> USE <1>7
    <2>1. SUFFICES ASSUME NEW i \in 1..(m + n), NEW j \in 1..(m + n), u[i] = u[j], u[i] \in A
                   PROVE  i = j
      BY ByZenon DEF Once
    <2> USE <2>1
    <2>2. CASE i \in 1..m /\ j \in 1..m
      BY ByZenon, <2>2 DEF Once
    <2>3. CASE i - m \in 1..n /\ j - m \in 1..n /\ ~(i <= m) /\ ~(j <= m)
      <3>1. t[i - m] = t[j - m] /\ t[i - m] \in A
        BY ByZenon, <2>3
      <3>2. i - m = j - m
        BY ByZenon, <2>3, <3>1 DEF Once
      <3>3. QED BY <3>2
    <2>4. CASE i \in 1..m /\ j - m \in 1..n /\ ~(j <= m)
      <3>1. u[i] = s[i] /\ u[j] = t[j - m]
        BY ByZenon, <2>4
      <3>2. s[i] \in Range(s) /\ t[j - m] \in Range(t)
        BY ByZenon, <2>4 DEF Range
      <3>3. QED BY ByZenon, <3>1, <3>2
    <2>5. CASE j \in 1..m /\ i - m \in 1..n /\ ~(i <= m)
      <3>1. u[j] = s[j] /\ u[i] = t[i - m]
        BY ByZenon, <2>5
      <3>2. s[j] \in Range(s) /\ t[i - m] \in Range(t)
        BY ByZenon, <2>5 DEF Range
      <3>3. QED BY ByZenon, <3>1, <3>2
    <2>6. QED BY ByZenon, <1>4, <2>2, <2>3, <2>4, <2>5
  <1>8. QED BY ByZenon, <1>6, <1>7 DEF u, m, n

(* The conclusion of SubSeqFacts.                                           *)
SubSeqIs(T, s, A, a, b) ==
    /\ SubSeq(s, a + 1, b) \in Seq(T) /\ Len(SubSeq(s, a + 1, b)) = b - a
    /\ \A i \in 1..(b - a) : SubSeq(s, a + 1, b)[i] = s[a + i]
    /\ Range(SubSeq(s, a + 1, b)) = {s[i] : i \in (a + 1)..b}
    /\ Once(s, A) => Once(SubSeq(s, a + 1, b), A)

(* The part of a table from place a + 1 to place b.                         *)
LEMMA SubSeqFacts ==
    ASSUME NEW T, NEW s \in Seq(T), NEW A, NEW a \in Nat, NEW b \in Nat, a <= b, b <= Len(s)
    PROVE  SubSeqIs(T, s, A, a, b)
  <1> USE DEF SubSeqIs
  <1> DEFINE u == SubSeq(s, a + 1, b)
             n == Len(s)
  <1>1. n \in Nat /\ DOMAIN s = 1..n /\ b - a \in Nat /\ b <= n
        /\ \A i \in 1..n : s[i] \in T
    OBVIOUS
  <1> USE <1>1
  <1>2. \A i \in 1..(b - a) : a + i \in 1..n /\ a + i \in (a + 1)..b
    OBVIOUS
  <1>3. \A i \in (a + 1)..b : i - a \in 1..(b - a) /\ a + (i - a) = i
    OBVIOUS
  <1>4. u \in Seq(T) /\ Len(u) = b - a /\ \A i \in 1..(b - a) : u[i] = s[a + i]
    OBVIOUS
  <1> USE <1>4
  <1> HIDE DEF u, n
  <1>5. DOMAIN u = 1..(b - a)
    BY ByZenon, SeqFun DEF SeqIs
  <1> USE <1>5
  <1>7. Range(u) = {s[i] : i \in (a + 1)..b}
    <2>1. ASSUME NEW i \in 1..(b - a) PROVE u[i] \in {s[j] : j \in (a + 1)..b}
      BY ByZenon, <1>2
    <2>2. ASSUME NEW i \in (a + 1)..b PROVE s[i] \in Range(u)
      <3>1. u[i - a] = s[i]
        BY ByZenon, <1>3
      <3>2. QED BY ByZenon, <1>3, <3>1 DEF Range
    <2>3. QED BY ByZenon, <2>1, <2>2 DEF Range
  <1>8. ASSUME Once(s, A) PROVE Once(u, A)
    <2>1. SUFFICES ASSUME NEW i \in 1..(b - a), NEW j \in 1..(b - a), u[i] = u[j], u[i] \in A
                   PROVE  i = j
      BY ByZenon DEF Once
    <2>2. s[a + i] = s[a + j] /\ s[a + i] \in A
      BY ByZenon, <2>1
    <2>3. a + i = a + j
      BY ByZenon, <1>2, <1>8, <2>2 DEF Once
    <2>4. QED BY <2>3
  <1>9. QED BY ByZenon, <1>7, <1>8 DEF u

(* The conclusion of KeepFacts.                                             *)
KeepIs(T, s, S, A) ==
    /\ Keep(s, S) \in Seq(T)
    /\ Range(Keep(s, S)) = Range(s) \cap S
    /\ Once(s, A) => Once(Keep(s, S), A \cap S)
    /\ IsInjective(s) => IsInjective(Keep(s, S))

(* What filtering a list of blocks returns: the elements of S, none more    *)
(* often than before.                                                       *)
LEMMA KeepFacts ==
    ASSUME Counting, NEW T, NEW s \in Seq(T), NEW S, NEW A
    PROVE  KeepIs(T, s, S, A)
  <1> USE DEF KeepIs
  <1> DEFINE k == Kept(s, S)
             First(n) == {s[i] : i \in 1..n}
             Good(n) == /\ k[n] \in Seq(T)
                        /\ Range(k[n]) = First(n) \cap S
                        /\ Once(s, A) => Once(k[n], A \cap S)
                        /\ IsInjective(s) => Once(k[n], T)
             Bad == {n \in 0..Len(s) : ~Good(n)}
  <1>0. Len(s) \in Nat /\ DOMAIN s = 1..Len(s) /\ \A i \in 1..Len(s) : s[i] \in T
    OBVIOUS
  <1> USE <1>0
  <1>1. k = [n \in 0..Len(s) |-> IF n = 0 THEN <<>>
              ELSE IF s[n] \in S THEN Append(k[n - 1], s[n]) ELSE k[n - 1]]
    BY KeptIs DEF KeptSteps
  <1>2. \A n \in 0..Len(s) : k[n] = IF n = 0 THEN <<>>
              ELSE IF s[n] \in S THEN Append(k[n - 1], s[n]) ELSE k[n - 1]
    <2> DEFINE h == [n \in 0..Len(s) |-> IF n = 0 THEN <<>>
              ELSE IF s[n] \in S THEN Append(k[n - 1], s[n]) ELSE k[n - 1]]
    <2>1. \A n \in 0..Len(s) : h[n] = IF n = 0 THEN <<>>
              ELSE IF s[n] \in S THEN Append(k[n - 1], s[n]) ELSE k[n - 1]
      BY ByZenon
    <2>2. k = h
      BY ByZenon, <1>1
    <2> HIDE DEF h, k
    <2>3. QED BY ByZenon, <2>1, <2>2
  <1> HIDE DEF k
  <1>3. Good(0)
    <2>1. k[0] = <<>>
      BY <1>2
    <2>2. First(0) = {} /\ Range(<<>>) = {}
      BY DEF Range
    <2>3. \A B : Once(<<>>, B)
      BY DEF Once
    <2>4. <<>> \in Seq(T)
      OBVIOUS
    <2> HIDE DEF First
    <2>5. QED BY ByZenon, <2>1, <2>2, <2>3, <2>4
  <1>4. ASSUME NEW n \in 1..Len(s), Good(n - 1) PROVE Good(n)
    <2> USE <1>4
    <2>1. n \in 0..Len(s) /\ n # 0 /\ s[n] \in T /\ n \in DOMAIN s
      OBVIOUS
    <2> USE <2>1
    <2>2. k[n] = IF s[n] \in S THEN Append(k[n - 1], s[n]) ELSE k[n - 1]
      BY ByZenon, <1>2
    <2>3. \A i \in 1..n : i \in 1..(n - 1) \/ i = n
      OBVIOUS
    <2>4. \A i \in 1..(n - 1) : i \in 1..n /\ i # n /\ i \in 1..Len(s)
      OBVIOUS
    <2> USE <2>4
    <2>4a. n \in 1..n
      OBVIOUS
    <2>5. First(n) = First(n - 1) \cup {s[n]}
      BY ByZenon, <2>3, <2>4a
    <2>6. CASE s[n] \notin S
      BY ByZenon, <2>2, <2>5, <2>6
    <2>7. CASE s[n] \in S
      <3> DEFINE t == k[n - 1]
      <3>1. k[n] = Append(t, s[n]) /\ t \in Seq(T)
        BY ByZenon, <2>2, <2>7
      <3> USE <3>1
      <3>2. k[n] \in Seq(T) /\ Range(k[n]) = Range(t) \cup {s[n]}
        <4> HIDE DEF t
        <4>1. AppendIs(T, t, s[n], {})
          BY ByZenon, AppendFacts
        <4>2. QED BY ByZenon, <4>1 DEF AppendIs
      <3>3. Range(k[n]) = First(n) \cap S
        BY ByZenon, <2>5, <2>7, <3>2
      <3>4. ASSUME Once(s, A) PROVE Once(k[n], A \cap S)
        <4> USE <3>4
        <4>1. CASE s[n] \in A
          <5>1. \A i \in 1..(n - 1) : s[i] # s[n]
            BY ByZenon, <4>1 DEF Once
          <5>2. s[n] \notin Range(t)
            BY ByZenon, <5>1
          <5>3. Once(t, A \cap S)
            BY ByZenon
          <5>4. QED BY <5>2, <5>3, AppendFacts DEF AppendIs
        <4>2. CASE s[n] \notin A
          <5>1. Once(t, A \cap S)
            BY ByZenon
          <5> DEFINE u == Append(t, s[n])
                     m == Len(t)
          <5>2. /\ m \in Nat /\ DOMAIN u = 1..(m + 1) /\ DOMAIN t = 1..m
                /\ (\A i \in 1..m : u[i] = t[i]) /\ u[m + 1] = s[n]
            OBVIOUS
          <5>3. \A i \in 1..(m + 1) : i \in 1..m \/ i = m + 1
            BY <5>2
          <5> HIDE DEF u, m, t
          <5>4. Once(u, A \cap S)
            BY ByZenon, <4>2, <5>1, <5>2, <5>3 DEF Once
          <5>5. QED BY ByZenon, <5>4 DEF u
        <4>3. QED BY ByZenon, <4>1, <4>2
      <3>5. ASSUME IsInjective(s) PROVE Once(k[n], T)
        <4>1. \A i \in 1..(n - 1) : s[i] # s[n]
          BY ByZenon, <3>5 DEF IsInjective
        <4>2. s[n] \notin Range(t)
          BY ByZenon, <4>1
        <4>3. Once(t, T)
          BY ByZenon, <3>5
        <4>4. QED BY <4>2, <4>3, AppendFacts DEF AppendIs
      <3>6. QED BY ByZenon, <3>2, <3>3, <3>4, <3>5
    <2>8. QED BY ByZenon, <2>6, <2>7
  <1> HIDE DEF Good
  <1>5. Bad = {}
    <2>1. SUFFICES ASSUME Bad # {} PROVE FALSE
      BY ByZenon
    <2>2. Bad \in SUBSET Nat
      OBVIOUS
    <2>3. PICK n \in Bad : \A x \in Bad : n <= x
      BY ByZenon, <2>1, <2>2, Least
    <2>4. n # 0
      BY ByZenon, <1>3
    <2>5. n \in 1..Len(s) /\ n - 1 \in 0..Len(s) /\ ~(n <= n - 1)
      BY <2>4
    <2>6. n - 1 \notin Bad
      BY ByZenon, <2>3, <2>5
    <2>7. QED BY ByZenon, <1>4, <2>5, <2>6
  <1>6. Good(Len(s))
    BY <1>5
  <1>7. Keep(s, S) = k[Len(s)]
    BY ByZenon DEF Keep, k
  <1>8. First(Len(s)) = Range(s)
    BY ByZenon DEF Range
  <1>9. \A u \in Seq(T) : Once(u, T) => IsInjective(u)
    BY SeqFun DEF Once, IsInjective, SeqIs
  <1>10. QED BY ByZenon, <1>6, <1>7, <1>8, <1>9 DEF Good

(* A queue without repetitions has as many elements as places.              *)
LEMMA SeqCard ==
    ASSUME Counting, NEW T, NEW s \in Seq(T), IsInjective(s)
    PROVE  IsFiniteSet(Range(s)) /\ Cardinality(Range(s)) = Len(s)
  <1>1. Len(s) \in Nat /\ DOMAIN s = 1..Len(s) /\ s \in [1..Len(s) -> Range(s)]
    BY ByZenon, SeqFun DEF Range, SeqIs
  <1>2. s \in Bijection(1..Len(s), Range(s))
    BY ByZenon, <1>1, SeqFun DEF Bijection, Injection, Surjection, SeqIs
  <1>3. ExistsBijection(1..Len(s), Range(s))
    BY ByZenon, <1>2 DEF ExistsBijection
  <1>4. QED BY ByZenon, <1>1, <1>3, CountInterval, CountBijection

(* touch and free_blocks count a block once when the list they get has it   *)
(* once, and never count the null block.                                    *)
LEMMA UsesFacts ==
    ASSUME Counting, NEW bs \in Seq(Blocks), NEW b \in Blocks, Once(bs, Blocks \ {NullBlock})
    PROVE  Uses(bs, b) = IF b \in Range(bs) \ {NullBlock} THEN 1 ELSE 0
  <1> DEFINE S == {i \in DOMAIN bs : bs[i] = b}
  <1>1. CASE b = NullBlock
    BY ByZenon, <1>1 DEF Uses
  <1>2. CASE b # NullBlock /\ b \in Range(bs)
    <2> USE <1>2
    <2>1. PICK i \in DOMAIN bs : bs[i] = b
      BY ByZenon DEF Range
    <2>2. S = {i}
      BY ByZenon, <2>1 DEF Once
    <2>3. Cardinality(S) = 1
      BY ByZenon, <2>2, CountSmall
    <2>4. QED BY ByZenon, <2>3 DEF Uses, Count
  <1>3. CASE b # NullBlock /\ b \notin Range(bs)
    <2>1. S = {}
      BY ByZenon, <1>3 DEF Range
    <2>2. Cardinality(S) = 0
      BY ByZenon, <2>1, CountSmall
    <2>3. QED BY ByZenon, <1>3, <2>2 DEF Uses, Count
  <1>4. QED BY ByZenon, <1>1, <1>2, <1>3

(* The initial free queue has every block once.                             *)
LEMMA ListedFacts ==
    ASSUME Counting, NEW S, IsFiniteSet(S)
    PROVE  Listed(S) \in Seq(S) /\ IsInjective(Listed(S)) /\ Range(Listed(S)) = S
  <1> DEFINE n == Cardinality(S)
  <1>1. n \in Nat /\ ExistsBijection(1..n, S)
    BY ByZenon, CountType
  <1> USE <1>1
  <1>2. PICK f : f \in Bijection(1..n, S)
    BY ByZenon DEF ExistsBijection
  <1>3. f \in [1..n -> S] /\ IsInjective(f)
    BY ByZenon, <1>2 DEF Bijection, Injection
  <1>4. Listed(S) \in [1..n -> S] /\ IsInjective(Listed(S))
    BY ByZenon, <1>3 DEF Listed
  <1> USE <1>4
  <1>5. Listed(S) \in Injection(1..n, S)
    BY ByZenon DEF Injection
  <1>6. Cardinality(1..n) = n
    BY ByZenon, CountInterval
  <1>7. Listed(S) \in Surjection(1..n, S)
    BY ByZenon, <1>5, <1>6, CountInjection
  <1>8. Listed(S) \in Seq(S)
    BY ByZenon, FunSeq
  <1>9. Range(Listed(S)) = S
    BY ByZenon, <1>7 DEF Surjection, Range
  <1>10. QED BY ByZenon, <1>8, <1>9

(* The conclusion of Products.                                              *)
ProductsOrdered(a, b, B) ==
    (a <= b => a * B <= b * B) /\ (a * B < b * B => a < b) /\ a * B \in Int
    /\ (a + 1) * B = a * B + B /\ (a \in Nat => a <= a * B /\ a * B \in Nat)

(* Order and products with the block size.                                  *)
LEMMA Products ==
    ASSUME NEW a \in Int, NEW b \in Int, NEW B \in Nat \ {0}
    PROVE  ProductsOrdered(a, b, B)
  <1> USE DEF ProductsOrdered
  <1>0. a * B \in Int /\ b * B \in Int
    OBVIOUS
  <1> USE <1>0
  <1>1. (a + 1) * B = a * B + B
    OBVIOUS
  <1>2. ASSUME a <= b PROVE a * B <= b * B
    <2>1. PICK d \in Nat : b = a + d
      <3>1. b - a \in Nat /\ b = a + (b - a)
        BY <1>2
      <3>2. QED BY ByZenon, <3>1
    <2>2. b * B = a * B + d * B
      BY <2>1
    <2>3. d * B >= 0
      OBVIOUS
    <2>4. QED BY <2>2, <2>3
  <1>3. ASSUME NEW c \in Int, NEW d \in Int, c <= d PROVE c * B <= d * B
    <2>1. PICK e \in Nat : d = c + e
      <3>1. d - c \in Nat /\ d = c + (d - c)
        BY <1>3
      <3>2. QED BY ByZenon, <3>1
    <2>2. d * B = c * B + e * B
      BY <2>1
    <2>3. e * B >= 0
      OBVIOUS
    <2>4. QED BY <2>2, <2>3
  <1>4. ASSUME a * B < b * B PROVE a < b
    <2>1. SUFFICES ASSUME b <= a PROVE FALSE
      OBVIOUS
    <2>2. b * B <= a * B
      BY ByZenon, <1>3, <2>1
    <2>3. QED BY <1>4, <2>2
  <1>5. ASSUME a \in Nat PROVE a <= a * B /\ a * B \in Nat
    <2> USE <1>5
    <2>1. PICK c \in Nat : B = c + 1
      <3>1. B - 1 \in Nat /\ B = (B - 1) + 1
        OBVIOUS
      <3>2. QED BY ByZenon, <3>1
    <2>2. a * B = a * c + a
      BY <2>1
    <2>3. a * c \in Nat
      OBVIOUS
    <2>4. QED BY <2>2, <2>3
  <1>6. QED BY ByZenon, <1>1, <1>2, <1>4, <1>5

(* The conclusion of Quotient.                                              *)
QuotientIs(n, B) ==
    /\ n \div B \in Nat /\ (n \div B) * B <= n /\ n < (n \div B) * B + B
    /\ n \div B <= n

(* Rounding a token count down to full blocks.                              *)
LEMMA Quotient ==
    ASSUME NEW n \in Nat, NEW B \in Nat \ {0}
    PROVE  QuotientIs(n, B)
  <1> USE DEF QuotientIs
  <1>1. n = B * (n \div B) + (n % B) /\ n % B \in 0..(B - 1) /\ n \div B \in Int
    OBVIOUS
  <1> DEFINE q == n \div B
             m == n % B
  <1> HIDE DEF q, m
  <1>2. n = B * q + m /\ m \in 0..(B - 1) /\ q \in Int
    BY ByZenon, <1>1 DEF q, m
  <1> USE <1>2
  <1>3. B * q = q * B
    OBVIOUS
  <1>3a. q * B \in Int
    OBVIOUS
  <1> USE <1>3a
  <1>4. q * B <= n /\ n < q * B + B
    BY <1>3
  <1> USE <1>4
  <1>5. q \in Nat
    <2>1. SUFFICES ASSUME q <= -1 PROVE FALSE
      OBVIOUS
    <2>2. q * B <= (-1) * B
      BY <2>1, Products DEF ProductsOrdered
    <2>3. QED BY <2>2
  <1>6. q <= n
    BY <1>5, Products DEF ProductsOrdered
  <1>7. QED BY ByZenon, <1>5, <1>6 DEF q

(* The conclusion of QuotientBounds.                                        *)
QuotientBounded(n, B, q) ==
    (q * B <= n => q <= n \div B) /\ (n <= q * B => n \div B <= q)
    /\ (n < q * B => n \div B < q)

(* How a token count compares with a number of full blocks.                 *)
LEMMA QuotientBounds ==
    ASSUME NEW n \in Nat, NEW B \in Nat \ {0}, NEW q \in Nat
    PROVE  QuotientBounded(n, B, q)
  <1> USE DEF QuotientBounded
  <1> DEFINE d == n \div B
  <1>1. d \in Nat /\ d * B <= n /\ n < d * B + B
    BY ByZenon, Quotient DEF QuotientIs
  <1> USE <1>1
  <1> HIDE DEF d
  <1>2. (d + 1) * B = d * B + B /\ d * B \in Int /\ q * B \in Int /\ (q + 1) * B = q * B + B
    BY Products DEF ProductsOrdered
  <1> USE <1>2
  <1>3. ASSUME q * B <= n PROVE q <= d
    <2>1. q * B < (d + 1) * B
      BY <1>3
    <2>2. q < d + 1
      BY <2>1, Products DEF ProductsOrdered
    <2>3. QED BY <2>2
  <1>4. ASSUME n <= q * B PROVE d <= q
    <2>1. d * B < (q + 1) * B
      BY <1>4
    <2>2. d < q + 1
      BY <2>1, Products DEF ProductsOrdered
    <2>3. QED BY <2>2
  <1>5. ASSUME n < q * B PROVE d < q
    <2>1. d * B < q * B
      BY <1>5
    <2>3. QED BY <2>1, Products DEF ProductsOrdered
  <1>6. QED BY ByZenon, <1>3, <1>4, <1>5 DEF d

(* The conclusion of RoundUp.                                               *)
RoundsUp(n, B) ==
    /\ cdiv(n, B) \in Nat /\ n <= cdiv(n, B) * B /\ n \div B <= cdiv(n, B)
    /\ \A q \in Nat : n <= q * B => cdiv(n, B) <= q
    /\ \A q \in Nat : q * B <= n => q <= cdiv(n, B)

(* cdiv gives the least number of blocks that hold n tokens.                *)
LEMMA RoundUp ==
    ASSUME NEW n \in Nat, NEW B \in Nat \ {0}
    PROVE  RoundsUp(n, B)
  <1> USE DEF RoundsUp
  <1> DEFINE m == n + B - 1
             c == cdiv(n, B)
  <1>1. m \in Nat /\ c = m \div B
    BY DEF cdiv
  <1> USE <1>1
  <1>2. c \in Nat /\ c * B <= m /\ m < c * B + B /\ c * B \in Int
    BY Quotient, Products DEF QuotientIs, ProductsOrdered
  <1> USE <1>2
  <1> HIDE DEF c
  <1>3. n <= c * B
    OBVIOUS
  <1>4. n \div B <= c
    BY ByZenon, <1>3, QuotientBounds DEF QuotientBounded
  <1>5. ASSUME NEW q \in Nat, n <= q * B PROVE c <= q
    <2>1. q * B \in Int /\ (q + 1) * B = q * B + B
      BY Products DEF ProductsOrdered
    <2>2. m < (q + 1) * B /\ q + 1 \in Nat
      BY <1>5, <2>1
    <2>3. m \div B < q + 1
      BY ByZenon, <2>2, QuotientBounds DEF QuotientBounded
    <2>4. QED BY <2>3
  <1>6. ASSUME NEW q \in Nat, q * B <= n PROVE q <= c
    <2>1. q * B \in Int /\ q <= n \div B /\ n \div B \in Nat
      BY <1>6, QuotientBounds, Quotient, Products DEF QuotientBounded, QuotientIs, ProductsOrdered
    <2>2. QED BY <1>4, <2>1
  <1>7. QED BY ByZenon, <1>3, <1>4, <1>5, <1>6 DEF c

(* More tokens never need fewer blocks.                                     *)
LEMMA Monotone ==
    ASSUME NEW m \in Nat, NEW n \in Nat, m <= n, NEW B \in Nat \ {0}
    PROVE  m \div B <= n \div B /\ cdiv(m, B) <= cdiv(n, B)
  <1>1. m \div B \in Nat /\ (m \div B) * B <= m /\ (m \div B) * B \in Int
    BY Quotient, Products DEF QuotientIs, ProductsOrdered
  <1>2. m \div B <= n \div B
    BY <1>1, QuotientBounds DEF QuotientBounded
  <1>3. n <= cdiv(n, B) * B /\ cdiv(n, B) \in Nat /\ cdiv(n, B) * B \in Int
    BY RoundUp, Products DEF RoundsUp, ProductsOrdered
  <1>4. m <= cdiv(n, B) * B
    BY <1>3
  <1>5. cdiv(m, B) <= cdiv(n, B)
    BY ByZenon, <1>3, <1>4, RoundUp DEF RoundsUp
  <1>6. QED BY ByZenon, <1>2, <1>5

-----------------------------------------------------------------------------
(* The invariant of the manager.                                            *)

(* The hashes of the prefixes of every request, as the refinement mapping   *)
(* of KVCacheManager gives them to BlockOwnership.                          *)
Prefixes == [r \in Requests |-> Range(BlockHashes[r])]

(* The lemmas about the calls of BlockOwnership, for the manager's blocks.  *)
OP == INSTANCE BlockOwnershipProofs WITH
          Blocks <- Real, PrefixHashes <- Prefixes, p <- Owned(InitCache(0))

(* The records that the manager can be.  No exception has been raised.      *)
KV == [ref_cnt          : [Blocks -> Int],
       block_hash       : [Blocks -> Hashes \cup {NoHash}],
       free             : Seq(Blocks),
       cached           : [Hashes -> Seq(Blocks)],
       published        : [Hashes -> Int],
       err              : {{}},
       window           : Nat,
       req_to_blocks    : [Requests -> Seq(Blocks)],
       num_cached_block : [Requests -> Int]]

(* The free queue holds no block twice and never the null block.            *)
QueueOK(k)  == /\ NullBlock \notin Range(k.free) /\ IsInjective(k.free)
               /\ k.ref_cnt[NullBlock] = 0 /\ k.block_hash[NullBlock] = NoHash
(* A table holds no real block twice, and the cached part is a part of it.  *)
TablesOK(k) == \A r \in Requests : /\ Once(k.req_to_blocks[r], Real)
                                   /\ k.num_cached_block[r] >= NotTracked
                                   /\ k.num_cached_block[r] <= Len(k.req_to_blocks[r])
(* The hash map has every block under its own hash, once.                   *)
MapOK(k)    == \A h \in Hashes :
                  /\ IsInjective(k.cached[h])
                  /\ Range(k.cached[h]) = {b \in Blocks : k.block_hash[b] = h}
(* The events add up to the hash map.                                       *)
EventsOK(k) == \A h \in Hashes : k.published[h] = Len(k.cached[h])
(* The hashes that a block at place i of the table of r may have.           *)
OwnHash(r, i) ==
    {NoHash} \cup {BlockHashes[r][j] : j \in {i} \cap DOMAIN BlockHashes[r]}

(* A block in a table is cached under no other hash than that of its place. *)
PrefixOK(k) == \A r \in Requests : \A i \in DOMAIN k.req_to_blocks[r] :
                  k.req_to_blocks[r][i] # NullBlock
                    => k.block_hash[k.req_to_blocks[r][i]] \in OwnHash(r, i)

(* The invariant of the manager's own state, with the invariant of          *)
(* BlockOwnership for what the refinement mapping sees.                     *)
Sound(k) == /\ k \in KV /\ QueueOK(k) /\ TablesOK(k) /\ MapOK(k) /\ EventsOK(k) /\ PrefixOK(k)
            /\ OP!PoolInv(Owned(k))

(* What the type of the manager's state says of the lengths in it.          *)
LEMMA SoundLengths ==
    ASSUME NEW k, Sound(k)
    PROVE  /\ k \in KV /\ TablesOK(k) /\ Len(k.free) \in Nat
           /\ \A r \in Requests : k.req_to_blocks[r] \in Seq(Blocks) /\ Len(k.req_to_blocks[r]) \in Nat
  <1>1. k \in KV /\ TablesOK(k)
    BY ByZenon DEF Sound
  <1>2. k.free \in Seq(Blocks) /\ \A r \in Requests : k.req_to_blocks[r] \in Seq(Blocks)
    BY <1>1 DEF KV
  <1>3. Len(k.free) \in Nat
    BY <1>2
  <1>4. ASSUME NEW r \in Requests PROVE Len(k.req_to_blocks[r]) \in Nat
    BY <1>2
  <1>5. QED BY ByZenon, <1>1, <1>2, <1>3, <1>4

(* The conclusion of HashTypes.                                             *)
HashesTyped ==
    /\ NoHash \notin Hashes
    /\ \A r \in Requests : /\ BlockHashes[r] \in Seq(Hashes)
                           /\ Len(BlockHashes[r]) \in Nat
                           /\ DOMAIN BlockHashes[r] = 1..Len(BlockHashes[r])
                           /\ Range(BlockHashes[r]) \subseteq Hashes
                           /\ \A i \in 1..Len(BlockHashes[r]) : BlockHashes[r][i] \in Hashes
                           /\ IsInjective(BlockHashes[r])

(* The block hashes of a request, as PoolAssumption has them.               *)
LEMMA HashTypes == HashesTyped
  <1> USE DEF HashesTyped
  <1>1. NoHash \notin Hashes
    BY ByZenon, PoolAssumption DEF PoolAssumption, Hashes
  <1>2. ASSUME NEW r \in Requests
        PROVE  /\ BlockHashes[r] \in Seq(Hashes)
               /\ Len(BlockHashes[r]) \in Nat
               /\ DOMAIN BlockHashes[r] = 1..Len(BlockHashes[r])
               /\ Range(BlockHashes[r]) \subseteq Hashes
               /\ \A i \in 1..Len(BlockHashes[r]) : BlockHashes[r][i] \in Hashes
               /\ IsInjective(BlockHashes[r])
    <2> DEFINE s == BlockHashes[r]
    <2>1. s \in Seq(Range(s))
      BY ByZenon, PoolAssumption DEF PoolAssumption
    <2>2. Range(s) \subseteq Hashes
      BY ByZenon DEF Hashes
    <2>3. IsInjective(s)
      BY PoolAssumption DEF PoolAssumption, IsInjective
    <2> HIDE DEF s
    <2>4. Len(s) \in Nat /\ DOMAIN s = 1..Len(s) /\ s \in [1..Len(s) -> Hashes]
      BY <2>1, <2>2
    <2>5. s \in Seq(Hashes)
      BY ByZenon, <2>4, FunSeq
    <2>6. QED BY ByZenon, <2>2, <2>3, <2>4, <2>5 DEF s
  <1>3. QED BY ByZenon, <1>1, <1>2

(* The assumption of BlockOwnership holds for the manager's constants.      *)
LEMMA OwnershipFits ==
    NoHash \notin Hashes /\ Prefixes \in [Requests -> SUBSET Hashes]
  BY ByZenon, HashTypes DEF Prefixes, HashesTyped

(* The conclusion of OwnedFacts.                                            *)
OwnedIs(k) ==
    /\ \A b \in Real : Owned(k).ref[b] = k.ref_cnt[b] /\ Owned(k).hash[b] = k.block_hash[b]
    /\ Owned(k).free = Range(k.free)
    /\ \A r \in Requests :
         /\ Owned(k).holds[r] = Range(k.req_to_blocks[r]) \ {NullBlock}
         /\ Owned(k).fresh[r] = {b \in Real : \E i \in DOMAIN k.req_to_blocks[r] :
                  k.req_to_blocks[r][i] = b /\ i > k.num_cached_block[r]}

(* The refinement mapping, field by field.                                  *)
LEMMA OwnedFacts ==
    ASSUME NEW k \in KV
    PROVE  OwnedIs(k)
  BY ByZenon DEF Owned, OwnedIs

(* The conclusion of Reading.                                               *)
OwnershipRead(k) ==
    /\ \A b \in Real : b \in Range(k.free) <=>
          \A r \in Requests : b \notin Range(k.req_to_blocks[r])
    /\ \A b \in Real : b \in Range(k.free) <=> k.ref_cnt[b] = 0
    /\ k.ref_cnt \in [Blocks -> Nat]
    /\ \A r \in Requests : \A i \in DOMAIN k.req_to_blocks[r] :
         i > k.num_cached_block[r] /\ k.req_to_blocks[r][i] # NullBlock
           => /\ k.block_hash[k.req_to_blocks[r][i]] = NoHash
              /\ \A s \in Requests \ {r} : k.req_to_blocks[r][i] \notin Range(k.req_to_blocks[s])

(* What the ownership invariant says of the manager's own state: a block is *)
(* free exactly when no table holds it and exactly when its count is 0, and *)
(* a block behind the cached part of a table has no hash and no other       *)
(* holder.                                                                  *)
LEMMA Reading ==
    ASSUME NEW k, Sound(k)
    PROVE  OwnershipRead(k)
  <1> USE DEF OwnershipRead
  <1> DEFINE q == Owned(k)
  <1>1. k \in KV /\ QueueOK(k) /\ OP!PoolInv(q)
    BY ByZenon DEF Sound
  <1> USE <1>1
  <1>2. /\ \A b \in Real : OP!Counts(q.ref[b], OP!Holders(q, b))
        /\ \A b \in Real : b \in q.free <=> OP!Holders(q, b) = {}
        /\ \A r \in Requests : \A b \in q.fresh[r] : OP!Holders(q, b) = {r} /\ q.hash[b] = NoHash
    BY ByZenon DEF OP!PoolInv, OP!RefInv, OP!FreeInv, OP!WriterInv
  <1> USE <1>2
  <1>3. \A b \in Real : q.ref[b] \in Nat /\ (q.ref[b] = 0 <=> OP!Holders(q, b) = {})
    BY ByZenon, OwnershipFits, OP!CountsNone
  <1>4. \A b \in Real : OP!Holders(q, b) = {r \in Requests : b \in Range(k.req_to_blocks[r])}
    BY OwnedFacts DEF OP!Holders, Real, OwnedIs
  <1>5. q.free = Range(k.free) /\ \A b \in Real : q.ref[b] = k.ref_cnt[b] /\ q.hash[b] = k.block_hash[b]
    BY ByZenon, OwnedFacts DEF OwnedIs
  <1> USE <1>5
  <1>6. \A r \in Requests : \A i \in DOMAIN k.req_to_blocks[r] :
           i > k.num_cached_block[r] /\ k.req_to_blocks[r][i] # NullBlock
             => k.req_to_blocks[r][i] \in q.fresh[r] /\ k.req_to_blocks[r][i] \in Real
    <2>1. SUFFICES ASSUME NEW r \in Requests, NEW i \in DOMAIN k.req_to_blocks[r],
                          i > k.num_cached_block[r], k.req_to_blocks[r][i] # NullBlock
                   PROVE  k.req_to_blocks[r][i] \in q.fresh[r] /\ k.req_to_blocks[r][i] \in Real
      BY ByZenon
    <2>2. k.req_to_blocks[r] \in Seq(Blocks)
      BY ByZenon DEF KV
    <2>3. k.req_to_blocks[r][i] \in Real
      BY <2>1, <2>2, SeqFun DEF Real, SeqIs
    <2>4. QED BY <2>1, <2>3, OwnedFacts DEF OwnedIs
  <1> HIDE DEF q
  <1>7. \A b \in Real : b \in Range(k.free) <=> \A r \in Requests : b \notin Range(k.req_to_blocks[r])
    BY ByZenon, <1>4
  <1>8. \A b \in Real : b \in Range(k.free) <=> k.ref_cnt[b] = 0
    BY ByZenon, <1>3
  <1>9. k.ref_cnt \in [Blocks -> Nat]
    <2>1. \A b \in Real : k.ref_cnt[b] \in Nat
      BY ByZenon, <1>3
    <2>2. \A b \in Blocks : k.ref_cnt[b] \in Nat
      BY <2>1 DEF Real, QueueOK
    <2>3. k.ref_cnt \in [Blocks -> Int]
      BY ByZenon DEF KV
    <2>4. QED BY ByZenon, <2>2, <2>3
  <1>10. ASSUME NEW r \in Requests, NEW i \in DOMAIN k.req_to_blocks[r],
                i > k.num_cached_block[r], k.req_to_blocks[r][i] # NullBlock
         PROVE  /\ k.block_hash[k.req_to_blocks[r][i]] = NoHash
                /\ \A s \in Requests \ {r} : k.req_to_blocks[r][i] \notin Range(k.req_to_blocks[s])
    <2> DEFINE b == k.req_to_blocks[r][i]
    <2>1. b \in q.fresh[r] /\ b \in Real
      BY ByZenon, <1>6, <1>10
    <2> HIDE DEF b
    <2>2. OP!Holders(q, b) = {r} /\ k.block_hash[b] = NoHash
      BY ByZenon, <2>1
    <2>3. \A s \in Requests \ {r} : b \notin Range(k.req_to_blocks[s])
      BY ByZenon, <1>4, <2>1, <2>2
    <2>4. QED BY ByZenon, <2>2, <2>3 DEF b
  <1>11. QED BY ByZenon, <1>7, <1>8, <1>9, <1>10

-----------------------------------------------------------------------------
(* Calls of the block pool: evict_blocks and get_new_blocks.                *)

(* The part of the invariant that evict_blocks restores.                    *)
Mapped(k) == k \in KV /\ MapOK(k) /\ EventsOK(k)
(* A call of the block pool leaves what belongs to requests alone.          *)
SameTables(k, t) == /\ t.window = k.window /\ t.req_to_blocks = k.req_to_blocks
                    /\ t.num_cached_block = k.num_cached_block

(* The conclusion of EvictFacts.                                            *)
EvictIs(k, S) ==
    /\ Mapped(evict_blocks(k, S)) /\ SameTables(k, evict_blocks(k, S))
    /\ evict_blocks(k, S).ref_cnt = k.ref_cnt /\ evict_blocks(k, S).free = k.free
    /\ \A b \in Blocks : evict_blocks(k, S).block_hash[b] =
                            IF b \in S THEN NoHash ELSE k.block_hash[b]

(* evict_blocks takes the hashes of S, the map entries and the events away  *)
(* together.                                                                *)
LEMMA EvictFacts ==
    ASSUME Counting, NEW k, Mapped(k), NEW S \in SUBSET Blocks
    PROVE  EvictIs(k, S)
  <1> USE DEF EvictIs
  <1> DEFINE found == {b \in S : k.block_hash[b] # NoHash
                              /\ b \in Range(k.cached[k.block_hash[b]])}
             bh == [b \in Blocks |-> IF b \in found THEN NoHash ELSE k.block_hash[b]]
             ca == [h \in Hashes |-> Keep(k.cached[h], Blocks \ found)]
             pu == [h \in Hashes |-> k.published[h] - Cardinality({b \in found : k.block_hash[b] = h})]
             t  == evict_blocks(k, S)
  <1>1. k \in KV /\ MapOK(k) /\ EventsOK(k)
    BY ByZenon DEF Mapped
  <1>2. t = [k EXCEPT !.block_hash = bh, !.cached = ca, !.published = pu]
    BY ByZenon DEF evict_blocks
  <1>3. found \subseteq Blocks /\ \A b \in S : b \in found <=> k.block_hash[b] # NoHash
    <2>1. \A b \in Blocks : k.block_hash[b] # NoHash => k.block_hash[b] \in Hashes
      BY ByZenon, <1>1 DEF KV
    <2>2. QED BY ByZenon, <1>1, <2>1 DEF MapOK
  <1> HIDE DEF found
  <1>4. bh \in [Blocks -> Hashes \cup {NoHash}]
        /\ \A b \in Blocks : bh[b] = IF b \in S THEN NoHash ELSE k.block_hash[b]
    <2>1. k.block_hash \in [Blocks -> Hashes \cup {NoHash}]
      BY ByZenon, <1>1 DEF KV
    <2>2. \A b \in Blocks : bh[b] = IF b \in found THEN NoHash ELSE k.block_hash[b]
      BY ByZenon
    <2>3. \A b \in Blocks : bh[b] \in Hashes \cup {NoHash}
      BY ByZenon, <2>1, <2>2
    <2>4. bh \in [Blocks -> Hashes \cup {NoHash}]
      BY ByZenon, <2>3
    <2> HIDE DEF bh
    <2>5. \A b \in found : b \in S
      BY ByZenon DEF found
    <2>6. QED BY ByZenon, <1>3, <2>2, <2>4, <2>5
  <1>5. ASSUME NEW h \in Hashes
        PROVE  /\ ca[h] \in Seq(Blocks) /\ IsInjective(ca[h])
               /\ Range(ca[h]) = {b \in Blocks : bh[b] = h}
               /\ pu[h] \in Int /\ pu[h] = Len(ca[h])
    <2> DEFINE s == k.cached[h]
               u == Keep(s, Blocks \ found)
               F == {b \in found : k.block_hash[b] = h}
    <2>0. ca[h] = u /\ pu[h] = k.published[h] - Cardinality(F)
      BY ByZenon
    <2>1. /\ s \in Seq(Blocks) /\ IsInjective(s) /\ Range(s) = {b \in Blocks : k.block_hash[b] = h}
          /\ k.published[h] = Len(s)
      BY ByZenon, <1>1 DEF KV, MapOK, EventsOK
    <2>2. u \in Seq(Blocks) /\ Range(u) = Range(s) \cap (Blocks \ found) /\ IsInjective(u)
      <3> HIDE DEF s
      <3>1. QED BY ByZenon, <2>1, KeepFacts DEF KeepIs
    <2>3. IsFiniteSet(Range(s)) /\ Cardinality(Range(s)) = Len(s) /\ Cardinality(Range(u)) = Len(u)
      <3> HIDE DEF s, u
      <3>1. QED BY ByZenon, <2>1, <2>2, SeqCard
    <2>4. Range(u) = Range(s) \ F /\ Range(s) \cap F = F
      <3> HIDE DEF s, u
      <3>1. QED BY ByZenon, <1>3, <2>1, <2>2
    <2>5. Cardinality(Range(u)) = Cardinality(Range(s)) - Cardinality(F)
      <3> HIDE DEF s, u, F
      <3>1. QED BY ByZenon, <2>3, <2>4, CountDifference
    <2>6. h # NoHash
      BY ByZenon, HashTypes DEF HashesTyped
    <2>7. Range(u) = {b \in Blocks : bh[b] = h}
      <3> HIDE DEF s, u, bh
      <3>1. \A b \in found : b \in S
        BY ByZenon DEF found
      <3>2. ASSUME NEW b \in Blocks
            PROVE  (k.block_hash[b] = h /\ b \notin found) <=> bh[b] = h
        BY ByZenon, <1>3, <1>4, <2>6, <3>1
      <3>3. QED BY ByZenon, <2>1, <2>2, <3>2
    <2>8. Len(u) = k.published[h] - Cardinality(F) /\ Len(u) \in Nat
      <3>1. Len(u) \in Nat
        BY <2>2
      <3> HIDE DEF s, u, F
      <3>2. QED BY ByZenon, <2>1, <2>3, <2>5, <3>1
    <2> HIDE DEF s, u, F, bh, ca, pu
    <2>9. QED BY <2>0, <2>2, <2>7, <2>8
  <1>6. ca \in [Hashes -> Seq(Blocks)] /\ pu \in [Hashes -> Int]
    <2>1. (\A h \in Hashes : ca[h] \in Seq(Blocks)) /\ \A h \in Hashes : pu[h] \in Int
      BY ByZenon, <1>5
    <2>2. QED BY ByZenon, <2>1
  <1> HIDE DEF bh, ca, pu, t
  <1>7. /\ t \in KV /\ t.block_hash = bh /\ t.cached = ca /\ t.published = pu
        /\ t.ref_cnt = k.ref_cnt /\ t.free = k.free /\ SameTables(k, t)
    BY ByZenon, <1>1, <1>2, <1>4, <1>6 DEF KV, SameTables
  <1>8. MapOK(t) /\ EventsOK(t)
    BY ByZenon, <1>5, <1>7 DEF MapOK, EventsOK
  <1>9. QED BY ByZenon, <1>4, <1>7, <1>8 DEF t, Mapped

(* An assertion that holds raises nothing.                                  *)
LEMMA RaiseFalse ==
    ASSUME NEW p, NEW c, ~c, NEW w PROVE Raise(p, c, w) = p
  BY ByZenon DEF Raise

(* The conclusion of NewBlocksFacts.                                        *)
NewBlocksAre(k, n) ==
    /\ Mapped(get_new_blocks(k, n)) /\ SameTables(k, get_new_blocks(k, n))
    /\ new_blocks(k, n) \in Seq(Blocks) /\ IsInjective(new_blocks(k, n))
    /\ Len(new_blocks(k, n)) = n
    /\ Range(new_blocks(k, n)) \subseteq Range(k.free) /\ NullBlock \notin Range(new_blocks(k, n))
    /\ \A b \in Blocks :
         /\ get_new_blocks(k, n).ref_cnt[b] =
               IF b \in Range(new_blocks(k, n)) THEN k.ref_cnt[b] + 1 ELSE k.ref_cnt[b]
         /\ get_new_blocks(k, n).block_hash[b] =
               IF b \in Range(new_blocks(k, n)) THEN NoHash ELSE k.block_hash[b]
    /\ IsInjective(get_new_blocks(k, n).free)
    /\ Len(get_new_blocks(k, n).free) = Len(k.free) - n
    /\ Range(get_new_blocks(k, n).free) = Range(k.free) \ Range(new_blocks(k, n))

(* get_new_blocks takes the first n blocks of the queue, counts them and    *)
(* drops their hashes; with n blocks in the queue it does not raise.        *)
LEMMA NewBlocksFacts ==
    ASSUME Counting, NEW k, Sound(k), NEW n \in Nat, n <= Len(k.free)
    PROVE  NewBlocksAre(k, n)
  <1> USE DEF NewBlocksAre
  <1> DEFINE f == k.free
             new == new_blocks(k, n)
             ret == Range(new)
             e == evict_blocks(k, ret)
             f2 == SubSeq(f, n + 1, Len(f))
             rc == [b \in Blocks |-> IF b \in ret THEN k.ref_cnt[b] + 1 ELSE k.ref_cnt[b]]
             t == get_new_blocks(k, n)
  <1>1. k \in KV /\ QueueOK(k) /\ Mapped(k)
    BY ByZenon DEF Sound, Mapped
  <1>2. f \in Seq(Blocks) /\ IsInjective(f) /\ NullBlock \notin Range(f) /\ Len(f) \in Nat
        /\ n <= Len(f) /\ 0 <= n /\ 0 \in Nat /\ Len(f) <= Len(f)
    BY <1>1 DEF KV, QueueOK
  <1>3. new = SubSeq(f, 0 + 1, n)
    BY <1>2 DEF new_blocks, get_num_free_blocks
  <1>4. DOMAIN f = 1..Len(f) /\ Once(f, Blocks)
    BY ByZenon, <1>2, SeqFun DEF Once, IsInjective, SeqIs
  <1> HIDE DEF f, new
  <1>5. new \in Seq(Blocks) /\ Len(new) = n - 0 /\ Once(new, Blocks) /\ Range(new) = {f[i] : i \in (0 + 1)..n}
    <2>1. /\ SubSeq(f, 0 + 1, n) \in Seq(Blocks) /\ Len(SubSeq(f, 0 + 1, n)) = n - 0
          /\ \A i \in 1..(n - 0) : SubSeq(f, 0 + 1, n)[i] = f[0 + i]
          /\ Range(SubSeq(f, 0 + 1, n)) = {f[i] : i \in (0 + 1)..n}
          /\ Once(f, Blocks) => Once(SubSeq(f, 0 + 1, n), Blocks)
      BY ByZenon, <1>2, SubSeqFacts DEF SubSeqIs
    <2>2. QED BY ByZenon, <1>3, <1>4, <2>1
  <1>6. f2 \in Seq(Blocks) /\ Len(f2) = Len(f) - n /\ Once(f2, Blocks)
        /\ Range(f2) = {f[i] : i \in (n + 1)..Len(f)}
    <2>1. /\ f2 \in Seq(Blocks) /\ Len(f2) = Len(f) - n
          /\ \A i \in 1..(Len(f) - n) : f2[i] = f[n + i]
          /\ Range(f2) = {f[i] : i \in (n + 1)..Len(f)}
          /\ Once(f, Blocks) => Once(f2, Blocks)
      BY ByZenon, <1>2, SubSeqFacts DEF SubSeqIs
    <2>2. QED BY ByZenon, <1>4, <2>1
  <1>7. \A u \in Seq(Blocks) : Once(u, Blocks) => IsInjective(u)
    BY SeqFun DEF Once, IsInjective, SeqIs
  <1>8. Range(new) \subseteq Range(f) /\ Range(f2) = Range(f) \ Range(new)
    <2>1. \A i \in (0 + 1)..n : i \in 1..Len(f)
      BY <1>2
    <2>2. \A i \in (n + 1)..Len(f) : i \in 1..Len(f)
      BY <1>2
    <2>3. \A i \in 1..Len(f) : i \in (0 + 1)..n \/ i \in (n + 1)..Len(f)
      BY <1>2
    <2>4. \A i \in (0 + 1)..n : \A j \in (n + 1)..Len(f) : i # j
      BY <1>2
    <2>5. Range(f) = {f[i] : i \in 1..Len(f)}
      BY ByZenon, <1>4 DEF Range
    <2>6. \A i \in (0 + 1)..n : \A j \in (n + 1)..Len(f) : f[i] # f[j]
      BY ByZenon, <1>2, <1>4, <2>1, <2>2, <2>4 DEF IsInjective
    <2>7. Range(new) \subseteq Range(f)
      BY ByZenon, <1>5, <2>1, <2>5
    <2>8. QED BY ByZenon, <1>5, <1>6, <2>2, <2>3, <2>5, <2>6, <2>7
  <1>9. ret \in SUBSET Blocks
    BY ByZenon, <1>5, SeqFun DEF SeqIs
  <1> HIDE DEF ret, e
  <1>10. /\ Mapped(e) /\ SameTables(k, e) /\ e.ref_cnt = k.ref_cnt /\ e.free = f
         /\ \A b \in Blocks : e.block_hash[b] = IF b \in ret THEN NoHash ELSE k.block_hash[b]
    BY ByZenon, <1>1, <1>9, EvictFacts DEF e, f, EvictIs
  <1>11. \A b \in ret : k.ref_cnt[b] = 0
    <2>1. ret \subseteq Real
      BY ByZenon, <1>2, <1>8, <1>9 DEF ret, Real
    <2>2. QED BY ByZenon, <1>8, <2>1, Reading DEF ret, f, OwnershipRead
  <1> DEFINE q == [e EXCEPT !.free = f2, !.ref_cnt = rc]
  <1>12. t = q
    <2>1. ~(n > get_num_free_blocks(k))
      BY <1>2 DEF get_num_free_blocks, f
    <2>2. q = [e EXCEPT !.free = SubSeq(@, n + 1, Len(@)),
                        !.ref_cnt = [b \in Blocks |-> IF b \in ret THEN @[b] + 1 ELSE @[b]]]
      BY ByZenon, <1>10
    <2>3. ~(\E b \in ret : k.ref_cnt[b] # 0)
      BY ByZenon, <1>11
    <2>4. t = Raise(q, \E b \in ret : k.ref_cnt[b] # 0,
                   "get_new_blocks: ref_cnt of a free block is not 0")
      BY ByZenon, <2>1, <2>2 DEF get_new_blocks, ret, new, e
    <2> HIDE DEF q, t
    <2>5. QED BY ByZenon, <2>3, <2>4, RaiseFalse
  <1>13. rc \in [Blocks -> Int] /\ \A b \in Blocks : rc[b] = IF b \in ret THEN k.ref_cnt[b] + 1 ELSE k.ref_cnt[b]
    BY <1>1 DEF KV
  <1> HIDE DEF rc, t, f2
  <1>14. e \in KV
    BY ByZenon, <1>10 DEF Mapped
  <1>15. /\ t \in KV /\ t.free = f2 /\ t.ref_cnt = rc /\ t.block_hash = e.block_hash
         /\ t.cached = e.cached /\ t.published = e.published /\ SameTables(e, t)
    BY ByZenon, <1>6, <1>12, <1>13, <1>14 DEF KV, SameTables
  <1>16. Mapped(t) /\ SameTables(k, t)
    BY <1>10, <1>15 DEF Mapped, MapOK, EventsOK, SameTables
  <1>17. /\ \A b \in Blocks : /\ t.ref_cnt[b] = IF b \in ret THEN k.ref_cnt[b] + 1 ELSE k.ref_cnt[b]
                              /\ t.block_hash[b] = IF b \in ret THEN NoHash ELSE k.block_hash[b]
         /\ IsInjective(t.free) /\ Len(t.free) = Len(f) - n /\ Range(t.free) = Range(f) \ ret
    BY ByZenon, <1>6, <1>7, <1>8, <1>10, <1>13, <1>15 DEF ret
  <1>18. /\ new \in Seq(Blocks) /\ IsInjective(new) /\ Len(new) = n
         /\ ret \subseteq Range(f) /\ NullBlock \notin ret
    BY <1>2, <1>5, <1>7, <1>8 DEF ret
  <1>19. QED BY ByZenon, <1>16, <1>17, <1>18 DEF ret, new, f, t

(* The call changes no table but that of r.                                 *)
OnlyTable(k, t, r) == \A s \in Requests \ {r} : t.req_to_blocks[s] = k.req_to_blocks[s]

(* The places of a table, or of a list of hits, that hold the null block.   *)
NullPlaces(s) == {i \in DOMAIN s : s[i] = NullBlock}

(* The conclusion of ExtendSound.                                           *)
ExtendIs(k, r, n) ==
    /\ Sound(ExtendTable(k, r, n))
    /\ Range(new_blocks(k, n)) \subseteq Owned(k).free
    /\ Owned(ExtendTable(k, r, n)) = OP!Take(Owned(k), r, {}, Range(new_blocks(k, n)))
    /\ Len(ExtendTable(k, r, n).req_to_blocks[r]) = Len(k.req_to_blocks[r]) + n
    /\ Len(ExtendTable(k, r, n).free) = Len(k.free) - n
    /\ ExtendTable(k, r, n).window = k.window
    /\ ExtendTable(k, r, n).num_cached_block = k.num_cached_block
    /\ OnlyTable(k, ExtendTable(k, r, n), r)
    /\ NullPlaces(ExtendTable(k, r, n).req_to_blocks[r]) \subseteq NullPlaces(k.req_to_blocks[r])

(* get_new_blocks appended to the table of r: sound, and BlockOwnership's   *)
(* Take of new blocks.                                                      *)
LEMMA ExtendSound ==
    ASSUME Counting, NEW k, Sound(k), NEW r \in Requests, NEW n \in Nat, n <= Len(k.free)
    PROVE  ExtendIs(k, r, n)
  <1> USE DEF ExtendIs
  <1> DEFINE new == new_blocks(k, n)
             ret == Range(new)
             g == get_new_blocks(k, n)
             tab == k.req_to_blocks[r]
             tab2 == tab \o new
             t == ExtendTable(k, r, n)
             q == Owned(k)
  <1>1. k \in KV /\ QueueOK(k) /\ TablesOK(k) /\ PrefixOK(k) /\ OP!PoolInv(q)
    BY ByZenon DEF Sound
  <1> USE <1>1
  <1>2. /\ Mapped(g) /\ SameTables(k, g)
        /\ new \in Seq(Blocks) /\ IsInjective(new) /\ Len(new) = n
        /\ ret \subseteq Range(k.free) /\ NullBlock \notin ret
        /\ \A b \in Blocks :
             /\ g.ref_cnt[b] = IF b \in ret THEN k.ref_cnt[b] + 1 ELSE k.ref_cnt[b]
             /\ g.block_hash[b] = IF b \in ret THEN NoHash ELSE k.block_hash[b]
        /\ IsInjective(g.free)
        /\ Len(g.free) = Len(k.free) - n
        /\ Range(g.free) = Range(k.free) \ ret
    BY ByZenon, NewBlocksFacts DEF NewBlocksAre
  <1>3. tab \in Seq(Blocks) /\ Once(tab, Real) /\ Len(tab) \in Nat /\ DOMAIN tab = 1..Len(tab)
    BY DEF KV, TablesOK
  <1> USE <1>3
  <1>4. ret \subseteq Real
    BY ByZenon, <1>2, SeqFun DEF Real, SeqIs
  <1>5. \A b \in ret : \A s \in Requests : b \notin Range(k.req_to_blocks[s])
    BY ByZenon, <1>2, <1>4, Reading DEF OwnershipRead
  <1>5a. \A b \in ret : b \notin Range(tab)
    BY ByZenon, <1>5
  <1>5b. \A j \in 1..n : new[j] \in ret
    BY ByZenon, <1>2, SeqFun DEF SeqIs
  <1> HIDE DEF new, tab, g
  <1>6. Once(new, Real)
    BY ByZenon, <1>2 DEF Once, IsInjective
  <1>7. /\ tab2 \in Seq(Blocks) /\ Len(tab2) = Len(tab) + n /\ Range(tab2) = Range(tab) \cup ret
        /\ \A i \in 1..Len(tab) : tab2[i] = tab[i]
        /\ \A i \in 1..n : tab2[Len(tab) + i] = new[i]
        /\ Once(tab2, Real)
    <2>1. /\ tab2 \in Seq(Blocks) /\ Len(tab2) = Len(tab) + Len(new)
          /\ Range(tab2) = Range(tab) \cup Range(new)
          /\ \A i \in 1..Len(tab) : tab2[i] = tab[i]
          /\ \A i \in 1..Len(new) : tab2[Len(tab) + i] = new[i]
          /\ \A i \in 1..(Len(tab) + Len(new)) :
                 tab2[i] = IF i <= Len(tab) THEN tab[i] ELSE new[i - Len(tab)]
          /\ Once(tab, Real) /\ Once(new, Real) /\ (\A x \in Real : ~(x \in Range(tab) /\ x \in Range(new)))
                => Once(tab2, Real)
      BY ByZenon, <1>2, ConcatFacts DEF ConcatIs
    <2>2. \A x \in Real : ~(x \in Range(tab) /\ x \in Range(new))
      BY ByZenon, <1>5a
    <2>3. QED BY ByZenon, <1>2, <1>6, <2>1, <2>2
  <1>8. g \in KV
    BY ByZenon, <1>2 DEF Mapped
  <1>9. t = [g EXCEPT !.req_to_blocks = [@ EXCEPT ![r] = tab2]]
    BY ByZenon, <1>2 DEF ExtendTable, g, new, tab, SameTables
  <1> HIDE DEF tab2, t, ret, q
  <1>10. /\ t \in KV /\ t.ref_cnt = g.ref_cnt /\ t.block_hash = g.block_hash /\ t.free = g.free
         /\ t.cached = g.cached /\ t.published = g.published /\ t.window = k.window
         /\ t.num_cached_block = k.num_cached_block
         /\ t.req_to_blocks = [k.req_to_blocks EXCEPT ![r] = tab2]
    <2>1. [g.req_to_blocks EXCEPT ![r] = tab2] \in [Requests -> Seq(Blocks)]
      BY ByZenon, <1>7, <1>8 DEF KV
    <2>2. QED BY ByZenon, <1>2, <1>8, <1>9, <2>1 DEF KV, SameTables
  <1>11. t.req_to_blocks[r] = tab2 /\ OnlyTable(k, t, r) /\ k.req_to_blocks \in [Requests -> Seq(Blocks)]
    BY ByZenon, <1>10 DEF KV, OnlyTable
  <1> USE <1>11
  <1>12. QueueOK(t)
    BY <1>2, <1>10, PoolAssumption DEF QueueOK, PoolAssumption
  <1>13. MapOK(t) /\ EventsOK(t)
    BY <1>2, <1>10 DEF Mapped, MapOK, EventsOK
  <1>14. TablesOK(t)
    <2>1. ASSUME NEW s \in Requests
          PROVE  /\ Once(t.req_to_blocks[s], Real) /\ t.num_cached_block[s] >= NotTracked
                 /\ t.num_cached_block[s] <= Len(t.req_to_blocks[s])
      <3>1. CASE s # r
        BY ByZenon, <1>10, <3>1 DEF TablesOK, OnlyTable
      <3>2. CASE s = r
        <4>1. k.num_cached_block[r] \in Int /\ k.num_cached_block[r] >= NotTracked
              /\ k.num_cached_block[r] <= Len(tab)
          BY ByZenon DEF KV, TablesOK, tab
        <4>2. QED BY <1>7, <1>10, <3>2, <4>1
      <3>3. QED BY ByZenon, <3>1, <3>2
    <2>2. QED BY ByZenon, <2>1 DEF TablesOK
  <1>15. PrefixOK(t)
    <2>1. SUFFICES ASSUME NEW s \in Requests, NEW i \in DOMAIN t.req_to_blocks[s],
                          t.req_to_blocks[s][i] # NullBlock
                   PROVE  t.block_hash[t.req_to_blocks[s][i]] \in OwnHash(s, i)
      BY ByZenon DEF PrefixOK
    <2> DEFINE b == t.req_to_blocks[s][i]
    <2>2. b \in Blocks
      BY <1>10, <2>1, SeqFun DEF KV, SeqIs
    <2>3. CASE b \in ret
      BY ByZenon, <1>2, <1>10, <2>2, <2>3 DEF OwnHash
    <2>4. CASE b \notin ret
      <3>1. i \in DOMAIN k.req_to_blocks[s] /\ k.req_to_blocks[s][i] = b
        <4>1. CASE s # r
          BY ByZenon, <2>1, <4>1 DEF OnlyTable
        <4>2. CASE s = r
          <5>1. i \in 1..(Len(tab) + n) /\ b = tab2[i]
            BY <1>7, <2>1, <4>2, SeqFun DEF SeqIs
          <5> USE <5>1
          <5>2. CASE i \in 1..Len(tab)
            BY ByZenon, <1>7, <4>2, <5>2 DEF tab
          <5>3. CASE i \notin 1..Len(tab)
            <6>1. i - Len(tab) \in 1..n /\ Len(tab) + (i - Len(tab)) = i
              BY <5>3
            <6>2. b = new[i - Len(tab)]
              BY ByZenon, <1>7, <6>1
            <6>3. b \in ret
              BY ByZenon, <1>5b, <6>1, <6>2
            <6>4. QED BY ByZenon, <2>4, <6>3
          <5>4. QED BY ByZenon, <5>2, <5>3
        <4>3. QED BY ByZenon, <4>1, <4>2
      <3>2. k.block_hash[b] \in OwnHash(s, i)
        BY ByZenon, <2>1, <3>1 DEF PrefixOK
      <3>3. QED BY <1>2, <1>10, <2>2, <2>4, <3>2
    <2>5. QED BY ByZenon, <2>3, <2>4
  <1>16. Owned(t) = OP!Take(q, r, {}, ret)
    <2>0. /\ \A b \in Real : q.ref[b] = k.ref_cnt[b] /\ q.hash[b] = k.block_hash[b] /\ b \in Blocks
          /\ q.free = Range(k.free)
          /\ q.holds = [s \in Requests |-> Range(k.req_to_blocks[s]) \ {NullBlock}]
          /\ q.fresh = [s \in Requests |-> {b \in Real : \E i \in DOMAIN k.req_to_blocks[s] :
                         k.req_to_blocks[s][i] = b /\ i > k.num_cached_block[s]}]
      BY ByZenon DEF Owned, q, Real
    <2>1. [b \in Real |-> t.ref_cnt[b]]
            = [b \in Real |-> IF b \in {} \cup ret THEN q.ref[b] + 1 ELSE q.ref[b]]
      BY ByZenon, <1>2, <1>10, <2>0
    <2>2. Range(t.free) = q.free \ ({} \cup ret)
      BY ByZenon, <1>2, <1>10, <2>0
    <2>3. [b \in Real |-> t.block_hash[b]]
            = [b \in Real |-> IF b \in ret THEN NoHash ELSE q.hash[b]]
      BY <1>2, <1>10, <2>0
    <2>4. [s \in Requests |-> Range(t.req_to_blocks[s]) \ {NullBlock}]
            = [q.holds EXCEPT ![r] = @ \cup {} \cup ret]
      <3>1. \A s \in Requests : Range(t.req_to_blocks[s]) \ {NullBlock} =
               IF s = r THEN q.holds[r] \cup {} \cup ret ELSE q.holds[s]
        BY <1>2, <1>7, <2>0 DEF OnlyTable, tab
      <3>2. QED BY ByZenon, <2>0, <3>1
    <2> DEFINE Fresh(s) == {b \in Real : \E i \in DOMAIN t.req_to_blocks[s] :
                   t.req_to_blocks[s][i] = b /\ i > t.num_cached_block[s]}
    <2>5. [s \in Requests |-> Fresh(s)] = [q.fresh EXCEPT ![r] = @ \cup ret]
      <3>1. \A s \in Requests \ {r} : Fresh(s) = q.fresh[s]
        BY <1>10, <2>0 DEF OnlyTable
      <3>2. Fresh(r) = q.fresh[r] \cup ret
        <4>1. ASSUME NEW b \in Fresh(r) PROVE b \in q.fresh[r] \cup ret
          <5>1. PICK i \in 1..(Len(tab) + n) : tab2[i] = b /\ i > k.num_cached_block[r]
            BY <1>7, <1>10, <4>1, SeqFun DEF SeqIs
          <5> USE <5>1
          <5>2. CASE i \in 1..Len(tab)
            BY ByZenon, <1>7, <2>0, <4>1, <5>2 DEF tab
          <5>3. CASE i \notin 1..Len(tab)
            <6>1. i - Len(tab) \in 1..n /\ Len(tab) + (i - Len(tab)) = i
              BY <5>3
            <6>2. b = new[i - Len(tab)]
              BY ByZenon, <1>7, <6>1
            <6>3. b \in ret
              BY ByZenon, <1>5b, <6>1, <6>2
            <6>4. QED BY ByZenon, <6>3
          <5>4. QED BY ByZenon, <5>2, <5>3
        <4>2. ASSUME NEW b \in q.fresh[r] PROVE b \in Fresh(r)
          <5>1. PICK i \in 1..Len(tab) : tab[i] = b /\ i > k.num_cached_block[r] /\ b \in Real
            BY <2>0, <4>2 DEF tab
          <5>2. i \in DOMAIN tab2 /\ tab2[i] = b
            BY <1>7, <5>1, SeqFun DEF SeqIs
          <5>3. QED BY ByZenon, <1>10, <5>1, <5>2
        <4>3. ASSUME NEW b \in ret PROVE b \in Fresh(r)
          <5>1. PICK j \in 1..n : new[j] = b
            BY ByZenon, <1>2, <4>3, SeqFun DEF ret, SeqIs
          <5>2. Len(tab) + j \in 1..(Len(tab) + n) /\ Len(tab) + j > Len(tab)
            OBVIOUS
          <5>3. k.num_cached_block[r] \in Int /\ k.num_cached_block[r] <= Len(tab)
            BY ByZenon DEF KV, TablesOK, tab
          <5>4a. Len(tab) + j > k.num_cached_block[r]
            <6> HIDE DEF tab
            <6>1. QED BY <5>2, <5>3
          <5>4b. Len(tab) + j \in DOMAIN tab2
            BY <1>7, <5>2, SeqFun DEF SeqIs
          <5>4c. tab2[Len(tab) + j] = b
            BY <1>7, <5>1, SeqFun DEF SeqIs
          <5>4. Len(tab) + j > k.num_cached_block[r] /\ Len(tab) + j \in DOMAIN tab2 /\ tab2[Len(tab) + j] = b
            BY ByZenon, <5>4a, <5>4b, <5>4c
          <5>5. QED BY ByZenon, <1>4, <1>10, <4>3, <5>4
        <4>4. QED BY ByZenon, <4>1, <4>2, <4>3
      <3> HIDE DEF Fresh
      <3>3. QED BY ByZenon, <2>0, <3>1, <3>2
    <2>6. QED BY ByZenon, <2>1, <2>2, <2>3, <2>4, <2>5 DEF Owned, OP!Take
  <1>17. ret \subseteq q.free
    BY ByZenon, <1>2 DEF q, Owned
  <1>18. OP!PoolInv(Owned(t))
    <2>1. {} \in SUBSET OP!Offered(q, r) /\ ret \in SUBSET (q.free \ {})
      BY ByZenon, <1>17
    <2>2. OP!PoolInv(OP!Take(q, r, {}, ret))
      BY ByZenon, <2>1, OwnershipFits, OP!TakePreserves
    <2>3. QED BY ByZenon, <1>16, <2>2
  <1>19. Sound(t)
    BY ByZenon, <1>10, <1>12, <1>13, <1>14, <1>15, <1>18 DEF Sound
  <1>20. Len(t.req_to_blocks[r]) = Len(tab) + n /\ Len(t.free) = Len(k.free) - n
    BY ByZenon, <1>2, <1>7, <1>10
  <1>20a. NullPlaces(tab2) \subseteq NullPlaces(tab)
    <2>1. SUFFICES ASSUME NEW i \in 1..(Len(tab) + n), tab2[i] = NullBlock
                   PROVE  i \in 1..Len(tab) /\ tab[i] = NullBlock
      BY <1>7, SeqFun DEF NullPlaces, SeqIs
    <2>2. CASE i \in 1..Len(tab)
      BY ByZenon, <1>7, <2>1, <2>2
    <2>3. CASE i \notin 1..Len(tab)
      <3>1. i - Len(tab) \in 1..n /\ Len(tab) + (i - Len(tab)) = i
        BY <2>3
      <3>2. NullBlock = new[i - Len(tab)]
        BY ByZenon, <1>7, <2>1, <3>1
      <3>3. NullBlock \in ret
        BY <1>2, <3>1, <3>2, SeqFun DEF ret, SeqIs
      <3>4. QED BY ByZenon, <1>2, <3>3
    <2>4. QED BY ByZenon, <2>2, <2>3
  <1>21. QED BY ByZenon, <1>20a, <1>10, <1>16, <1>17, <1>19, <1>20 DEF t, tab, ret, new, q

-----------------------------------------------------------------------------
(* Hits: touch, and the table that starts with them.                        *)

(* What get_computed_blocks may return: at every place the null block or a  *)
(* block that is cached under the request's hash of that place.             *)
HitsOK(k, r, hits) ==
    /\ hits \in Seq(Blocks)
    /\ \A i \in DOMAIN hits : hits[i] # NullBlock =>
          /\ i \in DOMAIN BlockHashes[r]
          /\ k.block_hash[hits[i]] = BlockHashes[r][i]

(* The conclusion of CutFacts.                                              *)
CutIs(T, s, c) ==
    /\ SubSeq(s, c + 1, Len(s)) \in Seq(T)
    /\ Len(SubSeq(s, c + 1, Len(s))) = IF c <= Len(s) THEN Len(s) - c ELSE 0
    /\ \A j \in 1..Len(SubSeq(s, c + 1, Len(s))) :
          c + j \in 1..Len(s) /\ SubSeq(s, c + 1, Len(s))[j] = s[c + j]

(* The part of a list after its first c places, which is empty when it is   *)
(* shorter.                                                                 *)
LEMMA CutFacts ==
    ASSUME NEW T, NEW s \in Seq(T), NEW c \in Nat
    PROVE  CutIs(T, s, c)
  <1> USE DEF CutIs
  <1> DEFINE u == SubSeq(s, c + 1, Len(s))
  <1>0. Len(s) \in Nat
    OBVIOUS
  <1> USE <1>0
  <1>1. CASE c <= Len(s)
    <2> USE <1>1
    <2>1. /\ u \in Seq(T) /\ Len(u) = Len(s) - c
          /\ \A i \in 1..(Len(s) - c) : u[i] = s[c + i]
      BY SubSeqFacts DEF SubSeqIs
    <2>2. \A j \in 1..(Len(s) - c) : c + j \in 1..Len(s)
      OBVIOUS
    <2> HIDE DEF u
    <2>3. u \in Seq(T) /\ Len(u) = (IF c <= Len(s) THEN Len(s) - c ELSE 0)
          /\ \A j \in 1..Len(u) : c + j \in 1..Len(s) /\ u[j] = s[c + j]
      BY ByZenon, <2>1, <2>2
    <2>4. QED BY ByZenon, <2>3 DEF u
  <1>2. CASE ~(c <= Len(s))
    <2>1. u = <<>>
      BY <1>2
    <2>2. QED BY <1>2, <2>1
  <1>3. QED BY ByZenon, <1>1, <1>2

(* What touch does to the fields: the real blocks of bs are counted once    *)
(* more and are not in the queue.                                           *)
TouchEffect(k, bs, t) ==
    /\ t \in KV /\ SameTables(k, t)
    /\ t.block_hash = k.block_hash /\ t.cached = k.cached
    /\ t.published = k.published
    /\ \A b \in Blocks : t.ref_cnt[b] =
          IF b \in Range(bs) \ {NullBlock} THEN k.ref_cnt[b] + 1 ELSE k.ref_cnt[b]
    /\ IsInjective(t.free)
    /\ Range(t.free) = Range(k.free) \ Range(bs)
    /\ Len(t.free) = Len(k.free) - Cardinality(
          {i \in DOMAIN bs : k.ref_cnt[bs[i]] = 0 /\ bs[i] # NullBlock})

(* touch on a list without repetitions: the remove() of the free queue only *)
(* sees free blocks.                                                        *)
LEMMA TouchFacts ==
    ASSUME Counting, NEW k, Sound(k), NEW bs \in Seq(Blocks), Once(bs, Real)
    PROVE  TouchEffect(k, bs, touch(k, bs))
  <1> DEFINE revived == {b \in Range(bs) : k.ref_cnt[b] = 0 /\ b # NullBlock}
             I == {i \in DOMAIN bs : k.ref_cnt[bs[i]] = 0 /\ bs[i] # NullBlock}
             rc == [b \in Blocks |-> k.ref_cnt[b] + Uses(bs, b)]
             f == Keep(k.free, Blocks \ revived)
             q == [k EXCEPT !.ref_cnt = rc, !.free = f]
             t == touch(k, bs)
  <1>1. k \in KV /\ QueueOK(k)
    BY ByZenon DEF Sound
  <1>2. Range(bs) \subseteq Blocks
    BY ByZenon, SeqFun DEF SeqIs
  <1>3. revived \subseteq Range(k.free) /\ \A b \in Range(bs) \ {NullBlock} : b \in revived <=> b \in Range(k.free)
    BY ByZenon, <1>2, Reading DEF Real, OwnershipRead
  <1>4. t = q
    <2>1. t = Raise(q, ~(revived \subseteq Range(k.free)), "remove() called on an invalid block")
      BY ByZenon DEF touch
    <2> HIDE DEF t, q, revived
    <2>2. QED BY ByZenon, <1>3, <2>1, RaiseFalse
  <1>5. k.free \in Seq(Blocks) /\ IsInjective(k.free) /\ NullBlock \notin Range(k.free)
        /\ k.ref_cnt \in [Blocks -> Int]
    BY ByZenon, <1>1 DEF KV, QueueOK
  <1> USE <1>5
  <1>6. f \in Seq(Blocks) /\ Range(f) = Range(k.free) \cap (Blocks \ revived) /\ IsInjective(f)
    <2> HIDE DEF revived
    <2>1. QED BY ByZenon, KeepFacts DEF KeepIs
  <1> USE <1>6
  <1>7. Range(f) = Range(k.free) \ Range(bs) /\ Range(f) = Range(k.free) \ revived
    <2>1. Range(k.free) \subseteq Blocks
      BY ByZenon, SeqFun DEF SeqIs
    <2>2. revived \subseteq Range(bs)
      BY ByZenon
    <2> HIDE DEF f, revived
    <2>3. QED BY ByZenon, <1>3, <2>1, <2>2
  <1>8. \A b \in Blocks : rc[b] = IF b \in Range(bs) \ {NullBlock} THEN k.ref_cnt[b] + 1 ELSE k.ref_cnt[b]
    <2>1. SUFFICES ASSUME NEW b \in Blocks
                   PROVE  rc[b] = IF b \in Range(bs) \ {NullBlock} THEN k.ref_cnt[b] + 1 ELSE k.ref_cnt[b]
      BY ByZenon
    <2>2. Uses(bs, b) = IF b \in Range(bs) \ {NullBlock} THEN 1 ELSE 0
      BY ByZenon, UsesFacts DEF Real
    <2>3. rc[b] = k.ref_cnt[b] + Uses(bs, b) /\ k.ref_cnt[b] \in Int
      BY ByZenon
    <2> HIDE DEF rc
    <2>4. QED BY <2>2, <2>3
  <1>9. rc \in [Blocks -> Int]
    <2>1. \A b \in Blocks : k.ref_cnt[b] \in Int
      BY ByZenon
    <2>2. \A b \in Blocks : rc[b] \in Int
      <3> HIDE DEF rc
      <3>1. QED BY <1>8, <2>1
    <2>3. QED BY ByZenon, <2>2
  <1>10. Len(f) = Len(k.free) - Cardinality(I)
    <2>1. IsFiniteSet(Range(k.free)) /\ Cardinality(Range(k.free)) = Len(k.free) /\ Cardinality(Range(f)) = Len(f)
      <3> HIDE DEF f
      <3>1. QED BY ByZenon, SeqCard
    <2> USE <2>1
    <2>2. Range(k.free) \cap revived = revived /\ IsFiniteSet(revived)
      <3>1. Range(k.free) \cap revived = revived
        BY ByZenon, <1>3
      <3>2. revived \in SUBSET Range(k.free)
        BY ByZenon, <1>3
      <3> HIDE DEF revived
      <3>3. IsFiniteSet(revived)
        BY ByZenon, <3>2, CountSubset
      <3>4. QED BY ByZenon, <3>1, <3>3
    <2>3. Cardinality(Range(f)) = Cardinality(Range(k.free)) - Cardinality(revived)
      <3> HIDE DEF f, revived
      <3>1. Cardinality(Range(k.free) \ revived)
              = Cardinality(Range(k.free)) - Cardinality(Range(k.free) \cap revived)
        BY ByZenon, CountDifference
      <3>2. QED BY ByZenon, <1>7, <2>2, <3>1
    <2> DEFINE g == [i \in I |-> bs[i]]
    <2>4. g \in Bijection(I, revived)
      <3>1. g \in [I -> revived] /\ DOMAIN g = I
        BY ByZenon DEF Range
      <3>2. \A i, j \in I : g[i] = g[j] => i = j
        <4>1. \A i \in I : bs[i] \in Real
          BY SeqFun DEF Real, SeqIs
        <4>2. QED BY ByZenon, <4>1 DEF Once
      <3>3. \A b \in revived : \E i \in I : g[i] = b
        BY ByZenon DEF Range
      <3> HIDE DEF g, I, revived
      <3>4. QED BY ByZenon, <3>1, <3>2, <3>3 DEF Bijection, Injection, Surjection, IsInjective
    <2>5. IsFiniteSet(I)
      <3>1. DOMAIN bs = 1..Len(bs) /\ Len(bs) \in Nat /\ I \in SUBSET (1..Len(bs))
        BY ByZenon, SeqFun DEF SeqIs
      <3> HIDE DEF I
      <3>2. IsFiniteSet(1..Len(bs))
        BY ByZenon, <3>1, CountInterval
      <3>3. QED BY ByZenon, <3>1, <3>2, CountSubset
    <2>6. Cardinality(I) = Cardinality(revived)
      <3> HIDE DEF I, revived, g
      <3>1. ExistsBijection(I, revived)
        BY ByZenon, <2>4 DEF ExistsBijection
      <3>2. QED BY ByZenon, <2>5, <3>1, CountBijection
    <2> HIDE DEF I, revived, f
    <2>7. QED BY ByZenon, <2>3, <2>6
  <1> HIDE DEF rc, f, t
  <1>11. /\ t \in KV /\ SameTables(k, t) /\ t.block_hash = k.block_hash /\ t.cached = k.cached
         /\ t.published = k.published /\ t.ref_cnt = rc /\ t.free = f
    BY ByZenon, <1>1, <1>4, <1>9 DEF KV, SameTables
  <1>12. QED BY ByZenon, <1>7, <1>8, <1>10, <1>11 DEF t, TouchEffect

(* The hits after the c skipped places.                                     *)
Tail_(hits, c) == SubSeq(hits, c + 1, Len(hits))
(* allocate_new_computed_blocks for hits, before any external block.        *)
Attached(k, r, hits, c) ==
    [touch(k, Tail_(hits, c)) EXCEPT !.req_to_blocks[r]    = Nulls(c) \o Tail_(hits, c),
                                     !.num_cached_block[r] = Len(Nulls(c) \o Tail_(hits, c))]

(* What attaching hits does: BlockOwnership's Take of blocks that are       *)
(* offered to r, a table as long as the hits, all of it counted as cached.  *)
AttachEffect(k, r, hits, c, t) ==
    /\ Sound(t) /\ t.window = k.window /\ OnlyTable(k, t, r)
    /\ Range(Tail_(hits, c)) \ {NullBlock} \subseteq OP!Offered(Owned(k), r)
    /\ Owned(t) = OP!Take(Owned(k), r, Range(Tail_(hits, c)) \ {NullBlock}, {})
    /\ Len(t.req_to_blocks[r]) = MaxOf(c, Len(hits))
    /\ NullPlaces(t.req_to_blocks[r]) \subseteq (1..c) \cup NullPlaces(hits)
    /\ t.num_cached_block = [k.num_cached_block EXCEPT ![r] = MaxOf(c, Len(hits))]
    /\ Len(t.free) = Len(k.free) - Cardinality(
          {i \in DOMAIN Tail_(hits, c) : /\ k.ref_cnt[Tail_(hits, c)[i]] = 0
                                         /\ Tail_(hits, c)[i] # NullBlock})

(* A request without a table attaches the hits that the lookup found.       *)
LEMMA AttachSound ==
    ASSUME Counting, NEW k, Sound(k), NEW r \in Requests, k.req_to_blocks[r] = <<>>,
           NEW hits, HitsOK(k, r, hits), NEW c \in Nat
    PROVE  AttachEffect(k, r, hits, c, Attached(k, r, hits, c))
  <1> DEFINE kept == Tail_(hits, c)
             nulls == Nulls(c)
             tab == nulls \o kept
             g == touch(k, kept)
             t == Attached(k, r, hits, c)
             q == Owned(k)
             H == Range(kept) \ {NullBlock}
  <1>1. k \in KV /\ QueueOK(k) /\ TablesOK(k) /\ MapOK(k) /\ EventsOK(k) /\ PrefixOK(k) /\ OP!PoolInv(q)
    BY ByZenon DEF Sound
  <1> USE <1>1
  <1>2. hits \in Seq(Blocks) /\ Len(hits) \in Nat /\ DOMAIN hits = 1..Len(hits)
    BY ByZenon, SeqFun DEF HitsOK, SeqIs
  <1> USE <1>2
  <1>3. /\ kept \in Seq(Blocks) /\ Len(kept) = IF c <= Len(hits) THEN Len(hits) - c ELSE 0
        /\ \A j \in 1..Len(kept) : c + j \in 1..Len(hits) /\ kept[j] = hits[c + j]
    BY ByZenon, CutFacts DEF Tail_, CutIs
  <1> HIDE DEF kept
  <1>4. Len(kept) \in Nat /\ DOMAIN kept = 1..Len(kept) /\ \A j \in 1..Len(kept) : kept[j] \in Blocks
    BY ByZenon, <1>3, SeqFun DEF SeqIs
  <1>5. \A j \in 1..Len(kept) : kept[j] # NullBlock =>
           c + j \in DOMAIN BlockHashes[r] /\ k.block_hash[kept[j]] = BlockHashes[r][c + j]
    BY ByZenon, ByZenon, <1>3 DEF HitsOK
  <1>6. Once(kept, Real)
    <2>1. SUFFICES ASSUME NEW i \in 1..Len(kept), NEW j \in 1..Len(kept), kept[i] = kept[j], kept[i] \in Real
                   PROVE  i = j
      BY ByZenon, <1>4 DEF Once
    <2>2. kept[i] # NullBlock /\ kept[j] # NullBlock
      BY ByZenon, <2>1 DEF Real
    <2>2a. IsInjective(BlockHashes[r])
      BY ByZenon, HashTypes DEF HashesTyped
    <2>2b. BlockHashes[r][c + i] = BlockHashes[r][c + j]
           /\ c + i \in DOMAIN BlockHashes[r] /\ c + j \in DOMAIN BlockHashes[r]
      BY ByZenon, <1>5, <2>1, <2>2
    <2>3. c + i = c + j
      BY ByZenon, <2>2a, <2>2b DEF IsInjective
    <2>4. QED BY <2>3
  <1>7. /\ g \in KV /\ SameTables(k, g) /\ g.block_hash = k.block_hash /\ g.cached = k.cached
        /\ g.published = k.published
        /\ \A b \in Blocks : g.ref_cnt[b] = IF b \in H THEN k.ref_cnt[b] + 1 ELSE k.ref_cnt[b]
        /\ IsInjective(g.free) /\ Range(g.free) = Range(k.free) \ Range(kept)
        /\ Len(g.free) = Len(k.free) - Cardinality(
                 {i \in DOMAIN kept : k.ref_cnt[kept[i]] = 0 /\ kept[i] # NullBlock})
    <2>1. TouchEffect(k, kept, g)
      BY ByZenon, <1>3, <1>6, TouchFacts
    <2>2. QED BY ByZenon, <2>1 DEF TouchEffect
  <1>8. nulls \in Seq(Blocks) /\ Len(nulls) = c /\ \A i \in 1..c : nulls[i] = NullBlock
    BY PoolAssumption, FunSeq DEF PoolAssumption, Nulls
  <1> HIDE DEF nulls, g
  <1>9. /\ tab \in Seq(Blocks) /\ Len(tab) = c + Len(kept) /\ Range(tab) \ {NullBlock} = H
        /\ \A i \in 1..c : tab[i] = NullBlock
        /\ \A i \in 1..Len(kept) : tab[c + i] = kept[i]
        /\ Once(tab, Real)
    <2>1. /\ tab \in Seq(Blocks) /\ Len(tab) = Len(nulls) + Len(kept)
          /\ Range(tab) = Range(nulls) \cup Range(kept)
          /\ \A i \in 1..Len(nulls) : tab[i] = nulls[i]
          /\ \A i \in 1..Len(kept) : tab[Len(nulls) + i] = kept[i]
          /\ \A i \in 1..(Len(nulls) + Len(kept)) :
                 tab[i] = IF i <= Len(nulls) THEN nulls[i] ELSE kept[i - Len(nulls)]
          /\ Once(nulls, Real) /\ Once(kept, Real) /\ (\A x \in Real : ~(x \in Range(nulls) /\ x \in Range(kept)))
                => Once(tab, Real)
      BY ByZenon, <1>3, <1>8, ConcatFacts DEF ConcatIs
    <2>2. \A x \in Range(nulls) : x = NullBlock
      BY ByZenon, <1>8, SeqFun DEF SeqIs
    <2>3. DOMAIN nulls = 1..c
      BY ByZenon, <1>8, SeqFun DEF SeqIs
    <2>4. Once(nulls, Real)
      BY ByZenon, <1>8, <2>3 DEF Once, Real
    <2>5. \A x \in Real : ~(x \in Range(nulls) /\ x \in Range(kept))
      BY ByZenon, <2>2 DEF Real
    <2> HIDE DEF tab
    <2>6. QED BY ByZenon, <1>6, <1>8, <2>1, <2>2, <2>4, <2>5
  <1>10. t = [g EXCEPT !.req_to_blocks = [@ EXCEPT ![r] = tab],
                       !.num_cached_block = [@ EXCEPT ![r] = Len(tab)]]
    BY ByZenon, <1>7 DEF Attached, g, kept, nulls, KV
  <1>11. Len(tab) = MaxOf(c, Len(hits)) /\ Len(tab) \in Nat /\ DOMAIN tab = 1..Len(tab)
    <2> HIDE DEF tab, t, q, H
    <2>0. /\ tab \in Seq(Blocks) /\ Len(tab) = c + Len(kept) /\ c \in Nat /\ Len(hits) \in Nat
          /\ Len(kept) = IF c <= Len(hits) THEN Len(hits) - c ELSE 0
      BY ByZenon, <1>3, <1>9
    <2>1. \A x, y \in Nat : x + (IF x <= y THEN y - x ELSE 0) = MaxOf(x, y)
      BY DEF MaxOf
    <2>2. Len(tab) \in Nat /\ DOMAIN tab = 1..Len(tab)
      BY ByZenon, <2>0, SeqFun DEF SeqIs
    <2>3. QED BY ByZenon, <2>0, <2>1, <2>2
  <1> USE <1>11
  <1> HIDE DEF tab, t, H, q
  <1>12. /\ t \in KV /\ t.ref_cnt = g.ref_cnt /\ t.block_hash = k.block_hash /\ t.free = g.free
         /\ t.cached = k.cached /\ t.published = k.published /\ t.window = k.window
         /\ t.num_cached_block = [k.num_cached_block EXCEPT ![r] = Len(tab)]
         /\ t.req_to_blocks = [k.req_to_blocks EXCEPT ![r] = tab]
    <2>1. [g.req_to_blocks EXCEPT ![r] = tab] \in [Requests -> Seq(Blocks)]
          /\ [g.num_cached_block EXCEPT ![r] = Len(tab)] \in [Requests -> Int]
      BY <1>7, <1>9 DEF KV
    <2>2. QED BY ByZenon, <1>7, <1>10, <2>1 DEF KV, SameTables
  <1>13. /\ t.req_to_blocks[r] = tab /\ t.num_cached_block[r] = Len(tab)
         /\ OnlyTable(k, t, r) /\ \A s \in Requests \ {r} : t.num_cached_block[s] = k.num_cached_block[s]
    BY ByZenon, <1>12 DEF KV, OnlyTable
  <1>14. QueueOK(t)
    BY ByZenon, <1>7, <1>12, PoolAssumption DEF QueueOK, PoolAssumption, H
  <1>15. MapOK(t) /\ EventsOK(t)
    BY <1>12 DEF MapOK, EventsOK
  <1>16. TablesOK(t)
    <2>1. ASSUME NEW s \in Requests
          PROVE  /\ Once(t.req_to_blocks[s], Real) /\ t.num_cached_block[s] >= NotTracked
                 /\ t.num_cached_block[s] <= Len(t.req_to_blocks[s])
      <3>1. CASE s # r
        BY ByZenon, <1>13, <3>1 DEF TablesOK, OnlyTable
      <3>2. CASE s = r
        BY <1>9, <1>13, <3>2 DEF NotTracked
      <3>3. QED BY ByZenon, <3>1, <3>2
    <2>2. QED BY ByZenon, <2>1 DEF TablesOK
  <1>17. \A i \in 1..Len(tab) : tab[i] # NullBlock =>
            /\ i \in DOMAIN BlockHashes[r] /\ k.block_hash[tab[i]] = BlockHashes[r][i]
            /\ tab[i] \in H
    <2>1. SUFFICES ASSUME NEW i \in 1..Len(tab), tab[i] # NullBlock
                   PROVE  /\ i \in DOMAIN BlockHashes[r] /\ k.block_hash[tab[i]] = BlockHashes[r][i]
                          /\ tab[i] \in H
      BY ByZenon
    <2>2. ~(i <= c)
      BY <1>9, <2>1
    <2>3. i - c \in 1..Len(kept) /\ c + (i - c) = i
      BY <1>4, <1>9, <2>2
    <2> USE <2>3
    <2>4. tab[i] = kept[i - c]
      BY ByZenon, <1>9
    <2>5. tab[i] \in Range(kept)
      BY ByZenon, <1>4, <2>4 DEF Range
    <2>6. QED BY ByZenon, <1>5, <2>1, <2>4, <2>5 DEF H
  <1>18. PrefixOK(t)
    <2>1. SUFFICES ASSUME NEW s \in Requests, NEW i \in DOMAIN t.req_to_blocks[s],
                          t.req_to_blocks[s][i] # NullBlock
                   PROVE  t.block_hash[t.req_to_blocks[s][i]] \in OwnHash(s, i)
      BY ByZenon DEF PrefixOK
    <2>2. CASE s # r
      BY <1>12, <1>13, <2>1, <2>2 DEF PrefixOK, OnlyTable
    <2>3. CASE s = r
      BY <1>12, <1>13, <1>17, <2>1, <2>3 DEF OwnHash
    <2>4. QED BY ByZenon, <2>2, <2>3
  <1>19. /\ \A b \in Real : q.ref[b] = k.ref_cnt[b] /\ q.hash[b] = k.block_hash[b] /\ b \in Blocks
         /\ q.free = Range(k.free)
         /\ q.holds = [s \in Requests |-> Range(k.req_to_blocks[s]) \ {NullBlock}]
         /\ q.fresh = [s \in Requests |-> {b \in Real : \E i \in DOMAIN k.req_to_blocks[s] :
                         k.req_to_blocks[s][i] = b /\ i > k.num_cached_block[s]}]
    BY ByZenon DEF Owned, q, Real
  <1>20. q.holds[r] = {} /\ q.fresh[r] = {}
    <2>1. DOMAIN <<>> = {}
      OBVIOUS
    <2>2. Range(<<>>) = {}
      BY ByZenon, <2>1 DEF Range
    <2>3. QED BY ByZenon, <1>19, <2>1, <2>2
  <1> USE <1>20
  <1>21. H \subseteq OP!Offered(q, r)
    <2>1. SUFFICES ASSUME NEW b \in H PROVE b \in OP!Offered(q, r)
      BY ByZenon
    <2>0. b \in Range(kept) /\ b # NullBlock /\ kept \in Seq(Blocks)
      BY ByZenon, <1>3 DEF H
    <2>2. PICK j \in 1..Len(kept) : kept[j] = b /\ b # NullBlock
      BY <2>0, SeqFun DEF SeqIs
    <2>3. b \in Real /\ k.block_hash[b] \in Range(BlockHashes[r])
      BY ByZenon, <1>4, <1>5, <2>2 DEF Real, Range
    <2>4. QED BY ByZenon, <1>19, <2>3 DEF OP!Offered, Prefixes
  <1>22. Owned(t) = OP!Take(q, r, H, {})
    <2>1. [b \in Real |-> t.ref_cnt[b]]
            = [b \in Real |-> IF b \in H \cup {} THEN q.ref[b] + 1 ELSE q.ref[b]]
      BY <1>7, <1>12, <1>19
    <2>2. Range(t.free) = q.free \ (H \cup {})
      BY <1>7, <1>12, <1>19 DEF H, QueueOK
    <2>3. [b \in Real |-> t.block_hash[b]]
            = [b \in Real |-> IF b \in {} THEN NoHash ELSE q.hash[b]]
      BY <1>12, <1>19
    <2>4. [s \in Requests |-> Range(t.req_to_blocks[s]) \ {NullBlock}]
            = [q.holds EXCEPT ![r] = @ \cup H \cup {}]
      <3>1. \A s \in Requests : Range(t.req_to_blocks[s]) \ {NullBlock} =
               IF s = r THEN q.holds[r] \cup H \cup {} ELSE q.holds[s]
        BY ByZenon, <1>9, <1>13, <1>19 DEF OnlyTable
      <3>2. QED BY ByZenon, <1>19, <3>1
    <2> DEFINE Fresh(s) == {b \in Real : \E i \in DOMAIN t.req_to_blocks[s] :
                   t.req_to_blocks[s][i] = b /\ i > t.num_cached_block[s]}
    <2>5. [s \in Requests |-> Fresh(s)] = [q.fresh EXCEPT ![r] = @ \cup {}]
      <3>1. \A s \in Requests \ {r} : Fresh(s) = q.fresh[s]
        BY <1>13, <1>19 DEF OnlyTable
      <3>2. Fresh(r) = {}
        BY <1>13
      <3> HIDE DEF Fresh
      <3>3. QED BY ByZenon, <1>19, <3>1, <3>2
    <2>6. QED BY ByZenon, <2>1, <2>2, <2>3, <2>4, <2>5 DEF Owned, OP!Take
  <1>23. OP!PoolInv(Owned(t))
    <2>1. H \in SUBSET OP!Offered(q, r) /\ {} \in SUBSET (q.free \ H)
      BY ByZenon, <1>21
    <2>2. OP!PoolInv(OP!Take(q, r, H, {}))
      BY ByZenon, <2>1, OwnershipFits, OP!TakePreserves
    <2>3. QED BY ByZenon, <1>22, <2>2
  <1>24. Sound(t)
    BY ByZenon, <1>12, <1>14, <1>15, <1>16, <1>18, <1>23 DEF Sound
  <1>24a. NullPlaces(tab) \subseteq (1..c) \cup NullPlaces(hits)
    <2>1. SUFFICES ASSUME NEW i \in 1..Len(tab), tab[i] = NullBlock, ~(i <= c)
                   PROVE  i \in 1..Len(hits) /\ hits[i] = NullBlock
      BY DEF NullPlaces
    <2>2. i - c \in 1..Len(kept) /\ c + (i - c) = i
      BY <1>4, <1>9, <2>1
    <2>3. tab[i] = kept[i - c] /\ kept[i - c] = hits[i] /\ i \in 1..Len(hits)
      BY ByZenon, <1>3, <1>9, <2>2
    <2>4. QED BY ByZenon, <2>1, <2>3
  <1>25. AttachEffect(k, r, hits, c, t)
    BY ByZenon, <1>7, <1>12, <1>13, <1>21, <1>22, <1>24, <1>24a DEF AttachEffect, kept, q, H
  <1>26. QED BY ByZenon, <1>25 DEF t

-----------------------------------------------------------------------------
(* free_blocks, free_request and remove_skipped_blocks.                     *)

(* What free_blocks does to the fields: the blocks of S are counted once    *)
(* less, and those that reach 0 join the queue.                             *)
FreeEffect(d, S, t) ==
    /\ t \in KV /\ t.window = d.window
    /\ t.block_hash = d.block_hash /\ t.cached = d.cached /\ t.published = d.published
    /\ \A b \in Blocks : t.ref_cnt[b] = IF b \in S THEN d.ref_cnt[b] - 1 ELSE d.ref_cnt[b]
    /\ IsInjective(t.free) /\ NullBlock \notin Range(t.free)
    /\ Range(t.free) = Range(d.free) \cup {b \in S : d.ref_cnt[b] - 1 = 0}

(* The conclusion of FreeFacts.                                             *)
FreeIs(d, bs, prepend) ==
    /\ FreeEffect(d, Range(bs) \ {NullBlock}, free_blocks(d, bs, prepend))
    /\ SameTables(d, free_blocks(d, bs, prepend))

(* free_blocks on blocks that are not free, none of them twice; prepended   *)
(* or appended.                                                             *)
LEMMA FreeFacts ==
    ASSUME Counting, NEW d \in KV, IsInjective(d.free), NullBlock \notin Range(d.free),
           NEW bs \in Seq(Blocks), Once(bs, Real),
           \A b \in Range(bs) : b \notin Range(d.free), NEW prepend
    PROVE  FreeIs(d, bs, prepend)
  <1> USE DEF FreeIs
  <1> DEFINE S == Range(bs) \ {NullBlock}
             ref == [b \in Blocks |-> d.ref_cnt[b] - Uses(bs, b)]
             Z == {b \in Blocks \ {NullBlock} : ref[b] = 0}
             freed == Keep(bs, Z)
             f == IF prepend THEN freed \o d.free ELSE d.free \o freed
             t == free_blocks(d, bs, prepend)
  <1>1. d.ref_cnt \in [Blocks -> Int] /\ d.free \in Seq(Blocks) /\ Range(bs) \subseteq Blocks
    BY ByZenon, SeqFun DEF KV, SeqIs
  <1> USE <1>1
  <1>2. \A b \in Blocks : ref[b] = (IF b \in S THEN d.ref_cnt[b] - 1 ELSE d.ref_cnt[b]) /\ ref[b] \in Int
    <2>1. SUFFICES ASSUME NEW b \in Blocks
                   PROVE  ref[b] = (IF b \in S THEN d.ref_cnt[b] - 1 ELSE d.ref_cnt[b]) /\ ref[b] \in Int
      BY ByZenon
    <2>2. Uses(bs, b) = IF b \in Range(bs) \ {NullBlock} THEN 1 ELSE 0
      BY ByZenon, UsesFacts DEF Real
    <2>3. ref[b] = d.ref_cnt[b] - Uses(bs, b) /\ d.ref_cnt[b] \in Int
      BY ByZenon
    <2> HIDE DEF ref
    <2>4. QED BY <2>2, <2>3
  <1> USE <1>2
  <1>3. ref \in [Blocks -> Int]
    BY ByZenon
  <1>4. t = [d EXCEPT !.ref_cnt = ref, !.free = f]
    BY ByZenon DEF free_blocks
  <1>5. freed \in Seq(Blocks) /\ Range(freed) = Range(bs) \cap Z /\ Once(freed, Real \cap Z)
    <2> HIDE DEF Z
    <2>1. QED BY ByZenon, KeepFacts DEF KeepIs
  <1> USE <1>5
  <1>6. Range(freed) = {b \in S : d.ref_cnt[b] - 1 = 0}
    BY ByZenon
  <1>7. Z \subseteq Real /\ Range(freed) \subseteq Z
    BY ByZenon DEF Real
  <1> HIDE DEF ref, Z, S
  <1>8. IsInjective(freed)
    <2>1. \A i \in DOMAIN freed : freed[i] \in Real \cap Z
      BY ByZenon, <1>7 DEF Range
    <2>2. QED BY ByZenon, <2>1 DEF Once, IsInjective
  <1>9. \A b \in Range(freed) : b \notin Range(d.free) /\ b # NullBlock
    BY ByZenon, <1>7 DEF Real
  <1> HIDE DEF freed
  <1>10. f \in Seq(Blocks) /\ IsInjective(f) /\ Range(f) = Range(d.free) \cup Range(freed)
    <2>0. \A u \in Seq(Blocks) : Once(u, Blocks) <=> IsInjective(u)
      BY SeqFun DEF Once, IsInjective, SeqIs
    <2>1. Once(d.free, Blocks) /\ Once(freed, Blocks)
      BY ByZenon, <1>8, <2>0
    <2>2. /\ freed \o d.free \in Seq(Blocks)
          /\ Range(freed \o d.free) = Range(freed) \cup Range(d.free)
          /\ Once(freed, Blocks) /\ Once(d.free, Blocks)
               /\ (\A x \in Blocks : ~(x \in Range(freed) /\ x \in Range(d.free)))
               => Once(freed \o d.free, Blocks)
      BY ConcatFacts DEF ConcatIs
    <2> USE <2>2
    <2>3. /\ d.free \o freed \in Seq(Blocks)
          /\ Range(d.free \o freed) = Range(d.free) \cup Range(freed)
          /\ Once(d.free, Blocks) /\ Once(freed, Blocks)
               /\ (\A x \in Blocks : ~(x \in Range(d.free) /\ x \in Range(freed)))
               => Once(d.free \o freed, Blocks)
      BY ByZenon, ConcatFacts DEF ConcatIs
    <2> USE <2>3
    <2>4. Once(freed \o d.free, Blocks) /\ Once(d.free \o freed, Blocks)
      BY ByZenon, <1>9, <2>1
    <2>5. IsInjective(freed \o d.free) /\ IsInjective(d.free \o freed)
      BY ByZenon, <2>0, <2>4
    <2>6. CASE prepend
      BY ByZenon, <2>5, <2>6
    <2>7. CASE ~prepend
      BY ByZenon, <2>5, <2>7
    <2>8. QED BY ByZenon, <2>6, <2>7
  <1> HIDE DEF f, t
  <1>11. /\ t \in KV /\ SameTables(d, t) /\ t.block_hash = d.block_hash /\ t.cached = d.cached
         /\ t.published = d.published /\ t.ref_cnt = ref /\ t.free = f /\ t.window = d.window
    BY ByZenon, <1>3, <1>4, <1>10 DEF KV, SameTables
  <1>12. FreeEffect(d, S, t)
    BY ByZenon, <1>6, <1>9, <1>10, <1>11 DEF FreeEffect
  <1>13. QED BY ByZenon, <1>11, <1>12 DEF t, S

(* The conclusion of FreeTwice.                                             *)
FreeTwiceIs(d, bs, A, B) ==
    /\ FreeEffect(d, Range(bs) \ {NullBlock},
                  free_blocks(free_blocks(d, Keep(bs, A), FALSE), Keep(bs, B), TRUE))
    /\ SameTables(d, free_blocks(free_blocks(d, Keep(bs, A), FALSE), Keep(bs, B), TRUE))

(* The two calls for a sliding window: the blocks with a hash to the back   *)
(* of the queue, then the others to its front.  The first call frees none   *)
(* that the second sees.                                                    *)
LEMMA FreeTwice ==
    ASSUME Counting, NEW d \in KV, IsInjective(d.free), NullBlock \notin Range(d.free),
           NEW bs \in Seq(Blocks), Once(bs, Real),
           \A b \in Range(bs) \ {NullBlock} : b \notin Range(d.free), NEW A, NEW B,
           A \cap B = {}, A \cup B = Blocks
    PROVE  FreeTwiceIs(d, bs, A, B)
  <1> USE DEF FreeTwiceIs
  <1> DEFINE x == Keep(bs, A)
             y == Keep(bs, B)
             e == free_blocks(d, x, FALSE)
             t == free_blocks(e, y, TRUE)
             X == Range(x) \ {NullBlock}
             Y == Range(y) \ {NullBlock}
             S == Range(bs) \ {NullBlock}
  <1>0. Range(bs) \subseteq Blocks
    BY ByZenon, SeqFun DEF SeqIs
  <1>1. x \in Seq(Blocks) /\ Range(x) = Range(bs) \cap A /\ Once(x, Real \cap A)
    <2>1. KeepIs(Blocks, bs, A, Real)
      BY ByZenon, KeepFacts
    <2>2. QED BY ByZenon, <2>1 DEF KeepIs
  <1>2. y \in Seq(Blocks) /\ Range(y) = Range(bs) \cap B /\ Once(y, Real \cap B)
    <2>1. KeepIs(Blocks, bs, B, Real)
      BY ByZenon, KeepFacts
    <2>2. QED BY ByZenon, <2>1 DEF KeepIs
  <1> USE <1>2
  <1> HIDE DEF x, y
  <1>3. Once(x, Real) /\ Once(y, Real)
    <2>1. (\A i \in DOMAIN x : x[i] \in A) /\ (\A i \in DOMAIN y : y[i] \in B)
      BY ByZenon, <1>1 DEF Range
    <2>2. QED BY ByZenon, <1>1, <2>1 DEF Once
  <1>4. (\A b \in Range(x) : b \notin Range(d.free)) /\ \A b \in Range(y) : b \notin Range(d.free)
    BY ByZenon, <1>1
  <1>5. FreeEffect(d, X, e) /\ SameTables(d, e)
    BY ByZenon, <1>1, <1>3, <1>4, FreeFacts DEF FreeIs
  <1> USE <1>5
  <1>6. X \cap Y = {} /\ X \cup Y = S
    BY ByZenon, <1>0, <1>1
  <1> USE <1>6
  <1>7. e \in KV /\ IsInjective(e.free) /\ NullBlock \notin Range(e.free)
    BY ByZenon DEF FreeEffect
  <1> HIDE DEF e, X, Y, S
  <1>8. \A b \in Range(y) : b \notin Range(e.free)
    <2>1. \A b \in Range(y) : b \notin X
      BY ByZenon, <1>1 DEF X
    <2>2. Range(e.free) = Range(d.free) \cup {b \in X : d.ref_cnt[b] - 1 = 0}
      BY ByZenon DEF FreeEffect
    <2>3. QED BY ByZenon, <1>4, <2>1, <2>2
  <1>9. FreeEffect(e, Y, t) /\ SameTables(e, t)
    BY ByZenon, <1>3, <1>7, <1>8, FreeFacts DEF Y, FreeIs
  <1> USE <1>9
  <1> HIDE DEF t
  <1>10. Y \subseteq Blocks /\ X \subseteq Blocks
    BY ByZenon, <1>0, <1>1 DEF X, Y
  <1>11. FreeEffect(d, S, t)
    <2>1. /\ t \in KV /\ t.window = d.window /\ t.block_hash = d.block_hash
          /\ t.cached = d.cached /\ t.published = d.published
          /\ IsInjective(t.free) /\ NullBlock \notin Range(t.free)
      BY ByZenon DEF FreeEffect
    <2>2. \A b \in Blocks : e.ref_cnt[b] = IF b \in X THEN d.ref_cnt[b] - 1 ELSE d.ref_cnt[b]
      BY ByZenon DEF FreeEffect
    <2>3. \A b \in Blocks : t.ref_cnt[b] = IF b \in Y THEN e.ref_cnt[b] - 1 ELSE e.ref_cnt[b]
      BY ByZenon DEF FreeEffect
    <2>4. \A b \in Blocks : t.ref_cnt[b] = IF b \in S THEN d.ref_cnt[b] - 1 ELSE d.ref_cnt[b]
      BY ByZenon, <2>2, <2>3
    <2>5. /\ Range(e.free) = Range(d.free) \cup {b \in X : d.ref_cnt[b] - 1 = 0}
          /\ Range(t.free) = Range(e.free) \cup {b \in Y : e.ref_cnt[b] - 1 = 0}
      BY ByZenon DEF FreeEffect
    <2>6. \A b \in Y : e.ref_cnt[b] = d.ref_cnt[b]
      BY ByZenon, <1>10, <2>2
    <2>7. Range(t.free) = Range(d.free) \cup {b \in S : d.ref_cnt[b] - 1 = 0}
      BY ByZenon, <2>5, <2>6
    <2>8. QED BY ByZenon, <2>1, <2>4, <2>7 DEF FreeEffect
  <1>12. SameTables(d, t)
    BY ByZenon DEF SameTables
  <1>13. QED BY ByZenon, <1>11, <1>12 DEF t, e, x, y, S

(* tab2 is tab without the blocks of S, emptied or with null blocks in      *)
(* their places.                                                            *)
Shrunk(tab, tab2, S) ==
    /\ tab2 \in Seq(Blocks)
    /\ \A i \in DOMAIN tab2 : i \in DOMAIN tab /\ (tab2[i] = NullBlock \/ tab2[i] = tab[i])
    /\ Range(tab2) \ {NullBlock} = (Range(tab) \ {NullBlock}) \ S

(* Blocks that r holds leave its table and are freed: sound, and            *)
(* BlockOwnership's Give.                                                   *)
LEMMA GiveSound ==
    ASSUME NEW k, Sound(k), NEW r \in Requests,
           NEW S \in SUBSET (Range(k.req_to_blocks[r]) \ {NullBlock}),
           NEW t, FreeEffect(k, S, t),
           NEW tab, Shrunk(k.req_to_blocks[r], tab, S),
           t.req_to_blocks = [k.req_to_blocks EXCEPT ![r] = tab],
           \A s \in Requests \ {r} : t.num_cached_block[s] = k.num_cached_block[s],
           t.num_cached_block[r] >= NotTracked, t.num_cached_block[r] <= Len(tab),
           tab = <<>> \/ t.num_cached_block[r] = k.num_cached_block[r]
    PROVE  Sound(t) /\ Owned(t) = OP!Give(Owned(k), r, S) /\ S \subseteq Owned(k).holds[r]
  <1> DEFINE old == k.req_to_blocks[r]
             q == Owned(k)
  <1>1. k \in KV /\ QueueOK(k) /\ TablesOK(k) /\ MapOK(k) /\ EventsOK(k) /\ PrefixOK(k) /\ OP!PoolInv(q)
    BY ByZenon DEF Sound
  <1>2. /\ t \in KV /\ t.window = k.window
        /\ t.block_hash = k.block_hash /\ t.cached = k.cached /\ t.published = k.published
        /\ \A b \in Blocks : t.ref_cnt[b] = IF b \in S THEN k.ref_cnt[b] - 1 ELSE k.ref_cnt[b]
        /\ IsInjective(t.free) /\ NullBlock \notin Range(t.free)
        /\ Range(t.free) = Range(k.free) \cup {b \in S : k.ref_cnt[b] - 1 = 0}
    BY ByZenon DEF FreeEffect
  <1>3. /\ tab \in Seq(Blocks) /\ DOMAIN tab = 1..Len(tab) /\ Len(tab) \in Nat
        /\ \A i \in DOMAIN tab : i \in DOMAIN old /\ (tab[i] = NullBlock \/ tab[i] = old[i])
        /\ Range(tab) \ {NullBlock} = (Range(old) \ {NullBlock}) \ S
    BY ByZenon, SeqFun DEF Shrunk, SeqIs
  <1>4. old \in Seq(Blocks) /\ Once(old, Real) /\ k.req_to_blocks \in [Requests -> Seq(Blocks)]
    BY ByZenon, <1>1 DEF KV, TablesOK
  <1>5. t.req_to_blocks[r] = tab /\ OnlyTable(k, t, r)
    BY ByZenon, <1>4 DEF OnlyTable
  <1>6. QueueOK(t)
    BY ByZenon, <1>1, <1>2, PoolAssumption DEF QueueOK, PoolAssumption
  <1>7. MapOK(t) /\ EventsOK(t)
    BY <1>1, <1>2 DEF MapOK, EventsOK
  <1> HIDE DEF old
  <1>8. Once(tab, Real)
    BY ByZenon, <1>3, <1>4 DEF Once, Real
  <1>9. TablesOK(t)
    <2>1. ASSUME NEW s \in Requests
          PROVE  /\ Once(t.req_to_blocks[s], Real) /\ t.num_cached_block[s] >= NotTracked
                 /\ t.num_cached_block[s] <= Len(t.req_to_blocks[s])
      <3>1. CASE s # r
        BY ByZenon, <1>1, <1>5, <3>1 DEF TablesOK, OnlyTable
      <3>2. CASE s = r
        BY ByZenon, <1>5, <1>8, <3>2
      <3>3. QED BY ByZenon, <3>1, <3>2
    <2>2. QED BY ByZenon, <2>1 DEF TablesOK
  <1>10. PrefixOK(t)
    <2>1. SUFFICES ASSUME NEW s \in Requests, NEW i \in DOMAIN t.req_to_blocks[s],
                          t.req_to_blocks[s][i] # NullBlock
                   PROVE  t.block_hash[t.req_to_blocks[s][i]] \in OwnHash(s, i)
      BY ByZenon DEF PrefixOK
    <2>2. i \in DOMAIN k.req_to_blocks[s] /\ t.req_to_blocks[s][i] = k.req_to_blocks[s][i]
      <3>1. CASE s # r
        BY ByZenon, <1>5, <2>1, <3>1 DEF OnlyTable
      <3>2. CASE s = r
        BY ByZenon, <1>3, <1>5, <2>1, <3>2 DEF old
      <3>3. QED BY ByZenon, <3>1, <3>2
    <2>3. QED BY ByZenon, <1>1, <1>2, <2>1, <2>2 DEF PrefixOK
  <1>11. /\ \A b \in Real : q.ref[b] = k.ref_cnt[b] /\ q.hash[b] = k.block_hash[b] /\ b \in Blocks
         /\ q.free = Range(k.free) /\ q.hash = [b \in Real |-> k.block_hash[b]]
         /\ q.holds = [s \in Requests |-> Range(k.req_to_blocks[s]) \ {NullBlock}]
         /\ q.fresh = [s \in Requests |-> {b \in Real : \E i \in DOMAIN k.req_to_blocks[s] :
                         k.req_to_blocks[s][i] = b /\ i > k.num_cached_block[s]}]
    BY ByZenon DEF Owned, Real
  <1> HIDE DEF q
  <1>12. S \subseteq q.holds[r] /\ S \subseteq Real
    <2>1. Range(k.req_to_blocks[r]) \subseteq Blocks
      BY ByZenon, <1>4, SeqFun DEF old, SeqIs
    <2>2. QED BY ByZenon, <1>11, <2>1 DEF Real
  <1>13. Owned(t) = OP!Give(q, r, S)
    <2>1. [b \in Real |-> t.ref_cnt[b]]
            = [b \in Real |-> IF b \in S THEN q.ref[b] - 1 ELSE q.ref[b]]
      BY <1>2, <1>11
    <2>2. Range(t.free) = q.free \cup {b \in S : q.ref[b] - 1 = 0}
      BY ByZenon, <1>2, <1>11, <1>12
    <2>3. [b \in Real |-> t.block_hash[b]] = q.hash
      BY ByZenon, <1>2, <1>11
    <2>4. [s \in Requests |-> Range(t.req_to_blocks[s]) \ {NullBlock}]
            = [q.holds EXCEPT ![r] = @ \ S]
      <3>1. \A s \in Requests : Range(t.req_to_blocks[s]) \ {NullBlock} =
               IF s = r THEN q.holds[r] \ S ELSE q.holds[s]
        BY <1>3, <1>5, <1>11 DEF OnlyTable, old
      <3>2. QED BY ByZenon, <1>11, <3>1
    <2> DEFINE Fresh(s) == {b \in Real : \E i \in DOMAIN t.req_to_blocks[s] :
                   t.req_to_blocks[s][i] = b /\ i > t.num_cached_block[s]}
    <2>5. [s \in Requests |-> Fresh(s)] = [q.fresh EXCEPT ![r] = @ \ S]
      <3>1. \A s \in Requests \ {r} : Fresh(s) = q.fresh[s]
        BY <1>5, <1>11 DEF OnlyTable
      <3>2. q.fresh[r] = {b \in Real : \E i \in DOMAIN old : old[i] = b /\ i > k.num_cached_block[r]}
        BY ByZenon, <1>11 DEF old
      <3>3. CASE tab = <<>>
        <4>1. Range(tab) = {} /\ DOMAIN tab = {}
          BY <3>3 DEF Range
        <4>2. Range(old) \ {NullBlock} \subseteq S
          BY ByZenon, <1>3, <4>1
        <4>3. q.fresh[r] \subseteq S
          BY ByZenon, <3>2, <4>2 DEF Range, Real
        <4>4. Fresh(r) = {}
          BY ByZenon, <1>5, <4>1
        <4>5. Fresh(r) = q.fresh[r] \ S
          BY ByZenon, <4>3, <4>4
        <4> HIDE DEF Fresh
        <4>6. QED BY ByZenon, <1>11, <3>1, <4>5
      <3>4. CASE tab # <<>>
        <4>0. t.num_cached_block[r] = k.num_cached_block[r]
          BY ByZenon, <3>4
        <4>1. ASSUME NEW b \in Fresh(r) PROVE b \in q.fresh[r] \ S
          <5>1. PICK i \in DOMAIN tab : tab[i] = b /\ i > k.num_cached_block[r] /\ b \in Real
            BY ByZenon, <1>5, <4>0, <4>1
          <5>2. b # NullBlock /\ i \in DOMAIN old /\ old[i] = b
            BY ByZenon, <1>3, <5>1 DEF Real
          <5>3. b \in Range(tab) \ {NullBlock}
            BY ByZenon, <5>1, <5>2 DEF Range
          <5>4. b \notin S
            BY ByZenon, <1>3, <5>3
          <5>5. QED BY ByZenon, <3>2, <5>1, <5>2, <5>4
        <4>2. ASSUME NEW b \in q.fresh[r] \ S PROVE b \in Fresh(r)
          <5>1. PICK i \in DOMAIN old : old[i] = b /\ i > k.num_cached_block[r] /\ b \in Real
            BY ByZenon, <3>2, <4>2
          <5>2. b \in Range(old) \ {NullBlock}
            BY ByZenon, <5>1 DEF Range, Real
          <5>3. b \in Range(tab)
            BY ByZenon, <1>3, <4>2, <5>2
          <5>4. PICK j \in DOMAIN tab : tab[j] = b
            BY ByZenon, <5>3 DEF Range
          <5>5. j \in DOMAIN old /\ old[j] = b
            BY ByZenon, <1>3, <5>2, <5>4
          <5>6. j = i
            BY ByZenon, <1>4, <5>1, <5>5 DEF Once
          <5>7. QED BY ByZenon, <1>5, <4>0, <5>1, <5>4, <5>6
        <4>3. Fresh(r) = q.fresh[r] \ S
          BY ByZenon, <4>1, <4>2
        <4> HIDE DEF Fresh
        <4>4. QED BY ByZenon, <1>11, <3>1, <4>3
      <3>5. QED BY ByZenon, <3>3, <3>4
    <2>6. QED BY ByZenon, <2>1, <2>2, <2>3, <2>4, <2>5 DEF Owned, OP!Give
  <1>14. OP!PoolInv(Owned(t))
    <2>1. OP!PoolInv(OP!Give(q, r, S))
      BY ByZenon, <1>1, <1>12, OwnershipFits, OP!GivePreserves DEF q
    <2>2. QED BY ByZenon, <1>13, <2>1
  <1>15. Sound(t)
    BY ByZenon, <1>2, <1>6, <1>7, <1>9, <1>10, <1>14 DEF Sound
  <1>16. QED BY ByZenon, <1>12, <1>13, <1>15 DEF q

(* Reading a table from its end repeats nothing.                            *)
LEMMA BackwardsOnce ==
    ASSUME NEW T, NEW s \in Seq(T), NEW A, Once(s, A)
    PROVE  Once(Backwards(s), A)
  <1>1. /\ Backwards(s) \in Seq(T) /\ Len(Backwards(s)) = Len(s)
        /\ \A i \in 1..Len(s) : Backwards(s)[i] = s[Len(s) + 1 - i]
    BY ByZenon, BackwardsFacts DEF BackwardsIs
  <1>2. Len(s) \in Nat /\ DOMAIN s = 1..Len(s) /\ DOMAIN Backwards(s) = 1..Len(s)
    BY ByZenon, <1>1, SeqFun DEF SeqIs
  <1> USE <1>2
  <1>3. SUFFICES ASSUME NEW i \in 1..Len(s), NEW j \in 1..Len(s),
                        Backwards(s)[i] = Backwards(s)[j], Backwards(s)[i] \in A
                 PROVE  i = j
    BY ByZenon DEF Once
  <1>4. Len(s) + 1 - i \in 1..Len(s) /\ Len(s) + 1 - j \in 1..Len(s)
    OBVIOUS
  <1>5. Len(s) + 1 - i = Len(s) + 1 - j
    BY ByZenon, <1>1, <1>3, <1>4 DEF Once
  <1>6. QED BY <1>5

(* Only what belongs to requests differs.                                   *)
SamePool(k, d) ==
    /\ d.ref_cnt = k.ref_cnt /\ d.block_hash = k.block_hash /\ d.free = k.free
    /\ d.cached = k.cached /\ d.published = k.published /\ d.window = k.window

(* The conclusion of Released.                                              *)
ReleasedIs(k, r, d, bs) ==
    /\ FreeEffect(k, Range(bs) \ {NullBlock}, free_blocks(d, bs, FALSE))
    /\ SameTables(d, free_blocks(d, bs, FALSE))
    /\ FreeEffect(k, Range(bs) \ {NullBlock},
         free_blocks(free_blocks(d, Keep(bs, {b \in Blocks : k.block_hash[b] # NoHash}), FALSE),
                     Keep(bs, {b \in Blocks : k.block_hash[b] = NoHash}), TRUE))
    /\ SameTables(d,
         free_blocks(free_blocks(d, Keep(bs, {b \in Blocks : k.block_hash[b] # NoHash}), FALSE),
                     Keep(bs, {b \in Blocks : k.block_hash[b] = NoHash}), TRUE))

(* The blocks of a table of r can be freed by one call or by two.           *)
LEMMA Released ==
    ASSUME Counting, NEW k, Sound(k), NEW r \in Requests, NEW d \in KV, SamePool(k, d),
           NEW bs \in Seq(Blocks), Once(bs, Real), Range(bs) \subseteq Range(k.req_to_blocks[r])
    PROVE  ReleasedIs(k, r, d, bs)
  <1> USE DEF ReleasedIs
  <1> DEFINE A == {b \in Blocks : k.block_hash[b] # NoHash}
             B == {b \in Blocks : k.block_hash[b] = NoHash}
             S == Range(bs) \ {NullBlock}
             t == free_blocks(d, bs, FALSE)
             u == free_blocks(free_blocks(d, Keep(bs, A), FALSE), Keep(bs, B), TRUE)
  <1>1. k \in KV /\ QueueOK(k)
    BY ByZenon DEF Sound
  <1>2. IsInjective(d.free) /\ NullBlock \notin Range(d.free)
    BY ByZenon, <1>1 DEF QueueOK, SamePool
  <1> USE <1>2
  <1>3. S \subseteq Real
    BY ByZenon, SeqFun DEF Real, SeqIs
  <1>4. \A b \in S : b \notin Range(d.free)
    <2>1. \A b \in S : b \notin Range(k.free)
      BY ByZenon, <1>3, Reading DEF OwnershipRead
    <2>2. QED BY ByZenon, <2>1 DEF SamePool
  <1>4a. \A b \in Range(bs) : b \notin Range(d.free)
    BY ByZenon, <1>4
  <1>5. FreeEffect(d, S, t) /\ SameTables(d, t)
    BY ByZenon, <1>4a, FreeFacts DEF FreeIs
  <1>6. A \cap B = {} /\ A \cup B = Blocks
    BY ByZenon
  <1>7. FreeEffect(d, S, u) /\ SameTables(d, u)
    <2> HIDE DEF A, B
    <2>1. QED BY ByZenon, <1>4, <1>6, FreeTwice DEF FreeTwiceIs
  <1> HIDE DEF S, t, u
  <1>8. FreeEffect(k, S, t) /\ FreeEffect(k, S, u)
    BY ByZenon, <1>5, <1>7 DEF FreeEffect, SamePool
  <1>9. QED BY ByZenon, <1>5, <1>7, <1>8 DEF S, t, u, A, B

(* The conclusion of ReleaseSound.                                          *)
ReleaseIs(k, r) ==
    /\ Sound(free_request(k, r))
    /\ Owned(free_request(k, r)) = OP!Give(Owned(k), r, Owned(k).holds[r])
    /\ free_request(k, r).req_to_blocks = [k.req_to_blocks EXCEPT ![r] = <<>>]
    /\ free_request(k, r).num_cached_block = [k.num_cached_block EXCEPT ![r] = NotTracked]
    /\ free_request(k, r).window = k.window

(* free_request: all blocks of r are given back, and the request is no      *)
(* longer tracked.                                                          *)
LEMMA ReleaseSound ==
    ASSUME Counting, NEW k, Sound(k), NEW r \in Requests
    PROVE  ReleaseIs(k, r)
  <1> USE DEF ReleaseIs
  <1> DEFINE tab == k.req_to_blocks[r]
             gone == Backwards(tab)
             d == [k EXCEPT !.req_to_blocks[r] = <<>>, !.num_cached_block[r] = NotTracked]
             t == free_request(k, r)
             S == Range(tab) \ {NullBlock}
             two == free_blocks(free_blocks(d, Keep(gone, {b \in Blocks : k.block_hash[b] # NoHash}), FALSE),
                                Keep(gone, {b \in Blocks : k.block_hash[b] = NoHash}), TRUE)
  <1>1. k \in KV /\ TablesOK(k)
    BY ByZenon DEF Sound
  <1> USE <1>1
  <1>2. tab \in Seq(Blocks) /\ Once(tab, Real)
    BY ByZenon DEF KV, TablesOK
  <1>3. gone \in Seq(Blocks) /\ Once(gone, Real) /\ Range(gone) = Range(tab)
    <2> HIDE DEF tab
    <2>1. QED BY ByZenon, <1>2, BackwardsFacts, BackwardsOnce DEF BackwardsIs
  <1>4. /\ d \in KV /\ SamePool(k, d)
        /\ d.req_to_blocks = [k.req_to_blocks EXCEPT ![r] = <<>>]
        /\ d.num_cached_block = [k.num_cached_block EXCEPT ![r] = NotTracked]
    <2>1. [k.req_to_blocks EXCEPT ![r] = <<>>] \in [Requests -> Seq(Blocks)]
          /\ [k.num_cached_block EXCEPT ![r] = NotTracked] \in [Requests -> Int]
      BY DEF KV, NotTracked
    <2>2. d = [k EXCEPT !.req_to_blocks = [@ EXCEPT ![r] = <<>>],
                        !.num_cached_block = [@ EXCEPT ![r] = NotTracked]]
      BY ByZenon DEF KV
    <2>3. QED BY ByZenon, <2>1, <2>2 DEF KV, SamePool
  <1>5. t = IF k.window = 0 THEN free_blocks(d, gone, FALSE) ELSE two
    BY ByZenon DEF free_request
  <1> HIDE DEF d, gone, t
  <1>6. FreeEffect(k, S, t) /\ SameTables(d, t)
    <2>1. Range(gone) \ {NullBlock} = S /\ Range(gone) \subseteq Range(k.req_to_blocks[r])
      BY ByZenon, <1>3
    <2>2. /\ FreeEffect(k, Range(gone) \ {NullBlock}, free_blocks(d, gone, FALSE))
          /\ SameTables(d, free_blocks(d, gone, FALSE))
          /\ FreeEffect(k, Range(gone) \ {NullBlock}, two) /\ SameTables(d, two)
      BY ByZenon, <1>3, <1>4, <2>1, Released DEF ReleasedIs
    <2> HIDE DEF two
    <2>3. QED BY ByZenon, <1>5, <2>1, <2>2
  <1>7. Shrunk(tab, <<>>, S)
    <2>1. DOMAIN <<>> = {} /\ Range(<<>>) = {} /\ <<>> \in Seq(Blocks)
      BY DEF Range
    <2>2. QED BY ByZenon, <2>1 DEF Shrunk
  <1>8. /\ t.req_to_blocks = [k.req_to_blocks EXCEPT ![r] = <<>>]
        /\ t.num_cached_block = [k.num_cached_block EXCEPT ![r] = NotTracked]
        /\ t.window = k.window
    BY ByZenon, <1>4, <1>6 DEF SameTables, SamePool
  <1> USE <1>8
  <1>9. /\ \A s \in Requests \ {r} : t.num_cached_block[s] = k.num_cached_block[s]
        /\ t.num_cached_block[r] >= NotTracked /\ t.num_cached_block[r] <= Len(<<>>)
    BY DEF KV, NotTracked
  <1>10. Sound(t) /\ Owned(t) = OP!Give(Owned(k), r, S)
    <2> HIDE DEF S
    <2>1. S \in SUBSET (Range(k.req_to_blocks[r]) \ {NullBlock})
      BY ByZenon DEF S
    <2>2. QED BY ByZenon, <1>6, <1>7, <1>9, <2>1, GiveSound
  <1>11. Owned(k).holds[r] = S
    BY ByZenon DEF Owned
  <1>12. QED BY ByZenon, <1>10, <1>11 DEF t

(* No more tokens are skipped than there are.                               *)
LEMMA SkippedTokens ==
    ASSUME NEW k \in KV, NEW n \in Nat
    PROVE  get_num_skipped_tokens(k, n) \in Nat /\ get_num_skipped_tokens(k, n) <= n
  BY DEF get_num_skipped_tokens, MaxOf, KV

(* What remove_skipped_blocks does: some blocks of r are given back and     *)
(* leave null blocks in their places.                                       *)
SkipEffect(k, r, t) ==
    /\ Sound(t)
    /\ \E S \in SUBSET Owned(k).holds[r] : Owned(t) = OP!Give(Owned(k), r, S)
    /\ Len(t.req_to_blocks[r]) = Len(k.req_to_blocks[r]) /\ OnlyTable(k, t, r)
    /\ t.num_cached_block = k.num_cached_block /\ t.window = k.window
    /\ t.block_hash = k.block_hash

(* The blocks that remove_skipped_blocks finds behind the window when total *)
(* tokens are computed.                                                     *)
SkippedBlocks(k, total) == get_num_skipped_tokens(k, total) \div BlockSize

(* What remove_skipped_blocks does, and which places it leaves empty: none  *)
(* inside the window.                                                       *)
SkipIs(k, r, total, t) ==
    /\ SkipEffect(k, r, t)
    /\ NullPlaces(t.req_to_blocks[r])
         \subseteq NullPlaces(k.req_to_blocks[r]) \cup (1..SkippedBlocks(k, total))

(* remove_skipped_blocks, for any window and any number of tokens.          *)
LEMMA SkipSound ==
    ASSUME Counting, NEW k, Sound(k), NEW r \in Requests, NEW total \in Nat
    PROVE  SkipIs(k, r, total, remove_skipped_blocks(k, r, total))
  <1> DEFINE tab == k.req_to_blocks[r]
             n == MinOf(get_num_skipped_tokens(k, total) \div BlockSize, Len(tab))
             N == {0} \cup {i \in 1..n : tab[i] = NullBlock}
             m == Greatest(N)
             first == 1 + m
             cut == SubSeq(tab, first, n)
             gone == Backwards(cut)
             tab2 == [i \in DOMAIN tab |-> IF i \in first..n THEN NullBlock ELSE tab[i]]
             d == [k EXCEPT !.req_to_blocks[r] =
                       [i \in DOMAIN @ |-> IF i \in first..n THEN NullBlock ELSE @[i]]]
             t == remove_skipped_blocks(k, r, total)
             S == Range(gone) \ {NullBlock}
  <1>1. k \in KV /\ TablesOK(k)
    BY ByZenon DEF Sound
  <1> USE <1>1
  <1>2. tab \in Seq(Blocks) /\ Once(tab, Real) /\ Len(tab) \in Nat /\ DOMAIN tab = 1..Len(tab)
    BY DEF KV, TablesOK
  <1> USE <1>2
  <1>3. n \in Nat /\ n <= Len(tab) /\ SkippedBlocks(k, total) \in Nat /\ n <= SkippedBlocks(k, total)
    <2>1. get_num_skipped_tokens(k, total) \div BlockSize \in Nat
      BY ByZenon, SkippedTokens, Quotient, CacheAssumption DEF CacheAssumption, QuotientIs
    <2> HIDE DEF tab
    <2>2. QED BY <2>1 DEF MinOf, SkippedBlocks
  <1> USE <1>3
  <1>t. t = free_blocks(free_blocks(d, Keep(gone, {b \in Blocks : k.block_hash[b] # NoHash}), FALSE),
                        Keep(gone, {b \in Blocks : k.block_hash[b] = NoHash}), TRUE)
    BY ByZenon DEF remove_skipped_blocks
  <1>d. d = [k EXCEPT !.req_to_blocks = [@ EXCEPT ![r] = tab2]]
    BY ByZenon DEF KV
  <1> HIDE DEF tab, n
  <1>4. m \in 0..n /\ \A i \in N : i <= m
    <2>1. N \in SUBSET (0..n) /\ N # {}
      OBVIOUS
    <2> HIDE DEF N
    <2>2. m \in N /\ \A y \in N : y <= m
      BY ByZenon, <2>1, GreatestFacts
    <2>3. QED BY ByZenon, <2>1, <2>2
  <1>4a. first = m + 1 /\ m \in Nat /\ m <= n
    BY <1>4
  <1> USE <1>4a
  <1>5. \A i \in (m + 1)..n : tab[i] # NullBlock /\ i \in 1..Len(tab)
    <2>1. SUFFICES ASSUME NEW i \in (m + 1)..n, tab[i] = NullBlock \/ i \notin 1..Len(tab) PROVE FALSE
      BY ByZenon
    <2>2. i \in 1..n /\ i \in 1..Len(tab) /\ ~(i <= m)
      OBVIOUS
    <2>3. QED BY ByZenon, <1>4, <2>1, <2>2
  <1> HIDE DEF m
  <1>6. cut \in Seq(Blocks) /\ Range(cut) = {tab[i] : i \in (m + 1)..n} /\ Once(cut, Real)
    <2>1. /\ SubSeq(tab, m + 1, n) \in Seq(Blocks) /\ Len(SubSeq(tab, m + 1, n)) = n - m
          /\ \A i \in 1..(n - m) : SubSeq(tab, m + 1, n)[i] = tab[m + i]
          /\ Range(SubSeq(tab, m + 1, n)) = {tab[i] : i \in (m + 1)..n}
          /\ Once(tab, Real) => Once(SubSeq(tab, m + 1, n), Real)
      BY ByZenon, SubSeqFacts DEF SubSeqIs
    <2>2. QED BY ByZenon, <2>1
  <1> HIDE DEF cut
  <1>7. gone \in Seq(Blocks) /\ Once(gone, Real) /\ Range(gone) = Range(cut)
    BY ByZenon, <1>6, BackwardsFacts, BackwardsOnce DEF BackwardsIs
  <1> HIDE DEF gone
  <1>8. S = {tab[i] : i \in (m + 1)..n} /\ Range(gone) \subseteq Range(tab)
    BY ByZenon, <1>5, <1>6, <1>7 DEF Range
  <1> USE <1>8
  <1>9. tab2 \in Seq(Blocks) /\ Len(tab2) = Len(tab) /\ DOMAIN tab2 = 1..Len(tab)
        /\ \A i \in 1..Len(tab) : tab2[i] = IF i \in (m + 1)..n THEN NullBlock ELSE tab[i]
    <2>1. \A i \in 1..Len(tab) : tab[i] \in Blocks
      BY ByZenon, SeqFun DEF SeqIs
    <2>2. tab2 \in [1..Len(tab) -> Blocks]
      BY ByZenon, <2>1, PoolAssumption DEF PoolAssumption
    <2>3. tab2 \in Seq(Blocks) /\ Len(tab2) = Len(tab)
      BY ByZenon, <2>2, FunSeq
    <2>4. QED BY ByZenon, <2>2, <2>3
  <1> USE <1>9
  <1> HIDE DEF tab2, first
  <1>10. /\ d \in KV /\ SamePool(k, d) /\ d.num_cached_block = k.num_cached_block
         /\ d.req_to_blocks = [k.req_to_blocks EXCEPT ![r] = tab2]
    <2>1. [k.req_to_blocks EXCEPT ![r] = tab2] \in [Requests -> Seq(Blocks)]
      BY ByZenon DEF KV
    <2> HIDE DEF d
    <2>2. QED BY ByZenon, <1>d, <2>1 DEF KV, SamePool
  <1> HIDE DEF d, t
  <1>11. FreeEffect(k, S, t) /\ SameTables(d, t)
    BY ByZenon, <1>7, <1>10, <1>t, Released DEF tab, ReleasedIs
  <1>12. Shrunk(tab, tab2, S)
    <2>1. \A i \in DOMAIN tab2 : i \in DOMAIN tab /\ (tab2[i] = NullBlock \/ tab2[i] = tab[i])
      BY ByZenon
    <2>2. ASSUME NEW b, b \in Range(tab2), b # NullBlock
          PROVE  b \in Range(tab) /\ b \notin S
      <3> USE <2>2
      <3>1. PICK i \in 1..Len(tab) : tab2[i] = b
        BY ByZenon DEF Range
      <3> USE <3>1
      <3>2. tab[i] = b /\ i \notin (m + 1)..n
        BY ByZenon
      <3> USE <3>2
      <3>3. b \in Range(tab) /\ b \in Real
        BY SeqFun DEF Real, SeqIs
      <3>4. ASSUME b \in S PROVE FALSE
        <4>1. PICK j \in (m + 1)..n : tab[j] = b
          BY ByZenon, <3>4
        <4>2. j = i
          BY ByZenon, <1>5, <3>3, <4>1 DEF Once
        <4>3. QED BY ByZenon, <4>1, <4>2
      <3>5. QED BY ByZenon, <3>3, <3>4
    <2>3. ASSUME NEW b, b \in Range(tab), b # NullBlock, b \notin S
          PROVE  b \in Range(tab2)
      <3>1. PICK i \in 1..Len(tab) : tab[i] = b
        BY ByZenon, <2>3 DEF Range
      <3> USE <3>1
      <3>2. i \notin (m + 1)..n
        BY ByZenon, <2>3
      <3>3. tab2[i] = b
        BY ByZenon, <3>2
      <3>4. QED BY ByZenon, <3>3 DEF Range
    <2>4. Range(tab2) \ {NullBlock} = (Range(tab) \ {NullBlock}) \ S
      BY ByZenon, <2>2, <2>3
    <2>5. QED BY ByZenon, <2>1, <2>4 DEF Shrunk
  <1>13. /\ t.req_to_blocks = [k.req_to_blocks EXCEPT ![r] = tab2]
         /\ t.num_cached_block = k.num_cached_block /\ t.window = k.window
         /\ t.block_hash = k.block_hash
    BY ByZenon, <1>10, <1>11 DEF SameTables, SamePool, FreeEffect
  <1> USE <1>13
  <1>14. /\ \A s \in Requests \ {r} : t.num_cached_block[s] = k.num_cached_block[s]
         /\ t.num_cached_block[r] >= NotTracked /\ t.num_cached_block[r] <= Len(tab2)
         /\ t.num_cached_block[r] = k.num_cached_block[r]
    BY ByZenon DEF TablesOK, tab
  <1>15. S \in SUBSET (Range(k.req_to_blocks[r]) \ {NullBlock})
    BY ByZenon DEF tab
  <1> HIDE DEF S
  <1>16. Sound(t) /\ Owned(t) = OP!Give(Owned(k), r, S) /\ S \subseteq Owned(k).holds[r]
    <2>1. Shrunk(k.req_to_blocks[r], tab2, S)
      BY ByZenon, <1>12 DEF tab
    <2>2. t.req_to_blocks = [k.req_to_blocks EXCEPT ![r] = tab2]
      BY ByZenon, <1>13
    <2>3. FreeEffect(k, S, t)
      BY ByZenon, <1>11
    <2>4. Sound(k) /\ r \in Requests
      BY ByZenon
    <2> HIDE <1>4a, <1>8, <1>9, <1>13
    <2>5. QED BY ByZenon, ByZenon, <1>14, <1>15, <2>1, <2>2, <2>3, <2>4, GiveSound
  <1>17. Len(t.req_to_blocks[r]) = Len(k.req_to_blocks[r]) /\ OnlyTable(k, t, r)
    BY ByZenon DEF OnlyTable, KV, tab
  <1>18. SkipEffect(k, r, t)
    BY ByZenon, <1>16, <1>17 DEF SkipEffect
  <1>19. NullPlaces(tab2) \subseteq NullPlaces(tab) \cup (1..SkippedBlocks(k, total))
    <2>1. SUFFICES ASSUME NEW i \in 1..Len(tab), tab2[i] = NullBlock, tab[i] # NullBlock
                   PROVE  i \in 1..SkippedBlocks(k, total)
      BY ByZenon DEF NullPlaces
    <2>2. i \in (m + 1)..n
      BY ByZenon, <2>1
    <2>3. QED BY <2>2
  <1>20. NullPlaces(t.req_to_blocks[r]) \subseteq NullPlaces(k.req_to_blocks[r]) \cup (1..SkippedBlocks(k, total))
    BY ByZenon, <1>19 DEF KV, tab
  <1>21. QED BY ByZenon, <1>18, <1>20 DEF t, SkipIs

-----------------------------------------------------------------------------
(* cache_blocks.                                                            *)

(* What cache_blocks does: some blocks that r alone writes to get a hash of *)
(* its prefix.                                                              *)
CacheEffect(k, r, t) ==
    /\ Sound(t)
    /\ \E S \in SUBSET Owned(k).fresh[r] : \E h \in [S -> Prefixes[r]] :
          Owned(t) = OP!Fill(Owned(k), r, S, h)
    /\ t.req_to_blocks = k.req_to_blocks /\ t.window = k.window
    /\ (k.num_cached_block[r] # NotTracked => t.num_cached_block[r] # NotTracked)
    /\ \A s \in Requests \ {r} : t.num_cached_block[s] = k.num_cached_block[s]

(* Caching nothing is a special case.                                       *)
LEMMA CacheNothing ==
    ASSUME NEW k, Sound(k), NEW r \in Requests
    PROVE  CacheEffect(k, r, k)
  <1> DEFINE q == Owned(k)
             h == [b \in {} |-> NoHash]
  <1>1. q \in OP!Pool
    BY ByZenon DEF Sound, OP!PoolInv
  <1>2. {} \in SUBSET q.fresh[r] /\ h \in [{} -> Prefixes[r]]
    BY ByZenon
  <1> HIDE DEF h
  <1>3. q = OP!Fill(q, r, {}, h)
    <2> HIDE DEF q
    <2>1. q = [ref |-> q.ref, free |-> q.free, hash |-> q.hash, holds |-> q.holds, fresh |-> q.fresh]
          /\ q.hash \in [Real -> Hashes \cup {NoHash}] /\ q.fresh \in [Requests -> SUBSET Real]
      BY ByZenon, <1>1 DEF OP!Pool
    <2> USE <2>1
    <2>2. q.hash = [b \in Real |-> IF b \in {} THEN h[b] ELSE q.hash[b]]
      BY ByZenon
    <2>3. q.fresh = [q.fresh EXCEPT ![r] = @ \ {}]
      BY ByZenon
    <2>4. QED BY ByZenon, <2>2, <2>3 DEF OP!Fill
  <1>4. QED BY ByZenon, <1>2, <1>3 DEF CacheEffect

(* cache_blocks, when the table and the hashes of r reach as far as the     *)
(* tokens: no block gets a second hash, and the map and the events gain     *)
(* exactly the new blocks.                                                  *)
LEMMA CacheSound ==
    ASSUME NEW k, Sound(k), NEW r \in Requests, NEW num_tokens \in Nat,
           num_tokens \div BlockSize <= Len(k.req_to_blocks[r]),
           num_tokens \div BlockSize <= Len(BlockHashes[r])
    PROVE  CacheEffect(k, r, cache_blocks(k, r, num_tokens))
  <1> DEFINE first == MaxOf(k.num_cached_block[r], 0)
             full == num_tokens \div BlockSize
             t == cache_blocks(k, r, num_tokens)
             tab == k.req_to_blocks[r]
             hs == BlockHashes[r]
             q == Owned(k)
  <1>1. /\ k \in KV /\ QueueOK(k) /\ TablesOK(k) /\ MapOK(k) /\ EventsOK(k) /\ PrefixOK(k)
        /\ OP!PoolInv(q)
    BY ByZenon DEF Sound
  <1> USE <1>1
  <1>2. full \in Nat
    BY ByZenon, Quotient, CacheAssumption DEF CacheAssumption, QuotientIs
  <1> USE <1>2
  <1>3. tab \in Seq(Blocks) /\ Once(tab, Real) /\ Len(tab) \in Nat /\ DOMAIN tab = 1..Len(tab)
        /\ \A i \in 1..Len(tab) : tab[i] \in Blocks
    BY SeqFun DEF KV, TablesOK, SeqIs
  <1>4. hs \in Seq(Hashes) /\ IsInjective(hs) /\ Len(hs) \in Nat /\ DOMAIN hs = 1..Len(hs)
        /\ \A i \in 1..Len(hs) : hs[i] \in Hashes
    BY ByZenon, HashTypes DEF HashesTyped
  <1>5. k.num_cached_block[r] \in Int /\ first \in Nat /\ k.num_cached_block[r] <= first
        /\ full <= Len(tab) /\ full <= Len(hs)
    BY DEF KV, MaxOf
  <1> USE <1>5
  <1>6. CASE first >= full \/ ~EnableCaching
    <2>1. t = k
      BY ByZenon, <1>6 DEF cache_blocks
    <2>2. QED BY ByZenon, <2>1, CacheNothing
  <1>7. CASE ~(first >= full \/ ~EnableCaching)
    <2> USE <1>7
    <2> DEFINE c == cache_full_blocks(k, tab, hs, first, full)
               new == {i \in (first + 1)..full : tab[i] # NullBlock}
               at(b) == CHOOSE i \in new : tab[i] = b
               bs == {tab[i] : i \in new}
               hashed == {hs[i] : i \in new}
               block(h) == tab[CHOOSE i \in new : hs[i] = h]
               bh == [b \in Blocks |-> IF b \in bs THEN hs[at(b)] ELSE k.block_hash[b]]
               ca == [h \in Hashes |-> IF h \in hashed THEN Append(k.cached[h], block(h)) ELSE k.cached[h]]
               pu == [h \in Hashes |-> IF h \in hashed THEN k.published[h] + 1 ELSE k.published[h]]
               cc == [k EXCEPT !.block_hash = bh, !.cached = ca, !.published = pu]
    <2>1. t = [c EXCEPT !.num_cached_block[r] = full]
      BY ByZenon DEF cache_blocks
    <2>2. c = Raise(cc, \E b \in bs : k.block_hash[b] # NoHash, "cache_full_blocks: block already has a hash")
      BY ByZenon DEF cache_full_blocks
    <2> HIDE DEF tab, hs, full, first, t, q
    <2>3. \A i \in new : i \in 1..Len(tab) /\ i \in 1..Len(hs) /\ i > first /\ i <= full /\ i > k.num_cached_block[r]
      BY <1>3, <1>4
    <2>4. \A i \in new : tab[i] # NullBlock /\ tab[i] \in Real
      BY ByZenon, <1>3, <2>3 DEF Real
    <2>5. \A i \in new : k.block_hash[tab[i]] = NoHash
            /\ \A s \in Requests \ {r} : tab[i] \notin Range(k.req_to_blocks[s])
      BY ByZenon, <1>3, <2>3, <2>4, Reading DEF tab, OwnershipRead
    <2>6. c = cc
      <3>1. ~(\E b \in bs : k.block_hash[b] # NoHash)
        BY ByZenon, <2>5
      <3> HIDE DEF c, cc, bs
      <3>2. QED BY ByZenon, <2>2, <3>1, RaiseFalse
    <2>7. \A i \in new : at(tab[i]) = i
      <3>1. SUFFICES ASSUME NEW i \in new PROVE at(tab[i]) = i
        BY ByZenon
      <3>2. at(tab[i]) \in new /\ tab[at(tab[i])] = tab[i]
        BY ByZenon
      <3> DEFINE j == at(tab[i])
      <3>3. j \in 1..Len(tab) /\ i \in 1..Len(tab) /\ tab[i] \in Real /\ tab[j] = tab[i]
        BY ByZenon, <2>3, <2>4, <3>2
      <3> HIDE DEF j
      <3>4. j = i
        BY ByZenon, <1>3, <3>3 DEF Once
      <3>5. QED BY ByZenon, <3>4 DEF j
    <2>8. \A i \in new : block(hs[i]) = tab[i]
      <3>1. SUFFICES ASSUME NEW i \in new PROVE block(hs[i]) = tab[i]
        BY ByZenon
      <3> DEFINE j == CHOOSE x \in new : hs[x] = hs[i]
      <3>2. j \in new /\ hs[j] = hs[i]
        BY ByZenon
      <3> HIDE DEF j
      <3>3. j \in DOMAIN hs /\ i \in DOMAIN hs
        BY ByZenon, <1>4, <2>3, <3>2
      <3>4. j = i
        BY ByZenon, <1>4, <3>2, <3>3 DEF IsInjective
      <3>5. QED BY ByZenon, <3>4 DEF j
    <2> HIDE DEF at, block
    <2>9. /\ \A i \in new : bh[tab[i]] = hs[i]
          /\ \A b \in Blocks \ bs : bh[b] = k.block_hash[b]
      <3>1. bs \subseteq Blocks
        BY ByZenon, <2>4 DEF Real
      <3>2. \A b \in Blocks : bh[b] = IF b \in bs THEN hs[at(b)] ELSE k.block_hash[b]
        BY ByZenon
      <3>3. \A i \in new : tab[i] \in bs
        BY ByZenon
      <3> HIDE DEF bh, bs
      <3>4. QED BY ByZenon, <2>7, <3>1, <3>2, <3>3
    <2>10. bh \in [Blocks -> Hashes \cup {NoHash}]
      <3>1. \A b \in Blocks : k.block_hash[b] \in Hashes \cup {NoHash}
        BY ByZenon DEF KV
      <3>2. \A i \in new : hs[i] \in Hashes
        BY ByZenon, <1>4, <2>3
      <3>3. \A b \in Blocks : bh[b] \in Hashes \cup {NoHash}
        <4>1. TAKE b \in Blocks
        <4>2. CASE b \in bs
          <5>1. PICK i \in new : b = tab[i]
            BY ByZenon, <4>2
          <5> HIDE DEF bh
          <5>2. QED BY ByZenon, <2>9, <3>2, <5>1
        <4>3. CASE b \notin bs
          <5> HIDE DEF bh, bs
          <5>1. QED BY ByZenon, <2>9, <3>1, <4>3
        <4>4. QED BY ByZenon, <4>2, <4>3
      <3>4. QED BY ByZenon, <3>3
    <2> HIDE DEF bh
    <2>11. ASSUME NEW h \in Hashes
           PROVE  /\ ca[h] \in Seq(Blocks) /\ IsInjective(ca[h])
                  /\ Range(ca[h]) = {b \in Blocks : bh[b] = h}
                  /\ pu[h] \in Int /\ pu[h] = Len(ca[h])
      <3>1. /\ k.cached[h] \in Seq(Blocks) /\ IsInjective(k.cached[h])
            /\ Range(k.cached[h]) = {b \in Blocks : k.block_hash[b] = h}
            /\ k.published[h] = Len(k.cached[h]) /\ Len(k.cached[h]) \in Nat
        BY DEF KV, MapOK, EventsOK
      <3> USE <3>1
      <3>1a. h # NoHash
        BY ByZenon, HashTypes DEF HashesTyped
      <3> USE <3>1a
      <3>2. CASE h \notin hashed
        <4>1. ca[h] = k.cached[h] /\ pu[h] = k.published[h]
          BY ByZenon, <3>2
        <4>2. \A b \in Blocks : bh[b] = h <=> k.block_hash[b] = h
          <5>1. TAKE b \in Blocks
          <5>2. CASE b \in bs
            <6>1. PICK i \in new : b = tab[i]
              BY ByZenon, <5>2
            <6>2. bh[b] # h /\ k.block_hash[b] = NoHash
              BY <2>5, <2>9, <3>2, <6>1
            <6>3. QED BY ByZenon, <6>2
          <5>3. CASE b \notin bs
            <6> HIDE DEF bs
            <6>1. QED BY ByZenon, <2>9, <5>3
          <5>4. QED BY ByZenon, <5>2, <5>3
        <4> HIDE DEF ca, pu
        <4>3. QED BY <4>1, <4>2
      <3>3. CASE h \in hashed
        <4>1. PICK i \in new : h = hs[i]
          BY ByZenon, <3>3
        <4>2. ca[h] = Append(k.cached[h], tab[i]) /\ pu[h] = k.published[h] + 1
          BY ByZenon, <2>8, <3>3, <4>1
        <4>3. tab[i] \in Blocks /\ tab[i] \notin Range(k.cached[h])
          BY ByZenon, <2>4, <2>5 DEF Real
        <4> USE <4>3
        <4>4. \A u \in Seq(Blocks) : Once(u, Blocks) <=> IsInjective(u)
          BY SeqFun DEF Once, IsInjective, SeqIs
        <4> DEFINE u == Append(k.cached[h], tab[i])
        <4>5. /\ u \in Seq(Blocks) /\ Len(u) = Len(k.cached[h]) + 1
              /\ Range(u) = Range(k.cached[h]) \cup {tab[i]}
              /\ Once(k.cached[h], Blocks) /\ tab[i] \notin Range(k.cached[h]) => Once(u, Blocks)
          BY ByZenon, AppendFacts DEF AppendIs
        <4> USE <4>5
        <4> HIDE DEF u, ca, pu
        <4>6. IsInjective(u)
          BY ByZenon, <4>4
        <4>7. \A b \in Blocks : bh[b] = h <=> (k.block_hash[b] = h \/ b = tab[i])
          <5>1. TAKE b \in Blocks
          <5>2. CASE b \in bs
            <6>1. PICK j \in new : b = tab[j]
              BY ByZenon, <5>2
            <6>2. bh[b] = hs[j] /\ k.block_hash[b] = NoHash
              BY ByZenon, <2>5, <2>9, <6>1
            <6>3. hs[j] = hs[i] => j = i
              BY ByZenon, <1>4, <2>3 DEF IsInjective
            <6>4. b = tab[i] => bh[b] = hs[i]
              BY ByZenon, <2>9
            <6>5. QED BY ByZenon, <4>1, <6>1, <6>2, <6>3, <6>4
          <5>3. CASE b \notin bs
            <6>1. b # tab[i]
              BY ByZenon, <5>3
            <6> HIDE DEF bs
            <6>2. QED BY ByZenon, <2>9, <5>3, <6>1
          <5>4. QED BY ByZenon, <5>2, <5>3
        <4>8. Range(u) = {b \in Blocks : bh[b] = h}
          BY ByZenon, <4>7
        <4>9. ca[h] = u
          BY ByZenon, <4>2 DEF u
        <4>10. QED BY <4>2, <4>6, <4>8, <4>9
      <3>4. QED BY ByZenon, <3>2, <3>3
    <2>12. ca \in [Hashes -> Seq(Blocks)] /\ pu \in [Hashes -> Int]
      <3>1. (\A h \in Hashes : ca[h] \in Seq(Blocks)) /\ \A h \in Hashes : pu[h] \in Int
        BY ByZenon, <2>11
      <3>2. QED BY ByZenon, <3>1
    <2> HIDE DEF ca, pu
    <2>13. /\ t \in KV /\ t.block_hash = bh /\ t.cached = ca /\ t.published = pu
           /\ t.ref_cnt = k.ref_cnt /\ t.free = k.free /\ t.window = k.window
           /\ t.req_to_blocks = k.req_to_blocks
           /\ t.num_cached_block = [k.num_cached_block EXCEPT ![r] = full]
      <3>1. [k.num_cached_block EXCEPT ![r] = full] \in [Requests -> Int]
        BY DEF KV
      <3>2. t = [cc EXCEPT !.num_cached_block = [k.num_cached_block EXCEPT ![r] = full]]
        BY ByZenon, <2>1, <2>6 DEF KV
      <3>3. QED BY ByZenon, <2>10, <2>12, <3>1, <3>2 DEF KV
    <2>14. MapOK(t) /\ EventsOK(t)
      BY ByZenon, <2>11, <2>13 DEF MapOK, EventsOK
    <2>15. QueueOK(t)
      <3>1. NullBlock \notin bs
        BY ByZenon, <2>4
      <3>2. QED BY ByZenon, <2>9, <2>13, <3>1, PoolAssumption DEF QueueOK, PoolAssumption
    <2>16. t.num_cached_block[r] = full /\ \A s \in Requests \ {r} : t.num_cached_block[s] = k.num_cached_block[s]
      BY ByZenon, <2>13 DEF KV
    <2>17. TablesOK(t)
      <3>1. ASSUME NEW s \in Requests
            PROVE  /\ Once(t.req_to_blocks[s], Real) /\ t.num_cached_block[s] >= NotTracked
                   /\ t.num_cached_block[s] <= Len(t.req_to_blocks[s])
        <4>1. CASE s # r
          BY ByZenon, <2>13, <2>16, <4>1 DEF TablesOK
        <4>2. CASE s = r
          BY <2>13, <2>16, <4>2 DEF TablesOK, NotTracked, tab
        <4>3. QED BY ByZenon, <4>1, <4>2
      <3>2. QED BY ByZenon, <3>1 DEF TablesOK
    <2>18. PrefixOK(t)
      <3>1. SUFFICES ASSUME NEW s \in Requests, NEW i \in DOMAIN k.req_to_blocks[s],
                            k.req_to_blocks[s][i] # NullBlock
                     PROVE  bh[k.req_to_blocks[s][i]] \in OwnHash(s, i)
        BY ByZenon, <2>13 DEF PrefixOK
      <3> DEFINE b == k.req_to_blocks[s][i]
      <3>2. b \in Blocks /\ b \in Range(k.req_to_blocks[s])
        BY <3>1, SeqFun DEF KV, SeqIs
      <3>3. CASE b \notin bs
        <4>1. k.block_hash[b] \in OwnHash(s, i)
          BY ByZenon, <3>1 DEF PrefixOK
        <4> HIDE DEF bs
        <4>2. QED BY ByZenon, <2>9, <3>2, <3>3, <4>1
      <3>4. CASE b \in bs
        <4>1. PICK j \in new : b = tab[j]
          BY ByZenon, <3>4
        <4> USE <4>1
        <4>2. s = r
          BY ByZenon, <2>5, <3>2
        <4>3. i \in DOMAIN tab /\ tab[i] = tab[j] /\ tab[j] \in Real /\ j \in DOMAIN tab
          BY ByZenon, <1>3, <2>3, <2>4, <3>1, <4>2 DEF tab
        <4>4. i = j
          BY ByZenon, <1>3, <4>3 DEF Once
        <4>5. bh[b] = hs[i] /\ i \in DOMAIN hs
          BY ByZenon, <1>4, <2>3, <2>9, <4>4
        <4>6. QED BY ByZenon, <4>2, <4>5 DEF hs, OwnHash
      <3>5. QED BY ByZenon, <3>3, <3>4
    <2>19. /\ \A b \in Real : q.ref[b] = k.ref_cnt[b] /\ q.hash[b] = k.block_hash[b] /\ b \in Blocks
           /\ q.free = Range(k.free) /\ q.ref = [b \in Real |-> k.ref_cnt[b]]
           /\ q.holds = [s \in Requests |-> Range(k.req_to_blocks[s]) \ {NullBlock}]
           /\ q.fresh = [s \in Requests |-> {b \in Real : \E i \in DOMAIN k.req_to_blocks[s] :
                           k.req_to_blocks[s][i] = b /\ i > k.num_cached_block[s]}]
      BY ByZenon DEF Owned, Real, q
    <2> DEFINE hh == [b \in bs |-> bh[b]]
    <2>20. bs \subseteq q.fresh[r] /\ hh \in [bs -> Prefixes[r]]
      <3>1. q.fresh[r] = {b \in Real : \E i \in DOMAIN tab : tab[i] = b /\ i > k.num_cached_block[r]}
        BY ByZenon, <2>19 DEF tab
      <3>2. bs \subseteq q.fresh[r]
        BY <1>3, <2>3, <2>4, <3>1
      <3>3. \A i \in new : bh[tab[i]] \in Prefixes[r]
        BY ByZenon, <1>4, <2>3, <2>9 DEF Prefixes, Range, hs
      <3>4. \A b \in bs : bh[b] \in Prefixes[r]
        BY ByZenon, <3>3
      <3> HIDE DEF bs
      <3>5. QED BY ByZenon, <3>2, <3>4
    <2>21. Owned(t) = OP!Fill(q, r, bs, hh)
      <3>0. \A b \in bs : hh[b] = bh[b]
        BY ByZenon
      <3>1. [b \in Real |-> t.ref_cnt[b]] = q.ref /\ Range(t.free) = q.free
        BY ByZenon, <2>13, <2>19
      <3>2. [b \in Real |-> t.block_hash[b]] = [b \in Real |-> IF b \in bs THEN hh[b] ELSE q.hash[b]]
        <4> HIDE DEF bs, hh
        <4>1. QED BY <2>9, <2>13, <2>19, <3>0
      <3>3. [s \in Requests |-> Range(t.req_to_blocks[s]) \ {NullBlock}] = q.holds
        BY ByZenon, <2>13, <2>19
      <3> DEFINE Fresh(s) == {b \in Real : \E i \in DOMAIN t.req_to_blocks[s] :
                     t.req_to_blocks[s][i] = b /\ i > t.num_cached_block[s]}
      <3>4. \A s \in Requests \ {r} : Fresh(s) = q.fresh[s]
        BY <2>13, <2>16, <2>19
      <3>5. q.fresh[r] = {b \in Real : \E i \in 1..Len(tab) : tab[i] = b /\ i > k.num_cached_block[r]}
        BY <1>3, <2>19 DEF tab
      <3>6. Fresh(r) = {b \in Real : \E i \in 1..Len(tab) : tab[i] = b /\ i > full}
        BY ByZenon, <1>3, <2>13, <2>16 DEF tab
      <3>7. Fresh(r) = q.fresh[r] \ bs
        <4>1. ASSUME NEW b \in Fresh(r) PROVE b \in q.fresh[r] \ bs
          <5>1. PICK i \in 1..Len(tab) : tab[i] = b /\ i > full /\ b \in Real
            BY ByZenon, <3>6, <4>1
          <5> USE <5>1
          <5>2. i > k.num_cached_block[r]
            OBVIOUS
          <5>3. ASSUME b \in bs PROVE FALSE
            <6>1. PICK j \in new : b = tab[j]
              BY ByZenon, <5>3
            <6>2. j = i /\ j <= full
              BY ByZenon, <1>3, <2>3, <6>1 DEF Once
            <6>3. QED BY <6>2
          <5>4. QED BY ByZenon, <3>5, <5>2, <5>3
        <4>2. ASSUME NEW b \in q.fresh[r] \ bs PROVE b \in Fresh(r)
          <5>1. PICK i \in 1..Len(tab) : tab[i] = b /\ i > k.num_cached_block[r] /\ b \in Real
            BY ByZenon, <3>5, <4>2
          <5> USE <5>1
          <5>2. i > full
            <6>1. SUFFICES ASSUME ~(i > full) PROVE FALSE
              BY ByZenon
            <6>2. i > first
              BY DEF first, MaxOf
            <6>3. i \in (first + 1)..full
              BY <6>1, <6>2
            <6>4. i \in new
              BY ByZenon, <6>3 DEF Real
            <6>5. QED BY ByZenon, <4>2, <6>4
          <5>3. QED BY ByZenon, <3>6, <5>2
        <4> HIDE DEF Fresh, bs
        <4>3. QED BY ByZenon, <4>1, <4>2
      <3>8. [s \in Requests |-> Fresh(s)] = [q.fresh EXCEPT ![r] = @ \ bs]
        <4> HIDE DEF Fresh, bs
        <4>1. QED BY ByZenon, <2>19, <3>4, <3>7
      <3> HIDE DEF bs, hh
      <3>9. QED BY ByZenon, <3>1, <3>2, <3>3, <3>8 DEF Owned, OP!Fill
    <2> HIDE DEF bs, hh
    <2>22. OP!PoolInv(Owned(t))
      <3>1. OP!PoolInv(OP!Fill(q, r, bs, hh))
        BY ByZenon, <2>20, OwnershipFits, OP!FillPreserves DEF q
      <3>2. QED BY ByZenon, <2>21, <3>1
    <2>23. Sound(t)
      BY ByZenon, <2>13, <2>14, <2>15, <2>17, <2>18, <2>22 DEF Sound
    <2>24. full # NotTracked
      BY DEF NotTracked
    <2>25. CacheEffect(k, r, t)
      BY ByZenon, <2>13, <2>16, <2>20, <2>21, <2>23, <2>24 DEF CacheEffect, q
    <2>26. QED BY ByZenon, <2>25 DEF t
  <1>8. QED BY ByZenon, <1>6, <1>7

-----------------------------------------------------------------------------
(* get_computed_blocks.                                                     *)

(* A hit is a block that is cached under the hash that was asked for, never *)
(* the null block.                                                          *)
LEMMA HitFacts ==
    ASSUME NEW k, Sound(k), NEW r \in Requests, NEW i \in 1..Len(BlockHashes[r]), Hit(k, r, i)
    PROVE  /\ HitBlock(k, r, i) \in Blocks /\ k.block_hash[HitBlock(k, r, i)] = BlockHashes[r][i]
           /\ HitBlock(k, r, i) # NullBlock
  <1> DEFINE h == BlockHashes[r][i]
  <1>1. h \in Hashes
    BY ByZenon, HashTypes DEF HashesTyped
  <1>2. k.cached[h] \in Seq(Blocks) /\ Range(k.cached[h]) = {b \in Blocks : k.block_hash[b] = h}
    BY ByZenon, <1>1 DEF Sound, KV, MapOK
  <1> USE <1>2
  <1>3. k.cached[h] # <<>>
    BY ByZenon DEF Hit, IsCached
  <1>4. HitBlock(k, r, i) = Head(k.cached[h])
    BY ByZenon DEF HitBlock, get_one_block
  <1> DEFINE s == k.cached[h]
  <1> HIDE DEF s, h
  <1>5. Head(s) = s[1] /\ 1 \in 1..Len(s)
    BY <1>3 DEF s
  <1>6. s[1] \in Range(s)
    BY ByZenon, <1>5, SeqFun DEF s, SeqIs
  <1>7. HitBlock(k, r, i) \in Blocks /\ k.block_hash[HitBlock(k, r, i)] = h
    BY ByZenon, <1>4, <1>5, <1>6 DEF s
  <1>8. k.block_hash[NullBlock] # h
    BY ByZenon, <1>1, HashTypes DEF Sound, QueueOK, HashesTyped
  <1>9. QED BY ByZenon, <1>7, <1>8 DEF h

(* The window only moves forward with the computed tokens.                  *)
LEMMA SkippedGrow ==
    ASSUME NEW k \in KV, NEW m \in Nat, NEW n \in Nat, m <= n
    PROVE  get_num_skipped_tokens(k, m) <= get_num_skipped_tokens(k, n)
  BY DEF get_num_skipped_tokens, MaxOf, KV

(* The null blocks of a list of hits lie behind the window of the request   *)
(* that gets them.                                                          *)
BehindWindow(k, hits) ==
    \A i \in NullPlaces(hits) : i * BlockSize <= get_num_skipped_tokens(k, Len(hits) * BlockSize)

(* The lookup for full attention, which has no null blocks.                 *)
LEMMA FullHits ==
    ASSUME Counting, NEW k, Sound(k), NEW r \in Requests, NEW n \in Nat, n <= Len(BlockHashes[r])
    PROVE  /\ HitsOK(k, r, FullAttentionHit(k, r, n)) /\ Len(FullAttentionHit(k, r, n)) <= n
           /\ NullPlaces(FullAttentionHit(k, r, n)) = {}
  <1> DEFINE K == {j \in 0..n : \A i \in 1..j : Hit(k, r, i)}
             len == Greatest(K)
             hits == [i \in 1..len |-> HitBlock(k, r, i)]
  <1>0. Len(BlockHashes[r]) \in Nat /\ DOMAIN BlockHashes[r] = 1..Len(BlockHashes[r])
    BY ByZenon, HashTypes DEF HashesTyped
  <1>1. K \in SUBSET (0..n) /\ K # {}
    <2>1. 0 \in K
      OBVIOUS
    <2>2. QED BY ByZenon, <2>1
  <1>2. len \in K
    <2> HIDE DEF K
    <2>1. QED BY ByZenon, <1>1, GreatestFacts
  <1>3. len \in Nat /\ len <= n /\ \A i \in 1..len : Hit(k, r, i)
    BY <1>2
  <1> USE <1>3
  <1>4. FullAttentionHit(k, r, n) = hits
    BY ByZenon DEF FullAttentionHit
  <1> HIDE DEF len
  <1>5. \A i \in 1..len : i \in 1..Len(BlockHashes[r])
    BY <1>0
  <1>6. \A i \in 1..len : HitBlock(k, r, i) \in Blocks
                          /\ k.block_hash[HitBlock(k, r, i)] = BlockHashes[r][i]
                          /\ HitBlock(k, r, i) # NullBlock
    BY ByZenon, <1>5, HitFacts
  <1>7. hits \in Seq(Blocks) /\ Len(hits) = len /\ DOMAIN hits = 1..len
    BY ByZenon, <1>6, FunSeq
  <1>8. HitsOK(k, r, hits)
    BY ByZenon, <1>0, <1>5, <1>6, <1>7 DEF HitsOK
  <1>9. NullPlaces(hits) = {}
    BY ByZenon, <1>6, <1>7 DEF NullPlaces
  <1> HIDE DEF hits
  <1>10. QED BY ByZenon, <1>4, <1>7, <1>8, <1>9

(* The lookup for a sliding window, which has null blocks before the        *)
(* window.                                                                  *)
LEMMA WindowHits ==
    ASSUME Counting, NEW k, Sound(k), k.window # 0, NEW r \in Requests, NEW n \in Nat, n <= Len(BlockHashes[r])
    PROVE  /\ HitsOK(k, r, SlidingWindowHit(k, r, n)) /\ Len(SlidingWindowHit(k, r, n)) <= n
           /\ BehindWindow(k, SlidingWindowHit(k, r, n))
  <1> DEFINE need == MaxOf(1, cdiv(k.window - 1, BlockSize))
             ends == {e \in need..n : \A i \in (e - need + 1)..e : Hit(k, r, i)}
             end == Greatest(ends)
             hits == [i \in 1..end |-> IF i <= end - need THEN NullBlock ELSE HitBlock(k, r, i)]
  <1>0. Len(BlockHashes[r]) \in Nat /\ DOMAIN BlockHashes[r] = 1..Len(BlockHashes[r])
    BY ByZenon, HashTypes DEF HashesTyped
  <1>1. need \in Nat /\ need >= 1 /\ k.window \in Nat /\ k.window - 1 <= need * BlockSize
    <2>1. k.window - 1 \in Nat
      BY DEF Sound, KV
    <2> DEFINE c == cdiv(k.window - 1, BlockSize)
    <2>2. c \in Nat /\ k.window - 1 <= c * BlockSize
      BY ByZenon, <2>1, RoundUp, CacheAssumption DEF CacheAssumption, RoundsUp
    <2> HIDE DEF c
    <2>3. need \in Nat /\ need >= 1 /\ c <= need
      BY <2>2 DEF MaxOf, c
    <2>4. c * BlockSize <= need * BlockSize /\ c * BlockSize \in Int /\ need * BlockSize \in Int
      BY <2>2, <2>3, CacheAssumption, Products DEF CacheAssumption, ProductsOrdered
    <2>5. k.window \in Nat
      BY ByZenon DEF Sound, KV
    <2> DEFINE w == k.window
               u == c * BlockSize
               v == need * BlockSize
    <2>6. w \in Nat /\ u \in Int /\ v \in Int /\ w - 1 <= u /\ u <= v
      BY ByZenon, <2>2, <2>4, <2>5
    <2> HIDE DEF u, v, w, need
    <2>7. w - 1 <= v
      BY <2>6
    <2>8. QED BY ByZenon, <2>3, <2>5, <2>7 DEF v, w
  <1> USE <1>1
  <1> HIDE DEF need
  <1>2. CASE ends = {}
    <2>1. SlidingWindowHit(k, r, n) = FullAttentionHit(k, r, n)
      BY ByZenon, <1>2 DEF SlidingWindowHit, need
    <2>2. QED BY ByZenon, <2>1, FullHits DEF BehindWindow
  <1>3. CASE ends # {}
    <2>1. SlidingWindowHit(k, r, n) = hits
      BY ByZenon, <1>3 DEF SlidingWindowHit, need
    <2>2. ends \in SUBSET (0..n)
      OBVIOUS
    <2>3. end \in ends
      <3> HIDE DEF ends
      <3>1. QED BY ByZenon, <1>3, <2>2, GreatestFacts
    <2> HIDE DEF end
    <2>4. end \in Nat /\ end <= n /\ need <= end /\ \A i \in (end - need + 1)..end : Hit(k, r, i)
      BY <2>3
    <2> USE <2>4
    <2>5. \A i \in 1..end : i \in 1..Len(BlockHashes[r]) /\ (i <= end - need \/ i \in (end - need + 1)..end)
      BY <1>0
    <2>6. \A i \in 1..end : ~(i <= end - need) => /\ HitBlock(k, r, i) \in Blocks
                                 /\ k.block_hash[HitBlock(k, r, i)] = BlockHashes[r][i]
                                 /\ HitBlock(k, r, i) # NullBlock
      BY ByZenon, <2>5, HitFacts
    <2>7. hits \in Seq(Blocks) /\ Len(hits) = end /\ DOMAIN hits = 1..end
      <3>1. \A i \in 1..end : hits[i] \in Blocks
        BY ByZenon, <2>6, PoolAssumption DEF PoolAssumption
      <3>2. hits \in [1..end -> Blocks]
        BY ByZenon, <3>1
      <3> HIDE DEF hits
      <3>3. QED BY ByZenon, <3>2, FunSeq
    <2>8. HitsOK(k, r, hits)
      <3>1. \A i \in 1..end : hits[i] # NullBlock => k.block_hash[hits[i]] = BlockHashes[r][i]
        BY ByZenon, <2>6
      <3> HIDE DEF hits
      <3>2. QED BY ByZenon, <1>0, <2>5, <2>7, <3>1 DEF HitsOK
    <2>8a. \A i \in NullPlaces(hits) : i \in Nat /\ i <= end - need
      BY <2>6, <2>7 DEF NullPlaces
    <2> HIDE DEF hits
    <2>9. BehindWindow(k, hits)
      <3> DEFINE B == BlockSize
      <3>1. SUFFICES ASSUME NEW i \in NullPlaces(hits)
                     PROVE  i * B <= get_num_skipped_tokens(k, end * B)
        BY ByZenon, <2>7 DEF BehindWindow
      <3>2. i \in Nat /\ i + need <= end /\ B \in Nat \ {0}
        BY <2>8a, CacheAssumption DEF CacheAssumption
      <3>3. /\ (i + need) * B <= end * B
            /\ i * B \in Int /\ need * B \in Int /\ end * B \in Int
        BY <3>2, Products DEF ProductsOrdered
      <3>4. (i + need) * B = i * B + need * B
        BY <3>2
      <3>5. get_num_skipped_tokens(k, end * B) = MaxOf(0, end * B - k.window + 1)
        BY ByZenon DEF get_num_skipped_tokens
      <3> DEFINE x == i * B
                 y == need * B
                 z == end * B
                 w == k.window
      <3>6. x \in Int /\ y \in Int /\ z \in Int /\ w \in Nat /\ x + y <= z /\ w - 1 <= y
        BY ByZenon, <1>1, <3>3, <3>4
      <3> HIDE DEF x, y, z, w
      <3>7. x <= MaxOf(0, z - w + 1)
        BY <3>6 DEF MaxOf
      <3>8. QED BY ByZenon, <3>5, <3>7 DEF x, z, w
    <2>10. QED BY ByZenon, <2>1, <2>7, <2>8, <2>9
  <1>4. QED BY ByZenon, <1>2, <1>3

-----------------------------------------------------------------------------
(* Blocks taken by allocate_slots, and whether they suffice.                *)

(* From k to t the request r takes some offered blocks and some new ones.   *)
TakeEffect(k, r, t) ==
    /\ Sound(t) /\ t.window = k.window /\ OnlyTable(k, t, r)
    /\ \A s \in Requests \ {r} : t.num_cached_block[s] = k.num_cached_block[s]
    /\ \E H \in SUBSET OP!Offered(Owned(k), r) : \E N \in SUBSET (Owned(k).free \ H) :
          Owned(t) = OP!Take(Owned(k), r, H, N)

(* Taking nothing changes nothing.                                          *)
LEMMA TakeNothing ==
    ASSUME NEW q \in OP!Pool, NEW r \in Requests
    PROVE  q = OP!Take(q, r, {}, {})
  <1>1. q = [ref |-> q.ref, free |-> q.free, hash |-> q.hash, holds |-> q.holds, fresh |-> q.fresh]
        /\ q.ref \in [Real -> Int] /\ q.hash \in [Real -> Hashes \cup {NoHash}]
        /\ q.fresh \in [Requests -> SUBSET Real] /\ q.holds \in [Requests -> SUBSET Real]
    BY ByZenon DEF OP!Pool
  <1> USE <1>1
  <1>2. q.ref = [b \in Real |-> IF b \in {} \cup {} THEN q.ref[b] + 1 ELSE q.ref[b]]
    BY ByZenon
  <1>3. q.hash = [b \in Real |-> IF b \in {} THEN NoHash ELSE q.hash[b]]
    BY ByZenon
  <1>4. q.holds = [q.holds EXCEPT ![r] = @ \cup {} \cup {}] /\ q.fresh = [q.fresh EXCEPT ![r] = @ \cup {}]
    BY ByZenon
  <1>5. q.free = q.free \ ({} \cup {})
    BY ByZenon
  <1>6. QED BY ByZenon, <1>2, <1>3, <1>4, <1>5 DEF OP!Take

(* Taking new blocks in two calls is taking them in one.                    *)
LEMMA TakeMore ==
    ASSUME NEW q \in OP!Pool, NEW r \in Requests, NEW H, NEW N, NEW M,
           M \cap (H \cup N) = {}
    PROVE  OP!Take(OP!Take(q, r, H, N), r, {}, M) = OP!Take(q, r, H, N \cup M)
  <1> DEFINE t == OP!Take(q, r, H, N)
  <1>1. q.ref \in [Real -> Int] /\ q.hash \in [Real -> Hashes \cup {NoHash}]
        /\ q.fresh \in [Requests -> SUBSET Real] /\ q.holds \in [Requests -> SUBSET Real]
    BY ByZenon DEF OP!Pool
  <1>2. /\ t.ref = [b \in Real |-> IF b \in H \cup N THEN q.ref[b] + 1 ELSE q.ref[b]]
        /\ t.free = q.free \ (H \cup N)
        /\ t.hash = [b \in Real |-> IF b \in N THEN NoHash ELSE q.hash[b]]
        /\ t.holds = [q.holds EXCEPT ![r] = @ \cup H \cup N]
        /\ t.fresh = [q.fresh EXCEPT ![r] = @ \cup N]
    BY ByZenon DEF OP!Take
  <1> USE <1>2
  <1> HIDE DEF t
  <1>3. [b \in Real |-> IF b \in {} \cup M THEN t.ref[b] + 1 ELSE t.ref[b]]
          = [b \in Real |-> IF b \in H \cup (N \cup M) THEN q.ref[b] + 1 ELSE q.ref[b]]
    BY ByZenon
  <1>4. t.free \ ({} \cup M) = q.free \ (H \cup (N \cup M))
    BY ByZenon
  <1>5. [b \in Real |-> IF b \in M THEN NoHash ELSE t.hash[b]]
          = [b \in Real |-> IF b \in N \cup M THEN NoHash ELSE q.hash[b]]
    BY ByZenon
  <1>6. [t.holds EXCEPT ![r] = @ \cup {} \cup M] = [q.holds EXCEPT ![r] = @ \cup H \cup (N \cup M)]
    BY ByZenon, <1>1
  <1>7. [t.fresh EXCEPT ![r] = @ \cup M] = [q.fresh EXCEPT ![r] = @ \cup (N \cup M)]
    BY ByZenon, <1>1
  <1>8. OP!Take(t, r, {}, M) =
          [ref   |-> [b \in Real |-> IF b \in {} \cup M THEN t.ref[b] + 1 ELSE t.ref[b]],
           free  |-> t.free \ ({} \cup M),
           hash  |-> [b \in Real |-> IF b \in M THEN NoHash ELSE t.hash[b]],
           holds |-> [t.holds EXCEPT ![r] = @ \cup {} \cup M],
           fresh |-> [t.fresh EXCEPT ![r] = @ \cup M]]
    BY ByZenon DEF OP!Take
  <1>9. OP!Take(t, r, {}, M) = OP!Take(q, r, H, N \cup M)
    BY ByZenon, <1>3, <1>4, <1>5, <1>6, <1>7, <1>8 DEF OP!Take
  <1>10. QED BY ByZenon, <1>9 DEF t

(* No block taken.                                                          *)
LEMMA TakeEffectRefl ==
    ASSUME NEW k, Sound(k), NEW r \in Requests
    PROVE  TakeEffect(k, r, k)
  <1>1. Owned(k) \in OP!Pool
    BY ByZenon DEF Sound, OP!PoolInv
  <1>2. Owned(k) = OP!Take(Owned(k), r, {}, {})
    BY ByZenon, <1>1, TakeNothing
  <1>3. {} \in SUBSET OP!Offered(Owned(k), r) /\ {} \in SUBSET (Owned(k).free \ {})
    BY ByZenon
  <1>4. QED BY ByZenon, <1>2, <1>3 DEF TakeEffect, OnlyTable

(* The conclusion of TakeEffectExtend.                                      *)
ExtendTakes(k, r, t, n) ==
    /\ TakeEffect(k, r, ExtendTable(t, r, n))
    /\ Len(ExtendTable(t, r, n).req_to_blocks[r]) = Len(t.req_to_blocks[r]) + n
    /\ Len(ExtendTable(t, r, n).free) = Len(t.free) - n
    /\ ExtendTable(t, r, n).num_cached_block = t.num_cached_block
    /\ NullPlaces(ExtendTable(t, r, n).req_to_blocks[r]) \subseteq NullPlaces(t.req_to_blocks[r])

(* New blocks taken after others.                                           *)
LEMMA TakeEffectExtend ==
    ASSUME Counting, NEW k, Sound(k), NEW r \in Requests, NEW t, TakeEffect(k, r, t),
           NEW n \in Nat, n <= Len(t.free)
    PROVE  ExtendTakes(k, r, t, n)
  <1> USE DEF ExtendTakes
  <1> DEFINE u == ExtendTable(t, r, n)
             M == Range(new_blocks(t, n))
             q == Owned(k)
  <1>1. Sound(t) /\ t.window = k.window /\ OnlyTable(k, t, r)
        /\ \A s \in Requests \ {r} : t.num_cached_block[s] = k.num_cached_block[s]
    BY ByZenon DEF TakeEffect
  <1> USE <1>1
  <1>2. PICK H \in SUBSET OP!Offered(q, r) : \E N \in SUBSET (q.free \ H) : Owned(t) = OP!Take(q, r, H, N)
    BY ByZenon DEF TakeEffect
  <1>3. PICK N \in SUBSET (q.free \ H) : Owned(t) = OP!Take(q, r, H, N)
    BY ByZenon, <1>2
  <1>4. /\ Sound(u) /\ M \subseteq Owned(t).free /\ Owned(u) = OP!Take(Owned(t), r, {}, M)
        /\ Len(u.req_to_blocks[r]) = Len(t.req_to_blocks[r]) + n
        /\ Len(u.free) = Len(t.free) - n
        /\ u.window = t.window /\ u.num_cached_block = t.num_cached_block /\ OnlyTable(t, u, r)
        /\ NullPlaces(u.req_to_blocks[r]) \subseteq NullPlaces(t.req_to_blocks[r])
    <2>1. ExtendIs(t, r, n)
      BY ByZenon, ExtendSound
    <2>2. QED BY ByZenon, <2>1 DEF ExtendIs
  <1> USE <1>4
  <1> HIDE DEF u, M, q
  <1>5. Owned(t).free = q.free \ (H \cup N)
    BY <1>3 DEF OP!Take
  <1>6. q \in OP!Pool
    BY ByZenon DEF Sound, OP!PoolInv, q
  <1>7. M \cap (H \cup N) = {} /\ N \cup M \in SUBSET (q.free \ H)
    BY ByZenon, <1>5
  <1>8. Owned(u) = OP!Take(q, r, H, N \cup M)
    BY <1>3, <1>6, <1>7, TakeMore
  <1>9. \E HH \in SUBSET OP!Offered(q, r) : \E NN \in SUBSET (q.free \ HH) :
           Owned(u) = OP!Take(q, r, HH, NN)
    BY ByZenon, <1>7, <1>8
  <1>10. OnlyTable(k, u, r)
    BY ByZenon DEF OnlyTable
  <1>11. TakeEffect(k, r, u)
    BY ByZenon, <1>9, <1>10 DEF TakeEffect, q
  <1>12. QED BY ByZenon, <1>11 DEF u

(* Hits taken.                                                              *)
LEMMA TakeEffectAttach ==
    ASSUME Counting, NEW k, Sound(k), NEW r \in Requests, k.req_to_blocks[r] = <<>>,
           NEW hits, HitsOK(k, r, hits), NEW c \in Nat
    PROVE  TakeEffect(k, r, Attached(k, r, hits, c))
  <1> DEFINE t == Attached(k, r, hits, c)
             H == Range(Tail_(hits, c)) \ {NullBlock}
  <1>1. /\ Sound(t) /\ H \subseteq OP!Offered(Owned(k), r) /\ Owned(t) = OP!Take(Owned(k), r, H, {})
        /\ t.num_cached_block = [k.num_cached_block EXCEPT ![r] = MaxOf(c, Len(hits))]
        /\ t.window = k.window /\ OnlyTable(k, t, r)
    <2>1. AttachEffect(k, r, hits, c, t)
      BY ByZenon, AttachSound
    <2>2. QED BY ByZenon, <2>1 DEF AttachEffect
  <1> USE <1>1
  <1> HIDE DEF t, H
  <1>2. \A s \in Requests \ {r} : t.num_cached_block[s] = k.num_cached_block[s]
    BY ByZenon DEF Sound, KV
  <1>3. H \in SUBSET OP!Offered(Owned(k), r) /\ {} \in SUBSET (Owned(k).free \ H)
    BY ByZenon
  <1>4. QED BY ByZenon, <1>2, <1>3 DEF TakeEffect, t

(* What the callers of allocate_slots respect: the computed tokens lie in   *)
(* the table, and hits or external tokens are passed only for a request     *)
(* that starts, with hits only when it has no table yet.                    *)
MayAllocate(k, r, computed_, hits, ext) ==
    /\ computed_ \in Nat /\ ext \in Nat /\ HitsOK(k, r, hits)
    /\ computed_ <= Len(k.req_to_blocks[r]) * BlockSize
    /\ hits # <<>> \/ ext > 0 =>
          \/ k.num_cached_block[r] # NotTracked /\ hits = <<>>
          \/ k.num_cached_block[r] = NotTracked /\ k.req_to_blocks[r] = <<>> /\ computed_ = 0

(* allocate_slots up to the hits and the external tokens.                   *)
Attach(k, r, computed_, hits, ext) ==
    IF hits # <<>> \/ ext > 0
    THEN allocate_new_computed_blocks(k, r, hits, computed_ + Len(hits) * BlockSize, ext)
    ELSE k

(* The length of a table that starts with hits.                             *)
LEMMA TableLength ==
    ASSUME NEW hits \in Seq(Blocks), NEW c \in Nat
    PROVE  Len(Nulls(c) \o Tail_(hits, c)) = MaxOf(c, Len(hits))
  <1>1. Tail_(hits, c) \in Seq(Blocks) /\ Len(Tail_(hits, c)) = IF c <= Len(hits) THEN Len(hits) - c ELSE 0
    BY ByZenon, CutFacts DEF Tail_, CutIs
  <1>2. Nulls(c) \in Seq(Blocks) /\ Len(Nulls(c)) = c
    BY PoolAssumption, FunSeq DEF PoolAssumption, Nulls
  <1>3. Len(Nulls(c) \o Tail_(hits, c)) = Len(Nulls(c)) + Len(Tail_(hits, c))
    BY ByZenon, <1>1, <1>2, ConcatFacts DEF ConcatIs
  <1>4. Len(hits) \in Nat
    OBVIOUS
  <1>5. QED BY <1>1, <1>2, <1>3, <1>4 DEF MaxOf

(* A set of places of a sequence has a number of elements.                  *)
LEMMA CountFinite ==
    ASSUME Counting, NEW T, NEW s \in Seq(T), NEW I \in SUBSET DOMAIN s
    PROVE  Cardinality(I) \in Nat
  <1>1. Len(s) \in Nat /\ DOMAIN s = 1..Len(s)
    BY ByZenon, SeqFun DEF SeqIs
  <1>2. IsFiniteSet(1..Len(s))
    BY ByZenon, <1>1, CountInterval
  <1>3. QED BY ByZenon, <1>1, <1>2, CountSubset, CountType

(* The places that may be empty after hits were attached to the table of r  *)
(* and total tokens were skipped.                                           *)
GapsAfter(k, r, hits, total) ==
    NullPlaces(k.req_to_blocks[r]) \cup NullPlaces(hits) \cup (1..SkippedBlocks(k, total))

(* The conclusion of AttachEnough.                                          *)
AttachFits(k, r, c0, hits, ext, need, reserved) ==
    /\ TakeEffect(k, r, Attach(k, r, c0, hits, ext))
    /\ cdiv(need, BlockSize) - Len(Attach(k, r, c0, hits, ext).req_to_blocks[r])
         <= Len(Attach(k, r, c0, hits, ext).free)
    /\ k.num_cached_block[r] # NotTracked \/ ext > 0 =>
         Attach(k, r, c0, hits, ext).num_cached_block[r] # NotTracked
    /\ NullPlaces(Attach(k, r, c0, hits, ext).req_to_blocks[r])
         \subseteq GapsAfter(k, r, hits, c0 + Len(hits) * BlockSize + ext)

(* The number of blocks that get_num_blocks_to_allocate predicts is enough: *)
(* when it fits in the free queue, the hits can be attached, and the blocks *)
(* that are still needed after that are in the queue, although attaching    *)
(* took the free hits out of it.                                            *)
LEMMA AttachEnough ==
    ASSUME Counting, NEW k, Sound(k), NEW r \in Requests, NEW c0, NEW hits, NEW ext,
           MayAllocate(k, r, c0, hits, ext),
           NEW need \in Nat, c0 + Len(hits) * BlockSize + ext <= need, NEW reserved \in Nat,
           get_num_blocks_to_allocate(k, r, need, hits, c0 + Len(hits) * BlockSize + ext, FALSE)
             <= Len(k.free) - reserved
    PROVE  AttachFits(k, r, c0, hits, ext, need, reserved)
  <1> USE DEF AttachFits
  <1> DEFINE B == BlockSize
             local == c0 + Len(hits) * B
             total == local + ext
             tab == k.req_to_blocks[r]
             held == Len(tab)
             skippedTokens == get_num_skipped_tokens(k, total)
             skipped == skippedTokens \div B
             required == cdiv(need, B)
             t == Attach(k, r, c0, hits, ext)
             kept0 == SubSeq(hits, MaxOf(0, skipped - held) + 1, Len(hits))
             evict == Cardinality({i \in DOMAIN kept0 : k.ref_cnt[kept0[i]] = 0 /\ kept0[i] # NullBlock})
  <1>1. k \in KV /\ TablesOK(k) /\ tab \in Seq(Blocks) /\ held \in Nat /\ Len(k.free) \in Nat
    BY ByZenon, SoundLengths
  <1>2. B \in Nat \ {0}
    BY ByZenon, CacheAssumption DEF CacheAssumption
  <1>3. hits \in Seq(Blocks) /\ Len(hits) \in Nat /\ c0 \in Nat /\ ext \in Nat /\ HitsOK(k, r, hits)
        /\ c0 <= held * B
    BY ByZenon, SeqFun DEF MayAllocate, HitsOK, SeqIs
  <1>4. Len(hits) * B \in Nat /\ local \in Nat /\ total \in Nat
    BY <1>2, <1>3, Products DEF ProductsOrdered
  <1>5. skippedTokens \in Nat /\ skippedTokens <= total
    BY ByZenon, <1>1, <1>4, SkippedTokens
  <1>6. skipped \in Nat /\ skipped <= total \div B /\ total \div B \in Nat
    BY ByZenon, <1>2, <1>4, <1>5, Quotient, Monotone DEF QuotientIs
  <1>7. required \in Nat /\ cdiv(total, B) <= required /\ cdiv(total, B) \in Nat /\ total \div B <= cdiv(total, B)
    BY ByZenon, <1>2, <1>4, RoundUp, Monotone DEF RoundsUp
  <1>8. get_num_blocks_to_allocate(k, r, need, hits, total, FALSE)
          = IF k.num_cached_block[r] # NotTracked THEN MaxOf(required - held, 0)
            ELSE MaxOf(required - MaxOf(skipped, Len(hits) + held), 0) + evict
    BY ByZenon DEF get_num_blocks_to_allocate
  <1>9. (IF k.num_cached_block[r] # NotTracked THEN MaxOf(required - held, 0)
         ELSE MaxOf(required - MaxOf(skipped, Len(hits) + held), 0) + evict) <= Len(k.free) - reserved
    BY ByZenon, <1>8
  <1>g. NullPlaces(t.req_to_blocks[r]) \subseteq NullPlaces(tab) \cup NullPlaces(hits) \cup (1..skipped)
          => NullPlaces(Attach(k, r, c0, hits, ext).req_to_blocks[r])
               \subseteq GapsAfter(k, r, hits, c0 + Len(hits) * BlockSize + ext)
    BY ByZenon DEF GapsAfter, SkippedBlocks
  <1> HIDE DEF local, total, skippedTokens, skipped, required, tab, held
  <1>10. CASE hits = <<>> /\ ext = 0
    <2>1. t = k
      BY <1>10 DEF Attach
    <2>2. total = c0
      BY <1>3, <1>4, <1>10, <1>2 DEF total, local
    <2>3. skipped <= held
      <3>1. c0 \div B <= held
        BY ByZenon, <1>1, <1>2, <1>3, QuotientBounds DEF QuotientBounded
      <3>2. QED BY <1>1, <1>6, <2>2, <3>1
    <2>4. kept0 = <<>>
      <3>1. MaxOf(0, skipped - held) \in Nat
        BY <1>1, <1>6 DEF MaxOf
      <3>2. Len(kept0) = 0 /\ kept0 \in Seq(Blocks)
        <4> DEFINE x == MaxOf(0, skipped - held)
        <4> HIDE DEF x
        <4>1. x \in Nat
          BY ByZenon, <3>1 DEF x
        <4>2. /\ SubSeq(hits, x + 1, Len(hits)) \in Seq(Blocks)
              /\ Len(SubSeq(hits, x + 1, Len(hits))) = IF x <= Len(hits) THEN Len(hits) - x ELSE 0
          BY ByZenon, <1>3, <4>1, CutFacts DEF CutIs
        <4>3. Len(hits) = 0
          BY ByZenon, <1>10
        <4>4. QED BY <4>1, <4>2, <4>3 DEF x
      <3> HIDE DEF kept0
      <3>3. QED BY <3>2
    <2>5. evict = 0
      <3>1. {i \in DOMAIN kept0 : k.ref_cnt[kept0[i]] = 0 /\ kept0[i] # NullBlock} = {}
        <4> HIDE DEF kept0
        <4>1. DOMAIN kept0 = {}
          BY <2>4
        <4>2. QED BY ByZenon, <4>1
      <3>2. QED BY ByZenon, <3>1, CountSmall
    <2>6. Len(hits) = 0
      BY ByZenon, <1>10
    <2> HIDE DEF evict
    <2>7. required - held <= Len(k.free)
      BY <1>1, <1>6, <1>7, <1>9, <2>3, <2>5, <2>6 DEF MaxOf
    <2>8. TakeEffect(k, r, k)
      BY ByZenon, TakeEffectRefl
    <2>9. NullPlaces(t.req_to_blocks[r]) \subseteq NullPlaces(tab) \cup NullPlaces(hits) \cup (1..skipped)
      BY ByZenon, <2>1 DEF tab
    <2>10. QED BY <1>10, <1>g, <2>1, <2>7, <2>8, <2>9 DEF required, held, tab
  <1>11. CASE (hits # <<>> \/ ext > 0) /\ k.num_cached_block[r] # NotTracked
    <2>1. hits = <<>>
      BY ByZenon, <1>11 DEF MayAllocate
    <2>2. t = Raise(k, hits # <<>>, "computed blocks for a running request")
      BY ByZenon, <1>11 DEF Attach, allocate_new_computed_blocks
    <2>3. t = k
      <3> HIDE DEF t
      <3>1. ~(hits # <<>>)
        BY ByZenon, <2>1
      <3>2. QED BY ByZenon, <2>2, <3>1, RaiseFalse
    <2> HIDE DEF t, evict
    <2>4. required - held <= Len(k.free)
      BY <1>1, <1>7, <1>9, <1>11 DEF MaxOf
    <2>5. TakeEffect(k, r, k)
      BY ByZenon, TakeEffectRefl
    <2>6. NullPlaces(t.req_to_blocks[r]) \subseteq NullPlaces(tab) \cup NullPlaces(hits) \cup (1..skipped)
      BY ByZenon, <2>3 DEF tab
    <2>7. QED BY ByZenon, <1>11, <1>g, <2>3, <2>4, <2>5, <2>6 DEF required, held, tab, t
  <1>12. CASE (hits # <<>> \/ ext > 0) /\ k.num_cached_block[r] = NotTracked
    <2> DEFINE at == Attached(k, r, hits, skipped)
               extIn == IF skipped > 0 THEN MinOf(total - skippedTokens, ext) ELSE ext
               n == cdiv(total, B) - Len(Nulls(skipped) \o Tail_(hits, skipped))
               m == MaxOf(skipped, Len(hits))
    <2>1. tab = <<>> /\ held = 0 /\ c0 = 0
      BY ByZenon, <1>12 DEF MayAllocate, tab, held
    <2>2. t = Raise(IF extIn > 0 THEN ExtendTable(at, r, n) ELSE at,
                    tab # <<>>, "a new request already has blocks")
      BY ByZenon, <1>12 DEF Attach, allocate_new_computed_blocks, Attached, Tail_, tab, total, local, skipped, skippedTokens
    <2>3. t = IF extIn > 0 THEN ExtendTable(at, r, n) ELSE at
      <3> HIDE DEF t, at, extIn, n
      <3>1. ~(tab # <<>>)
        BY ByZenon, <2>1
      <3>2. QED BY ByZenon, <2>2, <3>1, RaiseFalse
    <2> HIDE DEF t, extIn
    <2>4. AttachEffect(k, r, hits, skipped, at) /\ TakeEffect(k, r, at)
      BY ByZenon, <1>3, <1>6, <2>1, AttachSound, TakeEffectAttach DEF tab
    <2>5. kept0 = Tail_(hits, skipped)
      <3>1. MaxOf(0, skipped - held) = skipped
        BY <1>6, <2>1 DEF MaxOf
      <3>2. QED BY ByZenon, <3>1 DEF Tail_
    <2>6. Len(at.free) = Len(k.free) - evict
      <3> HIDE DEF at, kept0
      <3>1. Len(at.free) = Len(k.free) - Cardinality(
              {i \in DOMAIN kept0 : k.ref_cnt[kept0[i]] = 0 /\ kept0[i] # NullBlock})
        BY ByZenon, <2>4, <2>5 DEF AttachEffect
      <3>2. QED BY ByZenon, <3>1
    <2>7. /\ Len(at.req_to_blocks[r]) = m
          /\ at.num_cached_block = [k.num_cached_block EXCEPT ![r] = m]
          /\ Sound(at)
          /\ NullPlaces(at.req_to_blocks[r]) \subseteq (1..skipped) \cup NullPlaces(hits)
      BY ByZenon, <2>4 DEF AttachEffect
    <2>8. n = cdiv(total, B) - m
      BY ByZenon, <1>3, <1>6, TableLength
    <2>9. evict \in Nat
      <3> DEFINE I == {i \in DOMAIN kept0 : k.ref_cnt[kept0[i]] = 0 /\ kept0[i] # NullBlock}
      <3>1. kept0 \in Seq(Blocks)
        <4>1. Tail_(hits, skipped) \in Seq(Blocks)
          BY ByZenon, <1>3, <1>6, CutFacts DEF Tail_, CutIs
        <4> HIDE DEF kept0
        <4>2. QED BY ByZenon, <2>5, <4>1
      <3>2. I \in SUBSET DOMAIN kept0
        BY ByZenon
      <3> HIDE DEF kept0, I
      <3>3. Cardinality(I) \in Nat
        BY ByZenon, <3>1, <3>2, CountFinite
      <3>4. QED BY ByZenon, <3>3 DEF I, evict
    <2> HIDE DEF evict, at, n, m
    <2>10. m \in Nat /\ m = MaxOf(skipped, Len(hits) + held) /\ m <= cdiv(total, B)
      <3>1. Len(hits) <= cdiv(total, B)
        <4>1. Len(hits) * B <= total
          BY <1>3, <1>4, <2>1 DEF total, local
        <4>2. QED BY ByZenon, <1>2, <1>3, <1>4, <4>1, RoundUp DEF RoundsUp
      <3>2. Len(hits) + held = Len(hits)
        BY <1>3, <2>1
      <3>3. skipped <= cdiv(total, B)
        BY <1>6, <1>7
      <3>4. QED BY ByZenon, <1>3, <1>6, <3>1, <3>2, <3>3 DEF m, MaxOf
    <2>11. MaxOf(required - m, 0) + evict <= Len(k.free) - reserved
      BY ByZenon, <1>9, <1>12, <2>10
    <2>12. required - m <= Len(at.free) /\ n \in Nat /\ n <= required - m /\ Len(at.free) \in Nat
      <3>1. Len(at.free) \in Nat
        BY <2>7 DEF Sound, KV
      <3> DEFINE w == MaxOf(required - m, 0)
                 v == cdiv(total, B)
      <3>2. w \in Int /\ required - m <= w
        BY <1>7, <2>10 DEF MaxOf
      <3>3. w + evict <= Len(k.free) - reserved
        BY ByZenon, <2>11
      <3>4. v \in Nat /\ v <= required /\ m <= v /\ n = v - m
        BY ByZenon, <1>7, <2>8, <2>10
      <3> HIDE DEF w, v
      <3>5. required - m <= Len(at.free)
        BY <1>1, <1>7, <2>6, <2>9, <2>10, <3>1, <3>2, <3>3
      <3>6. QED BY <1>7, <2>10, <3>1, <3>4, <3>5
    <2>13. at.num_cached_block[r] = m /\ m # NotTracked
      BY <1>1, <2>7, <2>10 DEF KV, NotTracked
    <2>14. CASE extIn > 0
      <3> DEFINE u == ExtendTable(at, r, n)
      <3>1. n <= Len(at.free)
        BY <1>7, <2>10, <2>12
      <3>2. /\ TakeEffect(k, r, u) /\ Len(u.req_to_blocks[r]) = Len(at.req_to_blocks[r]) + n
            /\ Len(u.free) = Len(at.free) - n /\ u.num_cached_block = at.num_cached_block
            /\ NullPlaces(u.req_to_blocks[r]) \subseteq NullPlaces(at.req_to_blocks[r])
        <4>1. ExtendTakes(k, r, at, n)
          BY ByZenon, <2>4, <2>12, <3>1, TakeEffectExtend
        <4>2. QED BY ByZenon, <4>1 DEF ExtendTakes
      <3> HIDE DEF u
      <3>3. required - Len(u.req_to_blocks[r]) <= Len(u.free)
        BY <1>7, <2>7, <2>10, <2>12, <3>2
      <3>4. t = u
        BY ByZenon, <2>3, <2>14 DEF u
      <3>5. NullPlaces(t.req_to_blocks[r]) \subseteq NullPlaces(tab) \cup NullPlaces(hits) \cup (1..skipped)
        BY ByZenon, <2>7, <3>2, <3>4
      <3>6. QED BY ByZenon, <1>g, <2>13, <3>2, <3>3, <3>4, <3>5 DEF required, t
    <2>15. CASE ~(extIn > 0)
      <3>1. t = at
        BY ByZenon, <2>3, <2>15
      <3>2. required - Len(at.req_to_blocks[r]) <= Len(at.free)
        BY ByZenon, <2>7, <2>12
      <3>3. NullPlaces(t.req_to_blocks[r]) \subseteq NullPlaces(tab) \cup NullPlaces(hits) \cup (1..skipped)
        BY ByZenon, <2>7, <3>1
      <3>4. QED BY ByZenon, <1>g, <2>4, <2>13, <3>1, <3>2, <3>3 DEF required, t
    <2>16. QED BY ByZenon, <2>14, <2>15
  <1>13. QED BY <1>10, <1>11, <1>12, <1>3

-----------------------------------------------------------------------------
(* allocate_slots as one step of BlockOwnership.                            *)

(* The step of BlockOwnership that allocate_slots takes: give, take, fill.  *)
Allocated(q, r, q4) ==
    \E G \in SUBSET q.holds[r] :
    \E H \in SUBSET OP!Offered(OP!Give(q, r, G), r) :
    \E N \in SUBSET (OP!Give(q, r, G).free \ H) :
    \E S \in SUBSET OP!Take(OP!Give(q, r, G), r, H, N).fresh[r] :
    \E h \in [S -> Prefixes[r]] :
       q4 = OP!Fill(OP!Take(OP!Give(q, r, G), r, H, N), r, S, h)

(* Skipping nothing is a special case of remove_skipped_blocks.             *)
LEMMA GiveNothing ==
    ASSUME NEW k, Sound(k), NEW r \in Requests
    PROVE  SkipEffect(k, r, k)
  <1> DEFINE q == Owned(k)
  <1>1. q \in OP!Pool
    BY ByZenon DEF Sound, OP!PoolInv
  <1>2. q = OP!Give(q, r, {})
    <2> HIDE DEF q
    <2>1. q = [ref |-> q.ref, free |-> q.free, hash |-> q.hash, holds |-> q.holds, fresh |-> q.fresh]
          /\ q.ref \in [Real -> Int]
          /\ q.fresh \in [Requests -> SUBSET Real] /\ q.holds \in [Requests -> SUBSET Real]
      BY ByZenon, <1>1 DEF OP!Pool
    <2> USE <2>1
    <2>2. q.ref = [b \in Real |-> IF b \in {} THEN q.ref[b] - 1 ELSE q.ref[b]]
      BY ByZenon
    <2>3. q.free = q.free \cup {b \in {} : q.ref[b] - 1 = 0}
      BY ByZenon
    <2>4. q.holds = [q.holds EXCEPT ![r] = @ \ {}] /\ q.fresh = [q.fresh EXCEPT ![r] = @ \ {}]
      BY ByZenon
    <2>5. QED BY ByZenon, <2>2, <2>3, <2>4 DEF OP!Give
  <1>3. {} \in SUBSET q.holds[r]
    BY ByZenon
  <1>4. QED BY ByZenon, <1>2, <1>3 DEF SkipEffect, OnlyTable

(* The conclusion of Compose.                                               *)
Composed(k, r, k1, k3, k4) ==
    /\ Sound(k4) /\ k4.window = k.window /\ OnlyTable(k, k4, r)
    /\ \A s \in Requests \ {r} : k4.num_cached_block[s] = k.num_cached_block[s]
    /\ Allocated(Owned(k), r, Owned(k4))

(* The calls of allocate_slots in their order make one step of              *)
(* BlockOwnership.                                                          *)
LEMMA Compose ==
    ASSUME NEW k, NEW r \in Requests, NEW k1, SkipEffect(k, r, k1),
           NEW k3, TakeEffect(k1, r, k3), NEW k4, CacheEffect(k3, r, k4)
    PROVE  Composed(k, r, k1, k3, k4)
  <1> USE DEF Composed
  <1> DEFINE q == Owned(k)
             q1 == Owned(k1)
  <1>1. PICK G \in SUBSET q.holds[r] : q1 = OP!Give(q, r, G)
    BY ByZenon DEF SkipEffect
  <1>2. PICK H \in SUBSET OP!Offered(q1, r) : \E N \in SUBSET (q1.free \ H) : Owned(k3) = OP!Take(q1, r, H, N)
    BY ByZenon DEF TakeEffect
  <1>3. PICK N \in SUBSET (q1.free \ H) : Owned(k3) = OP!Take(q1, r, H, N)
    BY ByZenon, <1>2
  <1>4. PICK S \in SUBSET Owned(k3).fresh[r] : \E h \in [S -> Prefixes[r]] : Owned(k4) = OP!Fill(Owned(k3), r, S, h)
    BY ByZenon DEF CacheEffect
  <1>5. PICK h \in [S -> Prefixes[r]] : Owned(k4) = OP!Fill(Owned(k3), r, S, h)
    BY ByZenon, <1>4
  <1> HIDE DEF q, q1
  <1>6. /\ H \in SUBSET OP!Offered(OP!Give(q, r, G), r)
        /\ N \in SUBSET (OP!Give(q, r, G).free \ H)
        /\ S \in SUBSET OP!Take(OP!Give(q, r, G), r, H, N).fresh[r]
        /\ Owned(k4) = OP!Fill(OP!Take(OP!Give(q, r, G), r, H, N), r, S, h)
    BY ByZenon, <1>1, <1>2, <1>3, <1>4, <1>5
  <1>7. Allocated(q, r, Owned(k4))
    BY ByZenon, <1>1, <1>5, <1>6 DEF Allocated
  <1>8. OnlyTable(k, k4, r)
    BY ByZenon DEF SkipEffect, TakeEffect, CacheEffect, OnlyTable
  <1>9. Sound(k4) /\ k4.window = k.window
        /\ \A s \in Requests \ {r} : k4.num_cached_block[s] = k.num_cached_block[s]
    BY ByZenon DEF SkipEffect, TakeEffect, CacheEffect
  <1>10. QED BY ByZenon, <1>7, <1>8, <1>9 DEF q

(* The arguments of allocate_slots that the scheduler can pass.             *)
ArgsOK(k, r, a) ==
    /\ a.num_tokens \in Nat /\ a.new \in Nat /\ a.lookahead \in Nat /\ a.reserved \in Nat
    /\ MayAllocate(k, r, a.computed, a.hits, a.ext)
    /\ a.computed + Len(a.hits) * BlockSize + a.ext <= MaxModelLen
    /\ a.num_tokens <= MaxModelLen /\ a.num_tokens \div BlockSize <= Len(BlockHashes[r])

(* What allocate_slots does.  It may fail after it removed skipped blocks,  *)
(* and then the table keeps its length; when it succeeds, the table holds   *)
(* all tokens that are computed, attached, loaded or scheduled.             *)
AllocEffect(k, r, a, res) ==
    LET t == res.kv
        have == a.computed + Len(a.hits) * BlockSize + a.ext
    IN  /\ Sound(t) /\ t.window = k.window /\ OnlyTable(k, t, r)
        /\ \A s \in Requests \ {r} : t.num_cached_block[s] = k.num_cached_block[s]
        /\ Allocated(Owned(k), r, Owned(t))
        /\ ~res.ok => /\ Len(t.req_to_blocks[r]) = Len(k.req_to_blocks[r])
                      /\ t.num_cached_block[r] = k.num_cached_block[r]
        /\ res.ok => /\ MinOf(have + a.new, MaxModelLen) <= Len(t.req_to_blocks[r]) * BlockSize
                     /\ k.num_cached_block[r] # NotTracked \/ a.ext > 0
                          => t.num_cached_block[r] # NotTracked
        /\ NullPlaces(t.req_to_blocks[r]) \subseteq GapsAfter(k, r, a.hits, have)

(* allocate_slots, on every path.                                           *)
LEMMA AllocateSound ==
    ASSUME Counting, NEW k, Sound(k), NEW r \in Requests, NEW a, ArgsOK(k, r, a)
    PROVE  AllocEffect(k, r, a, allocate_slots(k, r, a))
  <1> DEFINE B == BlockSize
             local == a.computed + Len(a.hits) * B
             total == MinOf(local + a.ext, MaxModelLen)
             need == MinOf(total + a.new + a.lookahead, MaxModelLen)
             fits == ~a.must_fit
                  \/ get_num_blocks_to_allocate(k, r, MinOf(a.num_tokens, MaxModelLen),
                                                a.hits, total, TRUE)
                       <= get_num_free_blocks(k)
             k1 == remove_skipped_blocks(k, r, total)
             enough == get_num_blocks_to_allocate(k1, r, need, a.hits, local + a.ext, FALSE)
                         <= get_num_free_blocks(k1) - a.reserved
             k2 == Attach(k1, r, a.computed, a.hits, a.ext)
             k3 == allocate_new_blocks(k2, r, need)
             last == MinOf(total + a.new, a.num_tokens)
             k4 == IF a.delay THEN k3 ELSE cache_blocks(k3, r, last)
             res == allocate_slots(k, r, a)
  <1>1. res = IF ~fits THEN [ok |-> FALSE, kv |-> k]
              ELSE IF ~enough THEN [ok |-> FALSE, kv |-> k1]
              ELSE [ok |-> TRUE, kv |-> k4]
    BY ByZenon DEF allocate_slots, Attach
  <1>2. B \in Nat \ {0} /\ MaxModelLen \in Nat
    BY ByZenon, CacheAssumption DEF CacheAssumption
  <1>3. /\ a.num_tokens \in Nat /\ a.new \in Nat /\ a.lookahead \in Nat /\ a.reserved \in Nat
        /\ a.computed \in Nat /\ a.ext \in Nat /\ a.hits \in Seq(Blocks) /\ Len(a.hits) \in Nat
        /\ local + a.ext <= MaxModelLen /\ a.num_tokens <= MaxModelLen
        /\ a.num_tokens \div B <= Len(BlockHashes[r])
    BY SeqFun DEF ArgsOK, MayAllocate, HitsOK, SeqIs
  <1>4. Len(a.hits) * B \in Nat /\ local \in Nat
    <2>1. Len(a.hits) \in Int /\ Len(a.hits) \in Nat /\ BlockSize \in Nat \ {0}
      BY <1>2, <1>3
    <2>2. Len(a.hits) * BlockSize \in Nat
      BY ByZenon, <2>1, Products DEF ProductsOrdered
    <2> DEFINE m == Len(a.hits) * BlockSize
               c == a.computed
    <2>3. m \in Nat /\ c \in Nat
      BY ByZenon, <1>3, <2>2
    <2> HIDE DEF m, c
    <2>4. c + m \in Nat
      BY <2>3
    <2>5. QED BY ByZenon, <2>2, <2>4 DEF m, c
  <1> HIDE DEF local, fits, enough, k2, k3, k4, k1, res
  <1> DEFINE ext == a.ext
             new == a.new
             ahead == a.lookahead
             n_tok == a.num_tokens
  <1>20. ext \in Nat /\ new \in Nat /\ ahead \in Nat /\ n_tok \in Nat /\ local \in Nat
        /\ MaxModelLen \in Nat /\ local + ext <= MaxModelLen /\ n_tok <= MaxModelLen
    BY ByZenon, <1>2, <1>3, <1>4
  <1>21. total = MinOf(local + ext, MaxModelLen) /\ need = MinOf(total + new + ahead, MaxModelLen)
        /\ last = MinOf(total + new, n_tok)
    BY ByZenon
  <1> HIDE DEF ext, new, ahead, n_tok, total, need, last
  <1>22. total \in Nat /\ total = local + ext
    BY <1>20, <1>21 DEF MinOf
  <1>23. need \in Nat /\ total <= need /\ MinOf(total + new, MaxModelLen) <= need
    BY <1>20, <1>21, <1>22 DEF MinOf
  <1>24. last \in Nat /\ last <= need /\ last <= n_tok
    BY <1>20, <1>21, <1>22 DEF MinOf
  <1>5. total \in Nat /\ total = local + a.ext
    BY ByZenon, <1>22 DEF ext
  <1>6. need \in Nat /\ total <= need /\ MinOf(total + a.new, MaxModelLen) <= need
        /\ last \in Nat /\ last <= need /\ last <= a.num_tokens
    BY ByZenon, <1>23, <1>24 DEF new, n_tok
  <1>7. /\ SkipEffect(k, r, k1)
        /\ NullPlaces(k1.req_to_blocks[r])
             \subseteq NullPlaces(k.req_to_blocks[r]) \cup (1..SkippedBlocks(k, total))
    BY ByZenon, <1>5, SkipSound DEF k1, SkipIs
  <1>7a. NullPlaces(k1.req_to_blocks[r]) \subseteq GapsAfter(k, r, a.hits, total)
    BY ByZenon, <1>7 DEF GapsAfter
  <1>7b. NullPlaces(k.req_to_blocks[r]) \subseteq GapsAfter(k, r, a.hits, total)
    BY ByZenon DEF GapsAfter
  <1>8. ASSUME NEW t, NEW f, t = k \/ t = k1, res = [ok |-> FALSE, kv |-> t] PROVE AllocEffect(k, r, a, res)
    <2>1. SkipEffect(k, r, t)
      BY ByZenon, <1>7, <1>8, GiveNothing
    <2>2. Sound(t)
      BY ByZenon, <2>1 DEF SkipEffect
    <2>3. TakeEffect(t, r, t) /\ CacheEffect(t, r, t)
      BY ByZenon, <2>2, TakeEffectRefl, CacheNothing
    <2>4. /\ Sound(t) /\ t.window = k.window /\ OnlyTable(k, t, r)
          /\ \A s \in Requests \ {r} : t.num_cached_block[s] = k.num_cached_block[s]
          /\ Allocated(Owned(k), r, Owned(t))
      BY ByZenon, <2>1, <2>3, Compose DEF Composed
    <2>5. /\ Len(t.req_to_blocks[r]) = Len(k.req_to_blocks[r])
          /\ t.num_cached_block[r] = k.num_cached_block[r]
      BY ByZenon, <2>1 DEF SkipEffect
    <2>6. res.ok = FALSE /\ res.kv = t
      BY ByZenon, <1>8
    <2>7. NullPlaces(t.req_to_blocks[r]) \subseteq GapsAfter(k, r, a.hits, total)
      BY ByZenon, <1>7a, <1>7b, <1>8
    <2>8. QED BY ByZenon, <1>5, <2>4, <2>5, <2>6, <2>7 DEF AllocEffect, local
  <1>9. CASE ~fits
    <2>1. res = [ok |-> FALSE, kv |-> k]
      BY ByZenon, <1>1, <1>9
    <2>2. QED BY ByZenon, <1>8, <2>1 DEF res
  <1>10. CASE fits /\ ~enough
    <2>1. res = [ok |-> FALSE, kv |-> k1]
      BY ByZenon, <1>1, <1>10
    <2>2. QED BY ByZenon, <1>8, <2>1 DEF res
  <1>11. CASE fits /\ enough
    <2>0. res.ok = TRUE /\ res.kv = k4
      BY ByZenon, <1>1, <1>11
    <2>1. /\ Sound(k1) /\ Len(k1.req_to_blocks[r]) = Len(k.req_to_blocks[r])
          /\ k1.num_cached_block = k.num_cached_block /\ k1.block_hash = k.block_hash
      BY ByZenon, <1>7 DEF SkipEffect
    <2>2. MayAllocate(k1, r, a.computed, a.hits, a.ext)
      <3>1. MayAllocate(k, r, a.computed, a.hits, a.ext)
        BY ByZenon DEF ArgsOK
      <3>2. HitsOK(k1, r, a.hits)
        BY ByZenon, <2>1, <3>1 DEF MayAllocate, HitsOK
      <3>3. k.req_to_blocks[r] = <<>> => k1.req_to_blocks[r] = <<>>
        <4>1. k1.req_to_blocks[r] \in Seq(Blocks)
          BY ByZenon, <2>1 DEF Sound, KV
        <4>2. QED BY <2>1, <4>1
      <3>4. QED BY ByZenon, <2>1, <3>1, <3>2, <3>3 DEF MayAllocate
    <2>3. get_num_blocks_to_allocate(k1, r, need, a.hits, a.computed + Len(a.hits) * BlockSize + a.ext, FALSE)
             <= Len(k1.free) - a.reserved
      BY ByZenon, <1>11 DEF enough, local, get_num_free_blocks
    <2>4. a.computed + Len(a.hits) * BlockSize + a.ext <= need
      BY ByZenon, <1>5, <1>6 DEF local
    <2>5. /\ TakeEffect(k1, r, k2)
          /\ cdiv(need, BlockSize) - Len(k2.req_to_blocks[r]) <= Len(k2.free)
          /\ k1.num_cached_block[r] # NotTracked \/ a.ext > 0 => k2.num_cached_block[r] # NotTracked
          /\ NullPlaces(k2.req_to_blocks[r])
               \subseteq GapsAfter(k1, r, a.hits, a.computed + Len(a.hits) * BlockSize + a.ext)
      BY ByZenon, <1>3, <1>6, <2>1, <2>2, <2>3, <2>4, AttachEnough DEF k2, AttachFits
    <2>6. Sound(k2) /\ k2 \in KV /\ Len(k2.req_to_blocks[r]) \in Nat /\ Len(k2.free) \in Nat
      BY ByZenon, <2>5, SoundLengths DEF TakeEffect
    <2> DEFINE required == cdiv(need, BlockSize)
               n == required - Len(k2.req_to_blocks[r])
    <2>7. required \in Nat /\ need <= required * B /\ last \div B <= required
      <3>1. cdiv(last, B) <= required /\ last \div B <= cdiv(last, B) /\ cdiv(last, B) \in Nat
            /\ required \in Nat /\ need <= required * B /\ last \div B \in Nat
        BY ByZenon, <1>2, <1>6, RoundUp, Monotone, Quotient DEF RoundsUp, QuotientIs
      <3> HIDE DEF required
      <3>2. QED BY <3>1
    <2>8. k3 = IF n <= 0 THEN k2 ELSE ExtendTable(k2, r, n)
      BY ByZenon DEF k3, allocate_new_blocks
    <2> HIDE DEF required
    <2>9. /\ TakeEffect(k1, r, k3) /\ required <= Len(k3.req_to_blocks[r])
          /\ k3.num_cached_block = k2.num_cached_block
          /\ NullPlaces(k3.req_to_blocks[r]) \subseteq NullPlaces(k2.req_to_blocks[r])
      <3>1. CASE n <= 0
        BY <2>5, <2>6, <2>7, <2>8, <3>1
      <3>2. CASE ~(n <= 0)
        <4>1. n \in Nat /\ n <= Len(k2.free)
          BY <2>5, <2>6, <2>7, <3>2 DEF required
        <4>2. k3 = ExtendTable(k2, r, n)
          BY ByZenon, <2>8, <3>2
        <4>3. Len(k2.req_to_blocks[r]) + n = required
          BY <2>6, <2>7
        <4> HIDE DEF n
        <4>4. /\ TakeEffect(k1, r, k3) /\ Len(k3.req_to_blocks[r]) = Len(k2.req_to_blocks[r]) + n
              /\ k3.num_cached_block = k2.num_cached_block
              /\ NullPlaces(k3.req_to_blocks[r]) \subseteq NullPlaces(k2.req_to_blocks[r])
          BY <2>1, <2>5, <4>1, <4>2, TakeEffectExtend DEF ExtendTakes
        <4>5. QED BY <2>7, <4>3, <4>4
      <3>3. QED BY ByZenon, <3>1, <3>2
    <2>10. Sound(k3) /\ Len(k3.req_to_blocks[r]) \in Nat
      BY ByZenon, <2>9, SoundLengths DEF TakeEffect
    <2>11. CacheEffect(k3, r, k4)
      <3>1. CASE a.delay
        BY ByZenon, <2>10, <3>1, CacheNothing DEF k4
      <3>2. CASE ~a.delay
        <4>1. k4 = cache_blocks(k3, r, last)
          BY ByZenon, <3>2 DEF k4
        <4>2. last \div B \in Nat /\ a.num_tokens \div B \in Nat /\ last \div B <= a.num_tokens \div B
          BY ByZenon, <1>2, <1>3, <1>6, Quotient, Monotone DEF QuotientIs
        <4>3. last \div BlockSize <= Len(k3.req_to_blocks[r]) /\ last \div BlockSize <= Len(BlockHashes[r])
          BY <1>3, <2>7, <2>9, <2>10, <4>2, HashTypes DEF HashesTyped
        <4>4. QED BY ByZenon, <1>6, <2>10, <4>1, <4>3, CacheSound
      <3>3. QED BY ByZenon, <3>1, <3>2
    <2>12. /\ Sound(k4) /\ k4.window = k.window /\ OnlyTable(k, k4, r)
           /\ \A s \in Requests \ {r} : k4.num_cached_block[s] = k.num_cached_block[s]
           /\ Allocated(Owned(k), r, Owned(k4))
      BY ByZenon, <1>7, <2>9, <2>11, Compose DEF Composed
    <2>13. k4.req_to_blocks = k3.req_to_blocks
           /\ (k3.num_cached_block[r] # NotTracked => k4.num_cached_block[r] # NotTracked)
      BY ByZenon, <2>11 DEF CacheEffect
    <2>14. MinOf(total + a.new, MaxModelLen) <= Len(k4.req_to_blocks[r]) * B
      <3> DEFINE L == Len(k3.req_to_blocks[r])
      <3>1. required * B <= L * B /\ L * B \in Int /\ required * B \in Int
        BY <1>2, <2>7, <2>9, <2>10, Products DEF ProductsOrdered
      <3>2. MinOf(total + a.new, MaxModelLen) \in Nat
        BY <1>2, <1>3, <1>5 DEF MinOf
      <3> HIDE DEF L
      <3>3. MinOf(total + a.new, MaxModelLen) <= L * B
        BY <1>6, <2>7, <3>1, <3>2
      <3>4. QED BY ByZenon, <2>13, <3>3 DEF L
    <2>15. k.num_cached_block[r] # NotTracked \/ a.ext > 0 => k4.num_cached_block[r] # NotTracked
      BY ByZenon, <2>1, <2>5, <2>9, <2>13
    <2>15a. NullPlaces(k4.req_to_blocks[r]) \subseteq GapsAfter(k, r, a.hits, total)
      <3>1. GapsAfter(k1, r, a.hits, total) \subseteq GapsAfter(k, r, a.hits, total)
        <4>1. SkippedBlocks(k1, total) = SkippedBlocks(k, total)
          BY ByZenon, <1>7 DEF SkipEffect, SkippedBlocks, get_num_skipped_tokens
        <4>2. QED BY ByZenon, <1>7, <4>1 DEF GapsAfter
      <3>2. total = a.computed + Len(a.hits) * BlockSize + a.ext
        BY ByZenon, <1>5 DEF local
      <3>3. QED BY ByZenon, <2>5, <2>9, <2>13, <3>1, <3>2
    <2>16. AllocEffect(k, r, a, res)
      BY ByZenon, <1>5, <2>0, <2>12, <2>14, <2>15, <2>15a DEF AllocEffect, local
    <2>17. QED BY ByZenon, <2>16 DEF res
  <1>12. QED BY ByZenon, <1>9, <1>10, <1>11
===============================================================================
