------------------------- MODULE BlockOwnershipProofs -------------------------
(***************************************************************************)
(* The promises of BlockOwnership hold for any number of blocks, requests  *)
(* and hashes.  The four of them are inductive only together: a block that *)
(* is taken from the free set has to be known to have no holder, and a     *)
(* block that is offered under a hash has to be known to have no writer.   *)
(* One lemma per call of the block pool shows that the call preserves      *)
(* their conjunction; the steps of Next are compositions of those calls.   *)
(***************************************************************************)
EXTENDS BlockOwnership, TLAPS

Pool == [ref   : [Blocks -> Int],
         free  : SUBSET Blocks,
         hash  : [Blocks -> Hashes \cup {NoHash}],
         holds : [Requests -> SUBSET Blocks],
         fresh : [Requests -> SUBSET Blocks]]

(* The inductive invariant, as a predicate on the record.                  *)
RefInv(q)    == \A b \in Blocks : Counts(q.ref[b], Holders(q, b))
FreeInv(q)   == \A b \in Blocks : b \in q.free <=> Holders(q, b) = {}
WriterInv(q) == \A r \in Requests : \A b \in q.fresh[r] :
                    Holders(q, b) = {r} /\ q.hash[b] = NoHash
PrefixInv(q) == \A r \in Requests : \A b \in q.holds[r] :
                    q.hash[b] \in PrefixHashes[r] \cup {NoHash}
PoolInv(q) == q \in Pool /\ RefInv(q) /\ FreeInv(q) /\ WriterInv(q) /\ PrefixInv(q)

(* Counting 0 elements means that there are none.                           *)
LEMMA CountsNone ==
    ASSUME NEW n, NEW S, Counts(n, S)
    PROVE  n \in Nat /\ (n = 0 <=> S = {})
<1>1. n \in Nat
  BY DEF Counts
<1>2. PICK f \in [1..n -> S] : \A x \in S : \E i \in 1..n : f[i] = x
  BY DEF Counts
<1>3. ASSUME n # 0 PROVE S # {}
  <2>1. 1 \in 1..n
    BY <1>1, <1>3
  <2> QED
    BY <2>1, <1>2
<1>4. ASSUME n = 0 PROVE S = {}
  BY <1>1, <1>2, <1>4
<1> QED
  BY <1>1, <1>3, <1>4

(* Nothing is counted by 0.                                                 *)
LEMMA CountsZero ==
    Counts(0, {})
<1> DEFINE f == [i \in 1..0 |-> i]
<1>1. f \in [1..0 -> {}]
  OBVIOUS
<1>2. \A i, j \in 1..0 : f[i] = f[j] => i = j
  OBVIOUS
<1> QED
  BY <1>1, <1>2 DEF Counts

(* A request that did not hold a block adds one to its number of holders.   *)
LEMMA CountsAdd ==
    ASSUME NEW n, NEW S, Counts(n, S), NEW r, r \notin S
    PROVE  Counts(n + 1, S \cup {r})
<1>1. n \in Nat
  BY DEF Counts
<1>2. PICK f \in [1..n -> S] : /\ \A i, j \in 1..n : f[i] = f[j] => i = j
                               /\ \A x \in S : \E i \in 1..n : f[i] = x
  BY DEF Counts
<1> DEFINE g == [i \in 1..(n + 1) |-> IF i = n + 1 THEN r ELSE f[i]]
<1>3. \A i \in 1..(n + 1) : i = n + 1 \/ i \in 1..n
  BY <1>1
<1>4. \A i \in 1..n : g[i] = f[i] /\ i \in 1..(n + 1)
  BY <1>1
<1>5. g[n + 1] = r /\ n + 1 \in 1..(n + 1)
  BY <1>1
<1> HIDE DEF g
<1>6. g \in [1..(n + 1) -> S \cup {r}]
  BY <1>2, <1>3 DEF g
<1>7. \A i, j \in 1..(n + 1) : g[i] = g[j] => i = j
  BY <1>2, <1>3, <1>4, <1>5
<1>8. \A x \in S \cup {r} : \E i \in 1..(n + 1) : g[i] = x
  BY <1>2, <1>4, <1>5
<1>9. n + 1 \in Nat
  BY <1>1
<1> QED
  BY <1>6, <1>7, <1>8, <1>9 DEF Counts

(* A request that held a block takes one from its number of holders: the    *)
(* last in the numbering gets the number of the one that leaves.            *)
LEMMA CountsRemove ==
    ASSUME NEW n, NEW S, Counts(n, S), NEW r \in S
    PROVE  Counts(n - 1, S \ {r})
<1>1. n \in Nat
  BY DEF Counts
<1>2. PICK f \in [1..n -> S] : /\ \A i, j \in 1..n : f[i] = f[j] => i = j
                               /\ \A x \in S : \E i \in 1..n : f[i] = x
  BY DEF Counts
<1>3. PICK k \in 1..n : f[k] = r
  BY <1>2
<1> DEFINE g == [i \in 1..(n - 1) |-> IF i = k THEN f[n] ELSE f[i]]
<1>4. /\ n \in 1..n /\ n - 1 \in Nat
      /\ \A i \in 1..(n - 1) : i \in 1..n /\ i # n
      /\ \A i \in 1..n : i = n \/ i \in 1..(n - 1)
  BY <1>1, <1>3
<1>5. \A i \in 1..(n - 1) : g[i] = IF i = k THEN f[n] ELSE f[i]
  OBVIOUS
<1>6. g \in [1..(n - 1) -> S \ {r}]
  <2> SUFFICES ASSUME NEW i \in 1..(n - 1) PROVE (IF i = k THEN f[n] ELSE f[i]) \in S \ {r}
    OBVIOUS
  <2> QED
    BY <1>2, <1>3, <1>4
<1> HIDE DEF g
<1>7. \A i, j \in 1..(n - 1) : g[i] = g[j] => i = j
  BY <1>2, <1>4, <1>5
<1>8. ASSUME NEW x \in S \ {r} PROVE \E i \in 1..(n - 1) : g[i] = x
  <2>1. PICK i \in 1..n : f[i] = x
    BY <1>2
  <2>2. i # k
    BY <2>1, <1>3
  <2>3. CASE i = n
    BY <2>1, <2>2, <2>3, <1>3, <1>4, <1>5
  <2>4. CASE i # n
    BY <2>1, <2>2, <2>4, <1>4, <1>5
  <2> QED
    BY <2>3, <2>4
<1> QED
  BY <1>4, <1>6, <1>7, <1>8 DEF Counts

(* free_blocks on blocks of a request's own table keeps the promises: the   *)
(* count of a block falls by one because the table loses it.                *)
LEMMA GivePreserves ==
    ASSUME NEW q, PoolInv(q), NEW r \in Requests, NEW S \in SUBSET q.holds[r]
    PROVE  PoolInv(Give(q, r, S))
<1> DEFINE t == Give(q, r, S)
<1>1. q \in Pool /\ S \subseteq Blocks
  BY DEF PoolInv, Pool
<1>2. t \in Pool
  BY <1>1 DEF Give, Pool
<1>3. \A b \in Blocks : Holders(t, b) = IF b \in S THEN Holders(q, b) \ {r}
                                                   ELSE Holders(q, b)
  BY <1>1 DEF Give, Pool, Holders
<1>4. \A b \in Blocks : Counts(t.ref[b], Holders(t, b))
  <2> TAKE b \in Blocks
  <2>1. CASE b \in S
    <3>1. r \in Holders(q, b)
      BY <2>1 DEF Holders
    <3>2. Counts(q.ref[b] - 1, Holders(q, b) \ {r})
      BY <3>1, CountsRemove DEF PoolInv, RefInv
    <3>3. t.ref[b] = q.ref[b] - 1
      BY <2>1 DEF Give
    <3> QED
      BY <2>1, <3>2, <3>3, <1>3
  <2>2. CASE b \notin S
    BY <2>2, <1>3 DEF Give, PoolInv, RefInv
  <2> QED
    BY <2>1, <2>2
<1>5. \A b \in Blocks : b \in t.free <=> Holders(t, b) = {}
  <2> TAKE b \in Blocks
  <2>1. CASE b \in S
    <3>1. Holders(q, b) # {}
      BY <2>1 DEF Holders
    <3>2. b \notin q.free
      BY <3>1 DEF PoolInv, FreeInv
    <3>3. b \in t.free <=> q.ref[b] - 1 = 0
      BY <3>2, <2>1 DEF Give
    <3>4. t.ref[b] = q.ref[b] - 1
      BY <2>1 DEF Give
    <3> QED
      BY <3>3, <3>4, <1>4, CountsNone
  <2>2. CASE b \notin S
    BY <2>2, <1>3 DEF Give, PoolInv, FreeInv
  <2> QED
    BY <2>1, <2>2
<1>6. WriterInv(t)
  <2> SUFFICES ASSUME NEW s \in Requests, NEW b \in t.fresh[s]
               PROVE  Holders(t, b) = {s} /\ t.hash[b] = NoHash
    BY DEF WriterInv
  <2>1. b \in q.fresh[s] /\ b \in Blocks /\ (s = r => b \notin S)
    BY <1>1 DEF Give, Pool
  <2>2. Holders(q, b) = {s} /\ q.hash[b] = NoHash
    BY <2>1 DEF PoolInv, WriterInv
  <2>3. b \notin S
    BY <2>1, <2>2 DEF Holders
  <2> QED
    BY <2>1, <2>2, <2>3, <1>3 DEF Give
<1>7. PrefixInv(t)
  <2> SUFFICES ASSUME NEW s \in Requests, NEW b \in t.holds[s]
               PROVE  t.hash[b] \in PrefixHashes[s] \cup {NoHash}
    BY DEF PrefixInv
  <2>1. b \in q.holds[s]
    BY <1>1 DEF Give, Pool
  <2> QED
    BY <2>1 DEF Give, PoolInv, PrefixInv
<1> QED
  BY <1>2, <1>4, <1>5, <1>6, <1>7 DEF PoolInv, RefInv, FreeInv

(* touch on cached blocks of the request's own prefix followed by           *)
(* get_new_blocks keeps the promises: no new block has a holder, no hit has *)
(* a writer.                                                                *)
LEMMA TakePreserves ==
    ASSUME NEW q, PoolInv(q), NEW r \in Requests,
           NEW hits \in SUBSET Offered(q, r), NEW new \in SUBSET (q.free \ hits)
    PROVE  PoolInv(Take(q, r, hits, new))
<1> DEFINE t == Take(q, r, hits, new)
           T == hits \cup new
<1>1. q \in Pool /\ hits \subseteq Blocks /\ new \subseteq Blocks
  BY DEF PoolInv, Pool, Offered
<1>2. t \in Pool
  BY <1>1 DEF Take, Pool
<1>3. \A b \in new : Holders(q, b) = {}
  BY <1>1 DEF PoolInv, FreeInv
<1>4. \A b \in hits : q.hash[b] \in PrefixHashes[r] /\ q.hash[b] # NoHash
  BY OwnershipAssumption DEF Offered, OwnershipAssumption
<1>5. \A b \in T : r \notin Holders(q, b)
  BY <1>3 DEF Offered, Holders
<1>6. \A b \in Blocks : Holders(t, b) = IF b \in T THEN Holders(q, b) \cup {r}
                                                   ELSE Holders(q, b)
  BY <1>1 DEF Take, Pool, Holders
<1>7. RefInv(t)
  <2> SUFFICES ASSUME NEW b \in Blocks
               PROVE  Counts(t.ref[b], Holders(t, b))
    BY DEF RefInv
  <2>1. Counts(q.ref[b], Holders(q, b))
    BY DEF PoolInv, RefInv
  <2>2. CASE b \in T
    <3>1. Counts(q.ref[b] + 1, Holders(q, b) \cup {r})
      BY <2>1, <2>2, <1>5, CountsAdd
    <3>2. t.ref[b] = q.ref[b] + 1
      BY <2>2 DEF Take
    <3> QED
      BY <2>2, <3>1, <3>2, <1>6
  <2>3. CASE b \notin T
    BY <2>1, <2>3, <1>6 DEF Take
  <2> QED
    BY <2>2, <2>3
<1>8. FreeInv(t)
  <2> SUFFICES ASSUME NEW b \in Blocks
               PROVE  b \in t.free <=> Holders(t, b) = {}
    BY DEF FreeInv
  <2>1. t.free = q.free \ T
    BY DEF Take
  <2>2. CASE b \in T
    BY <2>1, <2>2, <1>6
  <2>3. CASE b \notin T
    BY <2>1, <2>3, <1>6 DEF PoolInv, FreeInv
  <2> QED
    BY <2>2, <2>3
<1>9. WriterInv(t)
  <2> SUFFICES ASSUME NEW s \in Requests, NEW b \in t.fresh[s]
               PROVE  Holders(t, b) = {s} /\ t.hash[b] = NoHash
    BY DEF WriterInv
  <2>1. b \in Blocks /\ (b \in q.fresh[s] \/ (s = r /\ b \in new))
    BY <1>1 DEF Take, Pool
  <2>2. CASE b \in q.fresh[s]
    <3>1. Holders(q, b) = {s} /\ q.hash[b] = NoHash
      BY <2>2 DEF PoolInv, WriterInv
    <3>2. b \notin T
      BY <3>1, <1>3, <1>4
    <3> QED
      BY <2>1, <3>1, <3>2, <1>6 DEF Take
  <2>3. CASE s = r /\ b \in new
    BY <2>1, <2>3, <1>3, <1>6 DEF Take
  <2> QED
    BY <2>1, <2>2, <2>3
<1>10. PrefixInv(t)
  <2> SUFFICES ASSUME NEW s \in Requests, NEW b \in t.holds[s]
               PROVE  t.hash[b] \in PrefixHashes[s] \cup {NoHash}
    BY DEF PrefixInv
  <2>1. b \in Blocks /\ (b \in q.holds[s] \/ (s = r /\ b \in T))
    BY <1>1 DEF Take, Pool
  <2>2. CASE b \in new
    BY <2>1, <2>2 DEF Take
  <2>3. CASE b \notin new
    <3>1. t.hash[b] = q.hash[b]
      BY <2>1, <2>3 DEF Take
    <3> QED
      BY <2>1, <2>3, <3>1, <1>4 DEF PoolInv, PrefixInv
  <2> QED
    BY <2>2, <2>3
<1> QED
  BY <1>2, <1>7, <1>8, <1>9, <1>10 DEF PoolInv

(* cache_full_blocks on blocks that the request was writing to keeps the    *)
(* promises: nobody else holds them, so nobody else sees the new hash.      *)
LEMMA FillPreserves ==
    ASSUME NEW q, PoolInv(q), NEW r \in Requests, NEW S \in SUBSET q.fresh[r],
           NEW h \in [S -> PrefixHashes[r]]
    PROVE  PoolInv(Fill(q, r, S, h))
<1> DEFINE t == Fill(q, r, S, h)
<1>1. q \in Pool /\ S \subseteq Blocks
  BY DEF PoolInv, Pool
<1>2. t \in Pool
  BY <1>1, OwnershipAssumption DEF Fill, Pool, OwnershipAssumption
<1>3. \A b : Holders(t, b) = Holders(q, b)
  BY DEF Fill, Holders
<1>4. RefInv(t) /\ FreeInv(t)
  BY <1>3 DEF Fill, PoolInv, RefInv, FreeInv
<1>5. \A b \in S : Holders(q, b) = {r}
  BY DEF PoolInv, WriterInv
<1>6. WriterInv(t)
  <2> SUFFICES ASSUME NEW s \in Requests, NEW b \in t.fresh[s]
               PROVE  Holders(t, b) = {s} /\ t.hash[b] = NoHash
    BY DEF WriterInv
  <2>1. b \in Blocks /\ b \in q.fresh[s] /\ (s = r => b \notin S)
    BY <1>1 DEF Fill, Pool
  <2>2. Holders(q, b) = {s} /\ q.hash[b] = NoHash
    BY <2>1 DEF PoolInv, WriterInv
  <2>3. b \notin S
    BY <2>1, <2>2, <1>5
  <2> QED
    BY <2>1, <2>2, <2>3, <1>3 DEF Fill
<1>7. PrefixInv(t)
  <2> SUFFICES ASSUME NEW s \in Requests, NEW b \in q.holds[s]
               PROVE  t.hash[b] \in PrefixHashes[s] \cup {NoHash}
    BY DEF PrefixInv, Fill
  <2>1. b \in Blocks
    BY <1>1 DEF Pool
  <2>2. CASE b \in S
    <3>1. s = r
      BY <2>2, <1>5 DEF Holders
    <3> QED
      BY <2>1, <2>2, <3>1 DEF Fill
  <2>3. CASE b \notin S
    BY <2>1, <2>3 DEF Fill, PoolInv, PrefixInv
  <2> QED
    BY <2>2, <2>3
<1> QED
  BY <1>2, <1>4, <1>6, <1>7 DEF PoolInv

(* evict_blocks keeps the promises, also for blocks that are in use.        *)
LEMMA UnhashPreserves ==
    ASSUME NEW q, PoolInv(q), NEW S \in SUBSET Blocks
    PROVE  PoolInv(Unhash(q, S))
<1> DEFINE t == Unhash(q, S)
<1>1. t \in Pool
  BY DEF Unhash, PoolInv, Pool
<1>2. \A b : Holders(t, b) = Holders(q, b)
  BY DEF Unhash, Holders
<1>3. RefInv(t) /\ FreeInv(t)
  BY <1>2 DEF Unhash, PoolInv, RefInv, FreeInv
<1>4. \A b \in Blocks : t.hash[b] \in {q.hash[b], NoHash}
  BY DEF Unhash
<1>5. WriterInv(t)
  BY <1>2, <1>4 DEF Unhash, PoolInv, Pool, WriterInv
<1>6. PrefixInv(t)
  BY <1>4 DEF Unhash, PoolInv, Pool, PrefixInv
<1> QED
  BY <1>1, <1>3, <1>5, <1>6 DEF PoolInv

-----------------------------------------------------------------------------
(* The conjunction of the promises holds initially.                         *)
LEMMA InitPool ==
    Init => PoolInv(p)
<1> SUFFICES ASSUME Init PROVE PoolInv(p)
  OBVIOUS
<1>1. p \in Pool
  BY DEF Init, Pool
<1>2. \A b \in Blocks : Holders(p, b) = {}
  BY DEF Init, Holders
<1>3. RefInv(p)
  BY <1>2, CountsZero DEF Init, RefInv
<1>4. FreeInv(p) /\ WriterInv(p) /\ PrefixInv(p)
  BY <1>2 DEF Init, FreeInv, WriterInv, PrefixInv
<1> QED
  BY <1>1, <1>3, <1>4 DEF PoolInv

(* Every step keeps the conjunction of the promises.                        *)
LEMMA NextPreserves ==
    PoolInv(p) /\ [Next]_p => PoolInv(p')
<1> SUFFICES ASSUME PoolInv(p), [Next]_p PROVE PoolInv(p')
  OBVIOUS
<1>1. ASSUME NEW r \in Requests, NEW gone, NEW hits, NEW new, NEW S, NEW h,
             Allocate(r, gone, hits, new, S, h)
      PROVE  PoolInv(p')
  <2> DEFINE q1 == Give(p, r, gone)
             q2 == Take(q1, r, hits, new)
  <2>1. PoolInv(q1)
    BY <1>1, GivePreserves DEF Allocate
  <2>2. PoolInv(q2)
    BY <1>1, <2>1, TakePreserves DEF Allocate
  <2>3. PoolInv(Fill(q2, r, S, h))
    BY <1>1, <2>2, FillPreserves DEF Allocate
  <2> QED
    BY <1>1, <2>3 DEF Allocate
<1>2. ASSUME NEW r \in Requests, Release(r)
      PROVE  PoolInv(p')
  BY <1>2, GivePreserves DEF Release
<1>3. ASSUME NEW S \in SUBSET Blocks, Evict(S)
      PROVE  PoolInv(p')
  BY <1>3, UnhashPreserves DEF Evict
<1>4. CASE Reset
  BY <1>4, UnhashPreserves DEF Reset
<1>5. CASE UNCHANGED p
  BY <1>5
<1> QED
  BY <1>1, <1>2, <1>3, <1>4, <1>5 DEF Next

(* In every reachable state of the ownership of blocks the type is right    *)
(* and the four promises hold, together.                                    *)
THEOREM PoolInvariant ==
    Spec => []PoolInv(p)
<1>1. Init => PoolInv(p)
  BY InitPool
<1>2. PoolInv(p) /\ [Next]_p => PoolInv(p)'
  BY NextPreserves
<1> QED
  BY <1>1, <1>2, PTL DEF Spec

(* Every field of the pool keeps its type: reference counts never become    *)
(* negative, the free set and the tables hold blocks, hashes are hashes.    *)
THEOREM TypeCorrect ==
    Spec => []TypeOK
<1>1. PoolInv(p) => TypeOK
  BY CountsNone DEF PoolInv, Pool, RefInv, TypeOK
<1> QED
  BY <1>1, PoolInvariant, PTL

(* touch, get_new_blocks and free_blocks count exactly: the reference count *)
(* of a block is always the number of requests that hold it.                *)
THEOREM RefCountsAreExact ==
    Spec => []RefCountExact
<1>1. PoolInv(p) => RefCountExact
  BY DEF PoolInv, RefInv, RefCountExact
<1> QED
  BY <1>1, PoolInvariant, PTL

(* No block is leaked and none is free while a request holds it, however    *)
(* allocation, sharing, eviction and release of blocks interleave.          *)
THEOREM FreeMeansUnheld ==
    Spec => []FreeIffUnheld
<1>1. PoolInv(p) => FreeIffUnheld
  BY DEF PoolInv, FreeInv, FreeIffUnheld
<1> QED
  BY <1>1, PoolInvariant, PTL

(* The block a request writes to has no other reader and no hash, so prefix *)
(* sharing never exposes KV data that is still being written.               *)
THEOREM WritersAreAlone ==
    Spec => []SoleWriter
<1>1. PoolInv(p) => SoleWriter
  BY DEF PoolInv, WriterInv, SoleWriter
<1> QED
  BY <1>1, PoolInvariant, PTL

(* No request ever holds a block that is cached for a prefix of others only. *)
THEOREM OnlyOwnPrefixes ==
    Spec => []OwnPrefixOnly
<1>1. PoolInv(p) => OwnPrefixOnly
  BY DEF PoolInv, PrefixInv, OwnPrefixOnly
<1> QED
  BY <1>1, PoolInvariant, PTL
=============================================================================
