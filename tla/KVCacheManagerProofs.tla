------------------------- MODULE KVCacheManagerProofs -------------------------
(***************************************************************************)
(* The KV cache manager never fails, its hash map, its events and its      *)
(* tables are exact, a sliding window never reaches a block that is gone,  *)
(* and it implements BlockOwnership.  The invariants are inductive only    *)
(* together, and only with what the scheduler respects (Client): that hits *)
(* are passed for requests without a table, and that the computed tokens   *)
(* lie in the table.  The calls are those of KVCacheLemmas; one lemma per  *)
(* action shows that the action keeps IInv and maps to a step of           *)
(* BlockOwnership.                                                         *)
(***************************************************************************)
EXTENDS KVCacheLemmas, KVCacheManager

-----------------------------------------------------------------------------
(* The other steps of BlockOwnership, and the initial state.                *)

(* The conclusion of ComputedBlocks.                                        *)
ComputedAre(k, r, n) ==
    /\ HitsOK(k, r, get_computed_blocks(k, r, n))
    /\ Len(get_computed_blocks(k, r, n)) <= (n - 1) \div BlockSize
    /\ Len(get_computed_blocks(k, r, n)) \in Nat
    /\ BehindWindow(k, get_computed_blocks(k, r, n))

(* get_computed_blocks returns hits only, and leaves at least one token to  *)
(* compute.                                                                 *)
LEMMA ComputedBlocks ==
    ASSUME Counting, NEW k, Sound(k), NEW r \in Requests, NEW n \in Nat \ {0}, n <= MaxTokens[r]
    PROVE  ComputedAre(k, r, n)
  <1> USE DEF ComputedAre
  <1> DEFINE m == (n - 1) \div BlockSize
             hits == get_computed_blocks(k, r, n)
  <1>1. m \in Nat /\ m <= Len(BlockHashes[r])
    <2>1. n - 1 \in Nat /\ MaxTokens[r] \in Nat /\ n - 1 <= MaxTokens[r] /\ BlockSize \in Nat \ {0}
      BY ClientAssumption, CacheAssumption DEF ClientAssumption, CacheAssumption
    <2>2. m \in Nat /\ MaxTokens[r] \div BlockSize \in Nat /\ m <= MaxTokens[r] \div BlockSize
      BY ByZenon, <2>1, Quotient, Monotone DEF QuotientIs
    <2>3. MaxTokens[r] \div BlockSize <= Len(BlockHashes[r]) /\ Len(BlockHashes[r]) \in Nat
      BY ByZenon, ClientAssumption, HashTypes DEF ClientAssumption, HashesTyped
    <2> HIDE DEF m
    <2>4. QED BY <2>2, <2>3
  <1>2. hits = IF ~EnableCaching THEN <<>>
               ELSE IF k.window = 0 THEN FullAttentionHit(k, r, m) ELSE SlidingWindowHit(k, r, m)
    BY ByZenon DEF get_computed_blocks
  <1> HIDE DEF m, hits
  <1>3. HitsOK(k, r, <<>>) /\ Len(<<>>) <= m
    BY <1>1 DEF HitsOK
  <1>3a. ASSUME NEW s, NullPlaces(s) = {} PROVE BehindWindow(k, s)
    BY ByZenon, <1>3a DEF BehindWindow
  <1>3b. NullPlaces(<<>>) = {}
    <2>1. DOMAIN <<>> = {}
      OBVIOUS
    <2>2. QED BY ByZenon, <2>1 DEF NullPlaces
  <1>4. HitsOK(k, r, hits) /\ Len(hits) <= m /\ BehindWindow(k, hits)
    <2>1. CASE ~EnableCaching
      BY ByZenon, <1>2, <1>3, <1>3a, <1>3b, <2>1
    <2>2. CASE EnableCaching /\ k.window = 0
      BY ByZenon, <1>1, <1>2, <1>3a, <2>2, FullHits
    <2>3. CASE EnableCaching /\ k.window # 0
      BY ByZenon, <1>1, <1>2, <2>3, WindowHits
    <2>4. QED BY ByZenon, <2>1, <2>2, <2>3
  <1>5. Len(hits) \in Nat
    BY ByZenon, <1>4, SeqFun DEF HitsOK, SeqIs
  <1>6. QED BY ByZenon, <1>4, <1>5 DEF hits, m

(* That step is one of BlockOwnership's Next.                               *)
LEMMA AllocStep ==
    ASSUME NEW r \in Requests, Allocated(Owned(kv), r, Owned(kv)')
    PROVE  Ownership!Next
  <1> DEFINE q == Owned(kv)
  <1>1. PICK G \in SUBSET q.holds[r] :
        \E H \in SUBSET OP!Offered(OP!Give(q, r, G), r) :
        \E N \in SUBSET (OP!Give(q, r, G).free \ H) :
        \E S \in SUBSET OP!Take(OP!Give(q, r, G), r, H, N).fresh[r] :
        \E h \in [S -> Prefixes[r]] :
           Owned(kv)' = OP!Fill(OP!Take(OP!Give(q, r, G), r, H, N), r, S, h)
    BY ByZenon DEF Allocated
  <1> USE <1>1
  <1>2. PICK H \in SUBSET OP!Offered(OP!Give(q, r, G), r) :
        \E N \in SUBSET (OP!Give(q, r, G).free \ H) :
        \E S \in SUBSET OP!Take(OP!Give(q, r, G), r, H, N).fresh[r] :
        \E h \in [S -> Prefixes[r]] :
           Owned(kv)' = OP!Fill(OP!Take(OP!Give(q, r, G), r, H, N), r, S, h)
    BY ByZenon
  <1> USE <1>2
  <1>3. PICK N \in SUBSET (OP!Give(q, r, G).free \ H) :
        \E S \in SUBSET OP!Take(OP!Give(q, r, G), r, H, N).fresh[r] :
        \E h \in [S -> Prefixes[r]] :
           Owned(kv)' = OP!Fill(OP!Take(OP!Give(q, r, G), r, H, N), r, S, h)
    BY ByZenon
  <1> USE <1>3
  <1>4. PICK S \in SUBSET OP!Take(OP!Give(q, r, G), r, H, N).fresh[r] :
        \E h \in [S -> Prefixes[r]] :
           Owned(kv)' = OP!Fill(OP!Take(OP!Give(q, r, G), r, H, N), r, S, h)
    BY ByZenon
  <1>5. PICK h \in [S -> Prefixes[r]] :
           Owned(kv)' = OP!Fill(OP!Take(OP!Give(q, r, G), r, H, N), r, S, h)
    BY ByZenon, <1>4
  <1>6. S \subseteq q.fresh[r] \cup N
    <2>1. q.fresh \in [Requests -> SUBSET Real]
      BY ByZenon DEF Owned
    <2> HIDE DEF q
    <2>2. OP!Take(OP!Give(q, r, G), r, H, N).fresh[r] = (q.fresh[r] \ G) \cup N
      BY ByZenon, <2>1 DEF OP!Take, OP!Give
    <2>3. QED BY ByZenon, <2>2
  <1>7. /\ G \in SUBSET q.holds[r] /\ H \in SUBSET Ownership!Offered(Ownership!Give(q, r, G), r)
        /\ N \in SUBSET (Ownership!Give(q, r, G).free \ H) /\ S \in SUBSET (q.fresh[r] \cup N)
        /\ h \in [S -> Prefixes[r]]
    BY ByZenon, <1>5, <1>6 DEF OP!Give, OP!Offered, Ownership!Give, Ownership!Offered, Prefixes
  <1>8. Ownership!Allocate(r, G, H, N, S, h)
    BY ByZenon, <1>4, <1>5 DEF OP!Give, OP!Offered, OP!Take, OP!Fill, Ownership!Allocate, Ownership!Give, Ownership!Offered, Ownership!Take, Ownership!Fill, Prefixes
  <1> HIDE DEF q
  <1>9. QED BY ByZenon, <1>7, <1>8 DEF Ownership!Next, q, Prefixes

(* So is giving all blocks back.                                            *)
LEMMA ReleaseStep ==
    ASSUME NEW r \in Requests, Owned(kv)' = OP!Give(Owned(kv), r, Owned(kv).holds[r])
    PROVE  Ownership!Next
  <1>1. Ownership!Release(r)
    BY ByZenon DEF Ownership!Release, Ownership!Give, OP!Give
  <1>2. QED BY ByZenon, <1>1 DEF Ownership!Next

(* So is dropping hashes.                                                   *)
LEMMA UnhashStep ==
    ASSUME NEW S \in SUBSET Real, Owned(kv)' = OP!Unhash(Owned(kv), S)
    PROVE  Ownership!Next
  <1>1. Ownership!Evict(S)
    BY ByZenon DEF Ownership!Evict, Ownership!Unhash, OP!Unhash
  <1>2. QED BY ByZenon, <1>1 DEF Ownership!Next

(* A call that only drops hashes, with their map entries and events.        *)
LEMMA UnhashSound ==
    ASSUME NEW k, Sound(k), NEW t, Mapped(t), SameTables(k, t),
           t.ref_cnt = k.ref_cnt, t.free = k.free, NEW S \in SUBSET Blocks,
           \A b \in Blocks : t.block_hash[b] = IF b \in S THEN NoHash ELSE k.block_hash[b]
    PROVE  Sound(t) /\ Owned(t) = OP!Unhash(Owned(k), S \cap Real)
  <1>1. k \in KV /\ QueueOK(k) /\ TablesOK(k) /\ PrefixOK(k) /\ OP!PoolInv(Owned(k)) /\ t \in KV
        /\ MapOK(t) /\ EventsOK(t)
    BY ByZenon DEF Sound, Mapped
  <1> USE <1>1
  <1>2. Owned(t) = OP!Unhash(Owned(k), S \cap Real)
    <2>1. [b \in Real |-> t.block_hash[b]]
             = [b \in Real |-> IF b \in S \cap Real THEN NoHash ELSE [c \in Real |-> k.block_hash[c]][b]]
      BY ByZenon DEF Real
    <2> DEFINE holds(m) == [r \in Requests |-> Range(m.req_to_blocks[r]) \ {NullBlock}]
               fresh(m) == [r \in Requests |->
                              {b \in Real : \E i \in DOMAIN m.req_to_blocks[r] :
                                 m.req_to_blocks[r][i] = b /\ i > m.num_cached_block[r]}]
               ref(m) == [b \in Real |-> m.ref_cnt[b]]
               hash(m) == [b \in Real |-> m.block_hash[b]]
    <2>2. \A m : Owned(m) = [ref |-> ref(m), free |-> Range(m.free), hash |-> hash(m),
                             holds |-> holds(m), fresh |-> fresh(m)]
      BY ByZenon DEF Owned
    <2>3. holds(t) = holds(k) /\ fresh(t) = fresh(k) /\ ref(t) = ref(k)
      BY ByZenon DEF SameTables
    <2>4. hash(t) = [b \in Real |-> IF b \in S \cap Real THEN NoHash ELSE hash(k)[b]]
      BY ByZenon, <2>1
    <2> HIDE DEF holds, fresh, ref, hash
    <2>5. QED BY ByZenon, <2>2, <2>3, <2>4 DEF OP!Unhash
  <1>3. OP!PoolInv(Owned(t))
    <2> DEFINE q == Owned(k)
               R == S \cap Real
    <2>1. R \in SUBSET Real /\ OP!PoolInv(q)
      BY ByZenon
    <2> HIDE DEF q, R
    <2>2. OP!PoolInv(OP!Unhash(q, R))
      BY ByZenon, <2>1, OwnershipFits, OP!UnhashPreserves
    <2>3. QED BY ByZenon, <1>2, <2>2 DEF q, R
  <1>4. QueueOK(t) /\ TablesOK(t)
    <2>1. NullBlock \in Blocks
      BY ByZenon, PoolAssumption DEF PoolAssumption
    <2>2. QED BY ByZenon, <2>1 DEF QueueOK, TablesOK, SameTables
  <1>5. PrefixOK(t)
    <2>1. ASSUME NEW r \in Requests, NEW i \in DOMAIN t.req_to_blocks[r], t.req_to_blocks[r][i] # NullBlock
          PROVE  t.block_hash[t.req_to_blocks[r][i]] \in OwnHash(r, i)
      <3> DEFINE b == k.req_to_blocks[r][i]
                 P == OwnHash(r, i)
      <3>1. k.req_to_blocks[r] \in Seq(Blocks) /\ t.req_to_blocks[r] = k.req_to_blocks[r]
        BY ByZenon DEF KV, SameTables
      <3>2. b \in Blocks /\ b = t.req_to_blocks[r][i] /\ b # NullBlock /\ i \in DOMAIN k.req_to_blocks[r]
        BY <2>1, <3>1, SeqFun DEF SeqIs
      <3> USE <3>2
      <3>3. k.block_hash[b] \in P /\ NoHash \in P
        BY ByZenon DEF PrefixOK, OwnHash
      <3> HIDE DEF b, P
      <3>4. t.block_hash[b] \in P
        BY ByZenon, <3>3
      <3>5. QED BY ByZenon, <3>4 DEF P
    <2>2. QED BY ByZenon, <2>1 DEF PrefixOK
  <1>6. QED BY ByZenon, <1>2, <1>3, <1>4, <1>5 DEF Sound

(* The conclusion of EvictSound.                                            *)
EvictSoundly(k, S) ==
    /\ Sound(evict_blocks(k, S)) /\ SameTables(k, evict_blocks(k, S))
    /\ Owned(evict_blocks(k, S)) = OP!Unhash(Owned(k), S \cap Real)

(* evict_blocks.                                                            *)
LEMMA EvictSound ==
    ASSUME Counting, NEW k, Sound(k), NEW S \in SUBSET Blocks
    PROVE  EvictSoundly(k, S)
  <1> USE DEF EvictSoundly
  <1> DEFINE t == evict_blocks(k, S)
  <1>1. Mapped(k)
    BY ByZenon DEF Sound, Mapped
  <1>2. /\ Mapped(t) /\ SameTables(k, t) /\ t.ref_cnt = k.ref_cnt /\ t.free = k.free
        /\ \A b \in Blocks : t.block_hash[b] = IF b \in S THEN NoHash ELSE k.block_hash[b]
    BY ByZenon, <1>1, EvictFacts DEF EvictIs
  <1> HIDE DEF t
  <1>3. Sound(t) /\ Owned(t) = OP!Unhash(Owned(k), S \cap Real)
    BY ByZenon, <1>2, UnhashSound
  <1>4. QED BY ByZenon, <1>2, <1>3 DEF t

(* The conclusion of ResetSound.                                            *)
ResetIs(k) ==
    /\ Sound(reset_prefix_cache(k)) /\ SameTables(k, reset_prefix_cache(k))
    /\ Owned(reset_prefix_cache(k)) = OP!Unhash(Owned(k), Blocks \cap Real)

(* reset_prefix_cache, once it is allowed.                                  *)
LEMMA ResetSound ==
    ASSUME NEW k, Sound(k), CanReset(k)
    PROVE  ResetIs(k)
  <1> USE DEF ResetIs
  <1> DEFINE t == reset_prefix_cache(k)
  <1>0. k \in KV
    BY ByZenon DEF Sound
  <1>1. t = [k EXCEPT !.block_hash = [b \in Blocks |-> NoHash],
                   !.cached     = [h \in Hashes |-> <<>>],
                   !.published  = [h \in Hashes |-> 0]]
    BY ByZenon DEF reset_prefix_cache
  <1> HIDE DEF t
  <1>2. t \in KV
    <2>1. [b \in Blocks |-> NoHash] \in [Blocks -> Hashes \cup {NoHash}]
          /\ [h \in Hashes |-> <<>>] \in [Hashes -> Seq(Blocks)] /\ [h \in Hashes |-> 0] \in [Hashes -> Int]
      OBVIOUS
    <2>2. QED BY ByZenon, <1>0, <1>1, <2>1 DEF KV
  <1>3. /\ SameTables(k, t) /\ t.ref_cnt = k.ref_cnt /\ t.free = k.free
        /\ t.block_hash = [b \in Blocks |-> NoHash] /\ t.cached = [h \in Hashes |-> <<>>]
        /\ t.published = [h \in Hashes |-> 0]
    BY ByZenon, <1>0, <1>1 DEF KV, SameTables
  <1> USE <1>3
  <1>4. MapOK(t) /\ EventsOK(t)
    BY HashTypes DEF MapOK, EventsOK, IsInjective, Range, HashesTyped
  <1>5. Sound(t) /\ Owned(t) = OP!Unhash(Owned(k), Blocks \cap Real)
    <2>1. Mapped(t) /\ Blocks \in SUBSET Blocks
          /\ \A b \in Blocks : t.block_hash[b] = IF b \in Blocks THEN NoHash ELSE k.block_hash[b]
      BY ByZenon, <1>2, <1>4 DEF Mapped
    <2>2. QED BY ByZenon, <2>1, UnhashSound
  <1>6. QED BY ByZenon, <1>5 DEF t

(* The conclusion of InitSound.                                             *)
InitIs(w) ==
    /\ Sound(InitCache(w))
    /\ Owned(InitCache(w)) = [ref   |-> [b \in Real |-> 0],
                              free  |-> Real,
                              hash  |-> [b \in Real |-> NoHash],
                              holds |-> [r \in Requests |-> {}],
                              fresh |-> [r \in Requests |-> {}]]

(* The manager after construction.                                          *)
LEMMA InitSound ==
    ASSUME Counting, NEW w \in Nat
    PROVE  InitIs(w)
  <1> USE DEF InitIs
  <1> DEFINE t == InitCache(w)
             f == Listed(Real)
  <1>1. IsFiniteSet(Real) /\ NullBlock \in Blocks
    BY ByZenon, PoolAssumption, CountDifference DEF PoolAssumption, Real
  <1>2. f \in Seq(Real) /\ IsInjective(f) /\ Range(f) = Real
    BY ByZenon, <1>1, ListedFacts
  <1> USE <1>2
  <1>3. f \in Seq(Blocks)
    BY SeqFun, FunSeq DEF Real, SeqIs
  <1>4. t = [ref_cnt |-> [b \in Blocks |-> 0], block_hash |-> [b \in Blocks |-> NoHash],
             free |-> f, cached |-> [h \in Hashes |-> <<>>], published |-> [h \in Hashes |-> 0],
             err |-> {}, window |-> w, req_to_blocks |-> [r \in Requests |-> <<>>],
             num_cached_block |-> [r \in Requests |-> NotTracked]]
    BY ByZenon DEF InitCache, InitPool, Real
  <1> HIDE DEF t, f
  <1>5. t \in KV
    BY <1>3, <1>4 DEF KV, NotTracked
  <1>6. QueueOK(t)
    BY ByZenon, <1>1, <1>4 DEF QueueOK, Real
  <1>7. TablesOK(t) /\ PrefixOK(t)
    BY <1>4 DEF TablesOK, PrefixOK, NotTracked, Once
  <1>8. MapOK(t) /\ EventsOK(t)
    BY <1>4, HashTypes DEF MapOK, EventsOK, IsInjective, Range, HashesTyped
  <1>9. Owned(t) = [ref   |-> [b \in Real |-> 0],
                    free  |-> Real,
                    hash  |-> [b \in Real |-> NoHash],
                    holds |-> [r \in Requests |-> {}],
                    fresh |-> [r \in Requests |-> {}]]
    <2>1. [b \in Real |-> t.ref_cnt[b]] = [b \in Real |-> 0]
          /\ [b \in Real |-> t.block_hash[b]] = [b \in Real |-> NoHash]
      BY ByZenon, <1>4 DEF Real
    <2>2. \A r \in Requests : t.req_to_blocks[r] = <<>> /\ DOMAIN t.req_to_blocks[r] = {}
      BY <1>4
    <2>3. [r \in Requests |-> Range(t.req_to_blocks[r]) \ {NullBlock}] = [r \in Requests |-> {}]
      BY ByZenon, <2>2 DEF Range
    <2>4. [r \in Requests |-> {b \in Real : \E i \in DOMAIN t.req_to_blocks[r] :
                     t.req_to_blocks[r][i] = b /\ i > t.num_cached_block[r]}] = [r \in Requests |-> {}]
      BY ByZenon, <2>2
    <2>5. Range(t.free) = Real
      BY ByZenon, <1>4
    <2>6. QED BY ByZenon, <2>1, <2>3, <2>4, <2>5 DEF Owned
  <1>10. OP!PoolInv(Owned(t))
    <2> DEFINE q == Owned(t)
    <2>1. q \in OP!Pool
      BY <1>9 DEF OP!Pool
    <2>2. \A b \in Real : OP!Holders(q, b) = {} /\ q.ref[b] = 0 /\ b \in q.free /\ q.hash[b] = NoHash
      BY <1>9 DEF OP!Holders
    <2>3. \A r \in Requests : q.holds[r] = {} /\ q.fresh[r] = {}
      BY <1>9
    <2> HIDE DEF q
    <2>4. OP!Counts(0, {})
      BY ByZenon, OwnershipFits, OP!CountsZero
    <2>5. QED BY ByZenon, <2>1, <2>2, <2>3, <2>4 DEF OP!PoolInv, OP!RefInv, OP!FreeInv, OP!WriterInv, OP!PrefixInv, q
  <1>11. QED BY ByZenon, <1>5, <1>6, <1>7, <1>8, <1>9, <1>10 DEF Sound, t

-----------------------------------------------------------------------------
(* Requests: the client side of the invariant, action by action.            *)

(* The computed tokens of r lie in its table.                               *)
Fits(k, r, com) == com <= Len(k.req_to_blocks[r]) * BlockSize

(* Every place of the table of r that holds the null block lies behind the  *)
(* window at n computed tokens.                                             *)
Backed(k, r, n) ==
    \A i \in NullPlaces(k.req_to_blocks[r]) : i * BlockSize <= get_num_skipped_tokens(k, n)

(* The tokens that are sure to be computed when r runs next: a waiting      *)
(* request computes at least one.                                           *)
Reach(st, com) == IF st = "waiting" THEN com + 1 ELSE com

(* A load that fails rolls a request back to the tokens that are valid,     *)
(* which moves its window back over blocks that are gone.  The blocks of    *)
(* the window are claimed only when this cannot happen: loads fail at most  *)
(* for full attention, which has no window (window 0).                      *)
SafeLoads == LoadFailures \subseteq {0}

(* What holds for a request.  The conjunct before the last is the one       *)
(* exception of the code: a request of one token that was loaded completely *)
(* waits with its table and with no token computed, and no hit can be found *)
(* for it.  The last one says that the gaps of its table lie behind the     *)
(* window.                                                                  *)
Client(k, r, st, tok, com) ==
    /\ tok \in Nat \ {0} /\ tok <= MaxTokens[r] /\ com \in Nat /\ com <= tok
    /\ st \in {"waiting", "loading", "running"}
    /\ Fits(k, r, com)
    /\ st = "loading" => k.num_cached_block[r] # NotTracked
    /\ st = "waiting" /\ k.num_cached_block[r] = NotTracked => k.req_to_blocks[r] = <<>> /\ com = 0
    /\ st = "waiting" /\ k.num_cached_block[r] # NotTracked /\ com = 0 => tok = 1
    /\ SafeLoads => Backed(k, r, Reach(st, com))

(* The inductive invariant.                                                 *)
IInv ==
    /\ Sound(kv)
    /\ status \in [Requests -> {"waiting", "loading", "running"}]
    /\ tokens \in [Requests -> Nat] /\ computed \in [Requests -> Nat]
    /\ \A r \in Requests : Client(kv, r, status[r], tokens[r], computed[r])

(* What a call for r leaves alone.                                          *)
Others(k, t, r) == /\ OnlyTable(k, t, r) /\ t.window = k.window
                   /\ \A s \in Requests \ {r} : t.num_cached_block[s] = k.num_cached_block[s]

(* An empty table has no gap.                                               *)
LEMMA BackedEmpty ==
    ASSUME NEW k, NEW r, k.req_to_blocks[r] = <<>>, NEW n
    PROVE  Backed(k, r, n)
  <1>1. DOMAIN <<>> = {}
    OBVIOUS
  <1>2. QED BY ByZenon, <1>1 DEF Backed, NullPlaces

(* The gaps depend on the table and the window alone.                       *)
LEMMA BackedSame ==
    ASSUME NEW k, NEW r, NEW n, Backed(k, r, n), NEW t,
           t.req_to_blocks[r] = k.req_to_blocks[r], t.window = k.window
    PROVE  Backed(t, r, n)
  BY ByZenon DEF Backed, get_num_skipped_tokens

(* The tokens up to the end of a place are a number.                        *)
LEMMA PlaceTokens ==
    ASSUME NEW s \in Seq(Blocks), NEW i \in NullPlaces(s)
    PROVE  i \in Nat /\ i * BlockSize \in Int
  <1>1. i \in Nat
    BY DEF NullPlaces
  <1>2. BlockSize \in Nat \ {0}
    BY ByZenon, CacheAssumption DEF CacheAssumption
  <1>3. QED BY <1>1, <1>2, Products DEF ProductsOrdered

(* More computed tokens keep the gaps behind the window.                    *)
LEMMA BackedMore ==
    ASSUME NEW k, Sound(k), NEW r \in Requests, NEW m \in Nat, NEW n \in Nat, m <= n, Backed(k, r, m)
    PROVE  Backed(k, r, n)
  <1>1. k \in KV /\ k.req_to_blocks[r] \in Seq(Blocks)
    BY ByZenon DEF Sound, KV
  <1>2. /\ get_num_skipped_tokens(k, m) <= get_num_skipped_tokens(k, n)
        /\ get_num_skipped_tokens(k, m) \in Nat /\ get_num_skipped_tokens(k, n) \in Nat
    BY ByZenon, <1>1, SkippedGrow, SkippedTokens
  <1> DEFINE x == get_num_skipped_tokens(k, m)
             y == get_num_skipped_tokens(k, n)
  <1>3. x \in Nat /\ y \in Nat /\ x <= y
    BY ByZenon, <1>2
  <1>4. ASSUME NEW i \in NullPlaces(k.req_to_blocks[r]) PROVE i * BlockSize <= y
    <2>1. i * BlockSize <= x
      BY ByZenon DEF Backed
    <2> HIDE DEF x, y
    <2> DEFINE z == i * BlockSize
    <2>2. z \in Int /\ z <= x
      BY ByZenon, <1>1, <2>1, PlaceTokens
    <2> HIDE DEF z
    <2>3. z <= y
      BY <1>3, <2>2
    <2>4. QED BY ByZenon, <2>3 DEF z
  <1>5. QED BY ByZenon, <1>4 DEF Backed

(* allocate_slots leaves gaps behind the window only: those that were       *)
(* there, those of the hits, and those of remove_skipped_blocks.            *)
LEMMA AllocBacked ==
    ASSUME NEW k, Sound(k), NEW r \in Requests, NEW n \in Nat, Backed(k, r, n), NEW total \in Nat, total <= n,
           NEW hits \in Seq(Blocks), BehindWindow(k, hits), Len(hits) * BlockSize <= total,
           NEW t, t.window = k.window, NullPlaces(t.req_to_blocks[r]) \subseteq GapsAfter(k, r, hits, total)
    PROVE  Backed(t, r, n)
  <1> DEFINE Skip(j) == get_num_skipped_tokens(k, j)
             B == BlockSize
             h == Len(hits) * B
  <1>1. k \in KV /\ B \in Nat \ {0} /\ Len(hits) \in Nat
    BY CacheAssumption DEF Sound, CacheAssumption
  <1>2. h \in Nat
    BY <1>1, Products DEF ProductsOrdered
  <1>3. h <= n
    <2> HIDE DEF h
    <2>1. h <= total
      BY ByZenon DEF h
    <2>2. QED BY <1>2, <2>1
  <1>4. Skip(total) \in Nat /\ Skip(n) \in Nat /\ Skip(h) \in Nat /\ Skip(total) <= Skip(n) /\ Skip(h) <= Skip(n)
    <2> HIDE DEF h
    <2>1. QED BY ByZenon, <1>1, <1>2, <1>3, SkippedGrow, SkippedTokens
  <1>5. ASSUME NEW i \in NullPlaces(t.req_to_blocks[r]) PROVE i * B <= Skip(n)
    <2>1. CASE i \in NullPlaces(k.req_to_blocks[r])
      BY ByZenon, <2>1 DEF Backed
    <2>2. CASE i \in NullPlaces(hits)
      <3> DEFINE x == Skip(h)
                 y == Skip(n)
                 z == i * B
      <3>1. x \in Nat /\ y \in Nat /\ x <= y /\ z \in Int /\ z <= x
        BY ByZenon, <1>4, <2>2, PlaceTokens DEF BehindWindow
      <3> HIDE DEF x, y, z
      <3>2. z <= y
        BY <3>1
      <3>3. QED BY ByZenon, <3>2 DEF y, z
    <2>3. CASE i \in 1..SkippedBlocks(k, total)
      <3> DEFINE x == Skip(total)
                 y == Skip(n)
                 q == x \div B
      <3>1. x \in Nat /\ y \in Nat /\ x <= y
        BY ByZenon, <1>4
      <3>2. i \in 1..q
        BY ByZenon, <2>3 DEF SkippedBlocks
      <3> HIDE DEF x, y, Skip, B
      <3>3. q \in Nat /\ q * B <= x
        BY ByZenon, <1>1, <3>1, Quotient DEF QuotientIs
      <3> HIDE DEF q
      <3>4. i \in Nat /\ i <= q
        BY <3>2, <3>3
      <3>5. i * B <= q * B /\ i * B \in Int /\ q * B \in Int
        BY <1>1, <3>3, <3>4, Products DEF ProductsOrdered
      <3> DEFINE u == i * B
                 v == q * B
      <3>6. u \in Int /\ v \in Int /\ u <= v /\ v <= x
        BY ByZenon, <3>3, <3>5
      <3> HIDE DEF u, v
      <3>7. u <= y
        BY <3>1, <3>6
      <3>8. QED BY ByZenon, <3>7 DEF u, y
    <2>4. QED BY ByZenon, <1>5, <2>1, <2>2, <2>3 DEF GapsAfter
  <1>6. get_num_skipped_tokens(t, n) = Skip(n)
    BY ByZenon DEF get_num_skipped_tokens
  <1>7. QED BY ByZenon, <1>5, <1>6 DEF Backed

(* A step for r keeps the invariant of all requests when it keeps that of   *)
(* r.                                                                       *)
LEMMA ClientStep ==
    ASSUME IInv, NEW r \in Requests, Sound(kv'), Others(kv, kv', r), NEW st, NEW tok, NEW com,
           Client(kv', r, st, tok, com),
           status' = [status EXCEPT ![r] = st], tokens' = [tokens EXCEPT ![r] = tok],
           computed' = [computed EXCEPT ![r] = com]
    PROVE  IInv'
  <1>1. st \in {"waiting", "loading", "running"} /\ tok \in Nat /\ com \in Nat
    BY ByZenon DEF Client
  <1>2. status' \in [Requests -> {"waiting", "loading", "running"}]
        /\ tokens' \in [Requests -> Nat] /\ computed' \in [Requests -> Nat]
    BY ByZenon, <1>1 DEF IInv
  <1>3. ASSUME NEW s \in Requests PROVE Client(kv', s, status'[s], tokens'[s], computed'[s])
    <2>1. CASE s = r
      <3>1. status'[s] = st /\ tokens'[s] = tok /\ computed'[s] = com
        BY ByZenon, <2>1 DEF IInv
      <3>2. QED BY ByZenon, <2>1, <3>1
    <2>2. CASE s # r
      <3>1. status'[s] = status[s] /\ tokens'[s] = tokens[s] /\ computed'[s] = computed[s]
        BY ByZenon, <2>2 DEF IInv
      <3>2. kv'.req_to_blocks[s] = kv.req_to_blocks[s] /\ kv'.num_cached_block[s] = kv.num_cached_block[s]
        BY ByZenon, <2>2 DEF Others, OnlyTable
      <3>2a. ASSUME SafeLoads PROVE Backed(kv', s, Reach(status[s], computed[s]))
        <4>1. Backed(kv, s, Reach(status[s], computed[s])) /\ kv'.window = kv.window
          BY ByZenon, <3>2a DEF Others, IInv, Client
        <4>2. QED BY ByZenon, <3>2, <4>1, BackedSame
      <3>3. Client(kv, s, status[s], tokens[s], computed[s])
        BY ByZenon DEF IInv
      <3>4. QED BY ByZenon, <3>1, <3>2, <3>2a, <3>3 DEF Client, Fits
    <2>3. QED BY ByZenon, <2>1, <2>2
  <1>4. QED BY ByZenon, <1>2, <1>3 DEF IInv

(* The conclusion of Lengths.                                               *)
LengthsOK(r, n) ==
    /\ BlockSize \in Nat \ {0} /\ MaxModelLen \in Nat /\ MaxTokens[r] \in Nat
    /\ n <= MaxModelLen /\ n \div BlockSize <= Len(BlockHashes[r])

(* What the assumptions on the constants give for a request.                *)
LEMMA Lengths ==
    ASSUME NEW r \in Requests, NEW n \in Nat, n <= MaxTokens[r]
    PROVE  LengthsOK(r, n)
  <1> USE DEF LengthsOK
  <1>1. /\ BlockSize \in Nat \ {0} /\ MaxModelLen \in Nat /\ MaxTokens[r] \in Nat
        /\ MaxTokens[r] <= MaxModelLen /\ MaxTokens[r] \div BlockSize <= Len(BlockHashes[r])
    BY ByZenon, CacheAssumption, ClientAssumption DEF CacheAssumption, ClientAssumption
  <1> USE <1>1
  <1>2. n \div BlockSize \in Nat /\ MaxTokens[r] \div BlockSize \in Nat
        /\ n \div BlockSize <= MaxTokens[r] \div BlockSize
    BY ByZenon, Quotient, Monotone DEF QuotientIs
  <1>3. Len(BlockHashes[r]) \in Nat
    BY ByZenon, HashTypes DEF HashesTyped
  <1> DEFINE x == n \div BlockSize
             y == MaxTokens[r] \div BlockSize
             z == Len(BlockHashes[r])
  <1>4. x \in Nat /\ y \in Nat /\ z \in Nat /\ x <= y /\ y <= z
    BY ByZenon, <1>2, <1>3
  <1> HIDE DEF x, y, z
  <1>5. x <= z
    BY <1>4
  <1>6. QED BY <1>5 DEF x, z

(* In an invariant state the scheduler passes arguments that allocate_slots *)
(* may get.                                                                 *)
LEMMA ArgsFit ==
    ASSUME IInv, NEW r \in Requests, NEW hits, NEW ext \in Nat, NEW new \in Nat, NEW delay, NEW reserved \in Nat,
           HitsOK(kv, r, hits),
           hits # <<>> \/ ext > 0 => status[r] = "waiting" /\ computed[r] = 0,
           hits # <<>> => Len(hits) <= (tokens[r] - 1) \div BlockSize,
           computed[r] + Len(hits) * BlockSize + ext <= tokens[r]
    PROVE  ArgsOK(kv, r, Args(r, hits, ext, new, delay, reserved))
  <1> DEFINE a == Args(r, hits, ext, new, delay, reserved)
  <1>1. /\ a.computed = computed[r] /\ a.num_tokens = tokens[r] /\ a.new = new /\ a.hits = hits
        /\ a.ext = ext /\ a.lookahead = (IF delay THEN 0 ELSE Lookahead) /\ a.reserved = reserved
    BY ByZenon DEF Args
  <1> HIDE DEF a
  <1>2. Client(kv, r, status[r], tokens[r], computed[r]) /\ tokens[r] \in Nat \ {0} /\ tokens[r] <= MaxTokens[r]
        /\ computed[r] \in Nat
    BY ByZenon DEF IInv, Client
  <1> USE <1>2
  <1>3. /\ BlockSize \in Nat \ {0} /\ MaxModelLen \in Nat /\ MaxTokens[r] \in Nat
        /\ tokens[r] <= MaxModelLen /\ tokens[r] \div BlockSize <= Len(BlockHashes[r])
    BY ByZenon, Lengths DEF LengthsOK
  <1> USE <1>3
  <1>4. a.lookahead \in Nat
    BY <1>1, ClientAssumption DEF ClientAssumption
  <1>5. Len(hits) \in Nat /\ (Len(hits) = 0 => hits = <<>>)
    BY DEF HitsOK
  <1>6. MayAllocate(kv, r, computed[r], hits, ext)
    <2>1. computed[r] <= Len(kv.req_to_blocks[r]) * BlockSize
      BY ByZenon DEF Client, Fits
    <2>2. ASSUME hits # <<>> \/ ext > 0
          PROVE  \/ kv.num_cached_block[r] # NotTracked /\ hits = <<>>
                 \/ kv.num_cached_block[r] = NotTracked /\ kv.req_to_blocks[r] = <<>> /\ computed[r] = 0
      <3>1. CASE kv.num_cached_block[r] = NotTracked
        BY ByZenon, <2>2, <3>1 DEF Client
      <3>2. CASE kv.num_cached_block[r] # NotTracked
        <4>1. tokens[r] = 1
          BY ByZenon, <2>2, <3>2 DEF Client
        <4>2. 0 \div BlockSize = 0
          <5>1. 0 \div BlockSize \in Nat /\ 0 \div BlockSize <= 0
            BY ByZenon, Quotient DEF QuotientIs
          <5>2. QED BY <5>1
        <4>3. hits # <<>> => Len(hits) <= 0
          BY <4>1, <4>2
        <4>4. QED BY <1>5, <3>2, <4>3
      <3>3. QED BY ByZenon, <3>1, <3>2
    <2>3. QED BY ByZenon, <2>1, <2>2 DEF MayAllocate
  <1>7. computed[r] + Len(hits) * BlockSize + ext <= MaxModelLen
    <2> DEFINE m == computed[r] + Len(hits) * BlockSize + ext
    <2>1. Len(hits) * BlockSize \in Nat
      BY <1>5, Products DEF ProductsOrdered
    <2>2. m \in Nat /\ m <= tokens[r]
      BY <2>1
    <2> HIDE DEF m
    <2>3. m <= MaxModelLen
      BY <2>2
    <2>4. QED BY ByZenon, <2>3 DEF m
  <1>8. ArgsOK(kv, r, a)
    BY ByZenon, <1>1, <1>4, <1>6, <1>7 DEF ArgsOK
  <1>9. QED BY ByZenon, <1>8 DEF a

(* A waiting request is scheduled.                                          *)
LEMMA ScheduleStep ==
    ASSUME Counting, IInv, NEW r \in Requests, NEW ext \in Nat, NEW new \in Nat \ {0}, Schedule(r, ext, new)
    PROVE  IInv' /\ Ownership!Next
  <1> DEFINE hits == IF computed[r] = 0 THEN get_computed_blocks(kv, r, tokens[r]) ELSE <<>>
             have == computed[r] + Len(hits) * BlockSize + ext
             a == Args(r, hits, ext, new, FALSE, 0)
             res == allocate_slots(kv, r, a)
  <1>1. /\ status[r] = "waiting" /\ (ext > 0 => computed[r] = 0) /\ have + new <= tokens[r]
        /\ kv' = res.kv
        /\ (res.ok => /\ status' = [status EXCEPT ![r] = "running"]
                      /\ computed' = [computed EXCEPT ![r] = have + new])
        /\ (~res.ok => status' = status /\ computed' = computed)
        /\ tokens' = tokens
    BY ByZenon DEF Schedule
  <1> USE <1>1
  <1>2. /\ Sound(kv) /\ Client(kv, r, status[r], tokens[r], computed[r])
        /\ tokens[r] \in Nat \ {0} /\ tokens[r] <= MaxTokens[r] /\ computed[r] \in Nat
    BY ByZenon DEF IInv, Client
  <1> USE <1>2
  <1>3. /\ BlockSize \in Nat \ {0} /\ MaxModelLen \in Nat /\ tokens[r] <= MaxModelLen
    BY ByZenon, Lengths DEF LengthsOK
  <1>4. /\ HitsOK(kv, r, hits) /\ Len(hits) \in Nat
        /\ (hits # <<>> => computed[r] = 0 /\ Len(hits) <= (tokens[r] - 1) \div BlockSize)
        /\ BehindWindow(kv, hits)
    <2>1. CASE computed[r] = 0
      <3>1. hits = get_computed_blocks(kv, r, tokens[r])
        BY ByZenon, <2>1
      <3>2. /\ HitsOK(kv, r, get_computed_blocks(kv, r, tokens[r]))
            /\ Len(get_computed_blocks(kv, r, tokens[r])) <= (tokens[r] - 1) \div BlockSize
            /\ Len(get_computed_blocks(kv, r, tokens[r])) \in Nat
            /\ BehindWindow(kv, get_computed_blocks(kv, r, tokens[r]))
        BY ByZenon, ComputedBlocks DEF ComputedAre
      <3>3. QED BY ByZenon, <2>1, <3>1, <3>2
    <2>2. CASE computed[r] # 0
      <3>1. hits = <<>>
        BY ByZenon, <2>2
      <3>2. HitsOK(kv, r, <<>>) /\ BehindWindow(kv, <<>>)
        BY DEF HitsOK, BehindWindow, NullPlaces
      <3>3. QED BY ByZenon, <3>1, <3>2
    <2>3. QED BY ByZenon, <2>1, <2>2
  <1> USE <1>4
  <1> HIDE DEF hits, res
  <1>5. Len(hits) * BlockSize \in Nat
    BY <1>3, Products DEF ProductsOrdered
  <1>6. have \in Nat /\ have <= tokens[r] /\ have + new \in Nat /\ have + new <= MaxModelLen
        /\ MinOf(have + new, MaxModelLen) = have + new
    <2> DEFINE m == Len(hits) * BlockSize
    <2>1. m \in Nat /\ have = computed[r] + m + ext
      BY ByZenon, <1>5
    <2> HIDE DEF m, have
    <2>2. have \in Nat
      BY <2>1
    <2>3. QED BY <1>3, <2>2 DEF MinOf
  <1>7. ArgsOK(kv, r, a)
    <2>1. hits # <<>> \/ ext > 0 => status[r] = "waiting" /\ computed[r] = 0
      BY ByZenon
    <2>2. QED BY ByZenon, <1>6, <2>1, ArgsFit
  <1>8. AllocEffect(kv, r, a, res)
    BY ByZenon, <1>7, AllocateSound DEF res
  <1>9. a.computed = computed[r] /\ a.hits = hits /\ a.ext = ext /\ a.new = new
    BY ByZenon DEF Args
  <1> HIDE DEF a
  <1>10. /\ Sound(kv') /\ Others(kv, kv', r) /\ Allocated(Owned(kv), r, Owned(kv'))
         /\ ~res.ok => /\ Len(kv'.req_to_blocks[r]) = Len(kv.req_to_blocks[r])
                       /\ kv'.num_cached_block[r] = kv.num_cached_block[r]
         /\ res.ok => MinOf(have + new, MaxModelLen) <= Len(kv'.req_to_blocks[r]) * BlockSize
         /\ kv'.window = kv.window
         /\ NullPlaces(kv'.req_to_blocks[r]) \subseteq GapsAfter(kv, r, hits, have)
    BY ByZenon, <1>8, <1>9 DEF AllocEffect, Others
  <1>10a. hits \in Seq(Blocks) /\ Len(hits) * BlockSize <= have /\ computed[r] <= have
    <2> DEFINE m == Len(hits) * BlockSize
    <2>1. m \in Nat /\ have = computed[r] + m + ext
      BY ByZenon, <1>5
    <2> HIDE DEF m, have
    <2>2. m <= have /\ computed[r] <= have
      BY <2>1
    <2>3. QED BY ByZenon, <2>2 DEF m, HitsOK
  <1> USE <1>10
  <1> HIDE DEF have
  <1>11. Ownership!Next
    BY ByZenon, AllocStep DEF Owned
  <1>12. IInv'
    <2>0. tokens' = [tokens EXCEPT ![r] = tokens[r]]
      BY ByZenon DEF IInv
    <2>1. CASE res.ok
      <3>0. ASSUME SafeLoads PROVE Backed(kv', r, have + new)
        <4>1. computed[r] + 1 \in Nat /\ computed[r] + 1 <= have + new /\ have <= have + new /\ have + new \in Nat
          BY <1>6, <1>10a
        <4>2. Backed(kv, r, computed[r] + 1)
          BY ByZenon, <3>0 DEF Client, Reach
        <4>3. Backed(kv, r, have + new)
          BY ByZenon, <4>1, <4>2, BackedMore
        <4>4. QED BY ByZenon, <1>6, <1>10a, <4>1, <4>3, AllocBacked
      <3>1. Client(kv', r, "running", tokens[r], have + new)
        BY ByZenon, <1>6, <2>1, <3>0 DEF Client, Fits, Reach
      <3>2. status' = [status EXCEPT ![r] = "running"] /\ computed' = [computed EXCEPT ![r] = have + new]
        BY ByZenon, <2>1
      <3>3. QED BY ByZenon, <2>0, <3>1, <3>2, ClientStep
    <2>2. CASE ~res.ok
      <3> USE <2>2
      <3>1. status' = [status EXCEPT ![r] = status[r]] /\ computed' = [computed EXCEPT ![r] = computed[r]]
        BY ByZenon DEF IInv
      <3>2. kv.req_to_blocks[r] = <<>> => kv'.req_to_blocks[r] = <<>>
        <4>1. kv'.req_to_blocks[r] \in Seq(Blocks)
          BY ByZenon DEF Sound, KV
        <4>2. QED BY <4>1
      <3>2a. ASSUME SafeLoads PROVE Backed(kv', r, computed[r] + 1)
        <4>1. CASE kv.req_to_blocks[r] = <<>>
          BY ByZenon, <3>2, <4>1, BackedEmpty
        <4>2. CASE kv.req_to_blocks[r] # <<>>
          <5>1. Backed(kv, r, computed[r] + 1)
            BY ByZenon, <3>2a DEF Client, Reach
          <5>2. have <= computed[r] + 1
            <6>1. CASE computed[r] # 0
              <7>1. hits = <<>> /\ ext = 0
                BY <6>1
              <7>2. Len(hits) * BlockSize = 0
                BY <1>3, <7>1
              <7>3. QED BY <7>1, <7>2 DEF have
            <6>2. CASE computed[r] = 0
              <7>1. tokens[r] = 1
                BY ByZenon, <4>2, <6>2 DEF Client
              <7>2. QED BY <1>6, <6>2, <7>1
            <6>3. QED BY ByZenon, <6>1, <6>2
          <5>3. computed[r] + 1 \in Nat
            OBVIOUS
          <5>4. QED BY ByZenon, <1>6, <1>10a, <5>1, <5>2, <5>3, AllocBacked
        <4>3. QED BY ByZenon, <4>1, <4>2
      <3>3. Client(kv', r, status[r], tokens[r], computed[r])
        BY ByZenon, <3>2, <3>2a DEF Client, Fits, Reach
      <3>4. QED BY ByZenon, <2>0, <3>1, <3>3, ClientStep
    <2>3. QED BY ByZenon, <2>1, <2>2
  <1>13. QED BY ByZenon, <1>11, <1>12

(* A waiting request starts to load.                                        *)
LEMMA StartLoadStep ==
    ASSUME Counting, IInv, NEW r \in Requests, NEW ext \in Nat \ {0}, NEW reserved \in Nat, StartLoad(r, ext, reserved)
    PROVE  IInv' /\ Ownership!Next
  <1> DEFINE hits == get_computed_blocks(kv, r, tokens[r])
             have == Len(hits) * BlockSize + ext
             a == Args(r, hits, ext, 0, TRUE, reserved)
             res == allocate_slots(kv, r, a)
  <1>1. /\ status[r] = "waiting" /\ computed[r] = 0 /\ have <= tokens[r] /\ res.ok /\ kv' = res.kv
        /\ status' = [status EXCEPT ![r] = "loading"] /\ computed' = [computed EXCEPT ![r] = have]
        /\ tokens' = tokens
    BY ByZenon DEF StartLoad
  <1>2. /\ Sound(kv) /\ tokens[r] \in Nat \ {0} /\ tokens[r] <= MaxTokens[r] /\ computed[r] \in Nat
    BY ByZenon DEF IInv, Client
  <1>3. /\ BlockSize \in Nat \ {0} /\ MaxModelLen \in Nat /\ tokens[r] <= MaxModelLen
    BY ByZenon, <1>2, Lengths DEF LengthsOK
  <1>4. /\ HitsOK(kv, r, hits) /\ Len(hits) <= (tokens[r] - 1) \div BlockSize /\ Len(hits) \in Nat
        /\ BehindWindow(kv, hits)
    BY ByZenon, <1>2, ComputedBlocks DEF ComputedAre
  <1> HIDE DEF hits, res
  <1>5. Len(hits) * BlockSize \in Nat
    BY <1>3, <1>4, Products DEF ProductsOrdered
  <1>6. have \in Nat /\ have <= MaxModelLen /\ have = computed[r] + Len(hits) * BlockSize + ext
        /\ have + 0 = have /\ MinOf(have + 0, MaxModelLen) = have
    <2> DEFINE m == Len(hits) * BlockSize
    <2>1. m \in Nat /\ have = m + ext
      BY ByZenon, <1>5
    <2> HIDE DEF m, have
    <2>2. have \in Nat /\ have = computed[r] + m + ext /\ have <= MaxModelLen
      BY <1>1, <1>2, <1>3, <2>1
    <2>3. QED BY <1>3, <2>2 DEF MinOf, m
  <1>7. ArgsOK(kv, r, a)
    <2>1. computed[r] + Len(hits) * BlockSize + ext <= tokens[r]
      BY ByZenon, <1>1, <1>6
    <2>2. hits # <<>> \/ ext > 0 => status[r] = "waiting" /\ computed[r] = 0
      BY ByZenon, <1>1
    <2>3. hits # <<>> => Len(hits) <= (tokens[r] - 1) \div BlockSize
      BY ByZenon, <1>4
    <2>4. 0 \in Nat /\ ext \in Nat
      BY ByZenon
    <2>5. ArgsOK(kv, r, Args(r, hits, ext, 0, TRUE, reserved))
      BY ByZenon, <1>4, <2>1, <2>2, <2>3, <2>4, ArgsFit
    <2>6. QED BY ByZenon, <2>5
  <1>8. AllocEffect(kv, r, a, res)
    BY ByZenon, <1>2, <1>7, AllocateSound DEF res
  <1>9. a.computed = computed[r] /\ a.hits = hits /\ a.ext = ext /\ a.new = 0
    BY ByZenon DEF Args
  <1> HIDE DEF a
  <1>10. /\ Sound(kv') /\ Others(kv, kv', r) /\ Allocated(Owned(kv), r, Owned(kv'))
         /\ MinOf(computed[r] + Len(hits) * BlockSize + ext + 0, MaxModelLen) <= Len(kv'.req_to_blocks[r]) * BlockSize
         /\ kv'.num_cached_block[r] # NotTracked /\ kv'.window = kv.window
         /\ NullPlaces(kv'.req_to_blocks[r])
              \subseteq GapsAfter(kv, r, hits, computed[r] + Len(hits) * BlockSize + ext)
    BY <1>1, <1>8, <1>9 DEF AllocEffect, Others
  <1>10a. ASSUME SafeLoads PROVE Backed(kv', r, have)
    <2>1. Backed(kv, r, 1)
      BY <1>1, <1>10a DEF IInv, Client, Reach
    <2>2. Len(hits) * BlockSize <= have /\ 1 <= have /\ have <= have /\ 1 \in Nat
      BY <1>5
    <2>3. Backed(kv, r, have)
      BY ByZenon, <1>2, <1>6, <2>1, <2>2, BackedMore
    <2>4. hits \in Seq(Blocks) /\ NullPlaces(kv'.req_to_blocks[r]) \subseteq GapsAfter(kv, r, hits, have)
      BY ByZenon, <1>4, <1>6, <1>10 DEF HitsOK
    <2> HIDE DEF have
    <2>5. QED BY ByZenon, <1>2, <1>4, <1>6, <1>10, <2>2, <2>3, <2>4, AllocBacked
  <1>11. have <= Len(kv'.req_to_blocks[r]) * BlockSize
    BY ByZenon, <1>6, <1>10
  <1> HIDE DEF have
  <1>12. Ownership!Next
    BY ByZenon, <1>10, AllocStep DEF Owned
  <1>13. tokens' = [tokens EXCEPT ![r] = tokens[r]]
    BY ByZenon, <1>1 DEF IInv
  <1>14. Client(kv', r, "loading", tokens[r], have)
    BY ByZenon, <1>1, <1>2, <1>6, <1>10, <1>10a, <1>11 DEF Client, Fits, Reach
  <1>15. IInv'
    BY ByZenon, <1>1, <1>10, <1>13, <1>14, ClientStep
  <1>16. QED BY ByZenon, <1>12, <1>15

(* A running request computes more tokens; rejected drafts leave it more    *)
(* blocks than it needs.                                                    *)
LEMMA ContinueStep ==
    ASSUME Counting, IInv, NEW r \in Requests, NEW new \in Nat, NEW drafts \in Nat, Continue(r, new, drafts)
    PROVE  IInv' /\ Ownership!Next
  <1> DEFINE n == new + drafts
             a == Args(r, <<>>, 0, n, FALSE, 0)
             res == allocate_slots(kv, r, a)
  <1>1. /\ status[r] = "running" /\ computed[r] + new <= tokens[r]
        /\ computed[r] + new + drafts <= MaxModelLen - 1 /\ kv' = res.kv
        /\ computed' = (IF res.ok THEN [computed EXCEPT ![r] = @ + new] ELSE computed)
        /\ status' = status /\ tokens' = tokens
    BY ByZenon DEF Continue
  <1>2. /\ Sound(kv) /\ Client(kv, r, status[r], tokens[r], computed[r])
        /\ tokens[r] \in Nat \ {0} /\ tokens[r] <= MaxTokens[r] /\ computed[r] \in Nat /\ computed[r] <= tokens[r]
    BY ByZenon DEF IInv, Client
  <1>3. /\ BlockSize \in Nat \ {0} /\ MaxModelLen \in Nat /\ tokens[r] <= MaxModelLen
    BY ByZenon, <1>2, Lengths DEF LengthsOK
  <1>4. n \in Nat /\ HitsOK(kv, r, <<>>) /\ Len(<<>>) * BlockSize = 0
    BY <1>3 DEF HitsOK
  <1> HIDE DEF res
  <1>5. computed[r] + Len(<<>>) * BlockSize + 0 <= tokens[r]
    BY <1>2, <1>4
  <1>6. computed[r] + Len(<<>>) * BlockSize + 0 + n = computed[r] + new + drafts
        /\ MinOf(computed[r] + Len(<<>>) * BlockSize + 0 + n, MaxModelLen) = computed[r] + new + drafts
    BY <1>1, <1>2, <1>3, <1>4 DEF MinOf
  <1>7. ArgsOK(kv, r, a)
    <2> HIDE DEF n
    <2>1. <<>> # <<>> \/ 0 > 0 => status[r] = "waiting" /\ computed[r] = 0
      OBVIOUS
    <2>2. <<>> # <<>> => Len(<<>>) <= (tokens[r] - 1) \div BlockSize
      BY ByZenon
    <2> DEFINE none == <<>>
               zero == 0
    <2>3. /\ HitsOK(kv, r, none) /\ zero \in Nat
          /\ (none # <<>> \/ zero > 0 => status[r] = "waiting" /\ computed[r] = 0)
          /\ (none # <<>> => Len(none) <= (tokens[r] - 1) \div BlockSize)
          /\ computed[r] + Len(none) * BlockSize + zero <= tokens[r]
      BY ByZenon, <1>4, <1>5, <2>1, <2>2
    <2> HIDE DEF none, zero
    <2>4. ArgsOK(kv, r, Args(r, none, zero, n, FALSE, zero))
      <3> DEFINE no == FALSE
      <3> HIDE DEF no
      <3>1. n \in Nat
        BY ByZenon, <1>4
      <3>2. ArgsOK(kv, r, Args(r, none, zero, n, no, zero))
        BY ByZenon, <2>3, <3>1, ArgsFit
      <3>3. QED BY ByZenon, <3>2 DEF no
    <2>5. QED BY ByZenon, <2>4 DEF none, zero
  <1>8. AllocEffect(kv, r, a, res)
    BY ByZenon, <1>2, <1>7, AllocateSound DEF res
  <1>9. a.computed = computed[r] /\ a.hits = <<>> /\ a.ext = 0 /\ a.new = n
    BY ByZenon DEF Args
  <1> HIDE DEF a, n
  <1>10. /\ Sound(kv') /\ Others(kv, kv', r) /\ Allocated(Owned(kv), r, Owned(kv'))
         /\ ~res.ok => Len(kv'.req_to_blocks[r]) = Len(kv.req_to_blocks[r])
         /\ res.ok => MinOf(computed[r] + Len(<<>>) * BlockSize + 0 + n, MaxModelLen)
                        <= Len(kv'.req_to_blocks[r]) * BlockSize
         /\ kv'.window = kv.window
         /\ NullPlaces(kv'.req_to_blocks[r])
              \subseteq GapsAfter(kv, r, <<>>, computed[r] + Len(<<>>) * BlockSize + 0)
    BY ByZenon, <1>1, <1>8, <1>9 DEF AllocEffect, Others
  <1>10a. ASSUME SafeLoads PROVE Backed(kv', r, computed[r])
    <2> DEFINE none == <<>>
               c == computed[r]
    <2>1. Backed(kv, r, c)
      BY ByZenon, <1>1, <1>2, <1>10a DEF Client, Reach
    <2>2. none \in Seq(Blocks) /\ BehindWindow(kv, none) /\ Len(none) * BlockSize = 0
      BY <1>4 DEF BehindWindow, NullPlaces
    <2>3. NullPlaces(kv'.req_to_blocks[r]) \subseteq GapsAfter(kv, r, none, c)
      <3>1. computed[r] + Len(<<>>) * BlockSize + 0 = c
        BY <1>2, <1>4
      <3>2. QED BY ByZenon, <1>10, <3>1
    <2>4. c \in Nat /\ c <= c /\ 0 <= c
      BY <1>2
    <2> HIDE DEF none, c
    <2>5. Backed(kv', r, c)
      BY ByZenon, <1>2, <1>10, <2>1, <2>2, <2>3, <2>4, AllocBacked
    <2>6. QED BY ByZenon, <2>5 DEF c
  <1>11. Ownership!Next
    BY ByZenon, <1>10, AllocStep DEF Owned
  <1>12. tokens' = [tokens EXCEPT ![r] = tokens[r]] /\ status' = [status EXCEPT ![r] = "running"]
    BY ByZenon, <1>1 DEF IInv
  <1>13. IInv'
    <2>1. CASE res.ok
      <3>1. Len(kv'.req_to_blocks[r]) * BlockSize \in Nat
        <4>1. Len(kv'.req_to_blocks[r]) \in Nat
          BY <1>10 DEF Sound, KV
        <4>2. QED BY <1>3, <4>1, Products DEF ProductsOrdered
      <3>2. computed[r] + new <= Len(kv'.req_to_blocks[r]) * BlockSize
        <4> DEFINE L == Len(kv'.req_to_blocks[r]) * BlockSize
        <4>1. computed[r] + new + drafts <= L /\ L \in Nat
          BY ByZenon, <1>6, <1>10, <2>1, <3>1
        <4> HIDE DEF L
        <4>2. computed[r] + new <= L
          BY <1>2, <4>1
        <4>3. QED BY ByZenon, <4>2 DEF L
      <3>2a. ASSUME SafeLoads PROVE Backed(kv', r, computed[r] + new)
        <4>1. computed[r] + new \in Nat /\ computed[r] <= computed[r] + new
          BY <1>2
        <4>2. QED BY ByZenon, <1>2, <1>10, <1>10a, <3>2a, <4>1, BackedMore
      <3>3. Client(kv', r, "running", tokens[r], computed[r] + new)
        BY <1>1, <1>2, <3>2, <3>2a DEF Client, Fits, Reach
      <3>4. computed' = [computed EXCEPT ![r] = computed[r] + new]
        BY ByZenon, <1>1, <2>1
      <3>5. QED BY ByZenon, <1>10, <1>12, <3>3, <3>4, ClientStep
    <2>2. CASE ~res.ok
      <3>1. Client(kv', r, "running", tokens[r], computed[r])
        BY ByZenon, <1>1, <1>2, <1>10, <1>10a, <2>2 DEF Client, Fits, Reach
      <3>2. computed' = [computed EXCEPT ![r] = computed[r]]
        BY ByZenon, <1>1, <2>2 DEF IInv
      <3>3. QED BY ByZenon, <1>10, <1>12, <3>1, <3>2, ClientStep
    <2>3. QED BY ByZenon, <2>1, <2>2
  <1>14. QED BY ByZenon, <1>11, <1>13

(* free_request leaves no table and no entry of r.                          *)
LEMMA FreedStep ==
    ASSUME Counting, IInv, NEW r \in Requests, kv' = free_request(kv, r)
    PROVE  /\ Sound(kv') /\ Others(kv, kv', r) /\ Ownership!Next
           /\ kv'.req_to_blocks[r] = <<>> /\ kv'.num_cached_block[r] = NotTracked
  <1> DEFINE t == free_request(kv, r)
  <1>1. Sound(kv)
    BY ByZenon DEF IInv
  <1>2. /\ Sound(t) /\ Owned(t) = OP!Give(Owned(kv), r, Owned(kv).holds[r])
        /\ t.req_to_blocks = [kv.req_to_blocks EXCEPT ![r] = <<>>]
        /\ t.num_cached_block = [kv.num_cached_block EXCEPT ![r] = NotTracked]
        /\ t.window = kv.window
    BY ByZenon, <1>1, ReleaseSound DEF ReleaseIs
  <1> USE <1>2
  <1> HIDE DEF t
  <1>3. kv' = t
    BY ByZenon DEF t
  <1>4. Owned(kv)' = OP!Give(Owned(kv), r, Owned(kv).holds[r])
    <2>1. Owned(kv)' = Owned(t)
      BY ByZenon, <1>3 DEF Owned
    <2>2. QED BY ByZenon, <2>1
  <1>5. Ownership!Next
    BY ByZenon, <1>4, ReleaseStep
  <1>6. kv.req_to_blocks \in [Requests -> Seq(Blocks)] /\ kv.num_cached_block \in [Requests -> Int]
    BY ByZenon, <1>1 DEF Sound, KV
  <1>7. Others(kv, t, r) /\ t.req_to_blocks[r] = <<>> /\ t.num_cached_block[r] = NotTracked
    BY ByZenon, <1>6 DEF Others, OnlyTable
  <1>8. QED BY ByZenon, <1>3, <1>5, <1>7

(* A request is preempted or done.                                          *)
LEMMA FreeStep ==
    ASSUME Counting, IInv, NEW r \in Requests, NEW n, Free(r, n)
    PROVE  IInv' /\ Ownership!Next
  <1>1. /\ n \in {tokens[r], PromptLen[r]} /\ kv' = free_request(kv, r)
        /\ status' = [status EXCEPT ![r] = "waiting"] /\ computed' = [computed EXCEPT ![r] = 0]
        /\ tokens' = [tokens EXCEPT ![r] = n]
    BY ByZenon DEF Free
  <1> USE <1>1
  <1>2. /\ Sound(kv') /\ Others(kv, kv', r) /\ Ownership!Next
        /\ kv'.req_to_blocks[r] = <<>> /\ kv'.num_cached_block[r] = NotTracked
    BY ByZenon, FreedStep
  <1>3. n \in Nat \ {0} /\ n <= MaxTokens[r]
    BY ByZenon, ClientAssumption DEF ClientAssumption, IInv, Client
  <1>4. BlockSize \in Nat \ {0} /\ Len(<<>>) = 0
    BY ByZenon, <1>3, Lengths DEF LengthsOK
  <1>5. Client(kv', r, "waiting", n, 0)
    BY <1>2, <1>3, <1>4, BackedEmpty DEF Client, Fits
  <1>6. QED BY ByZenon, <1>2, <1>5, ClientStep

(* The load of a request is over, with all, some or none of its tokens      *)
(* valid.                                                                   *)
LEMMA FinishLoadStep ==
    ASSUME Counting, IInv, NEW r \in Requests, NEW valid \in 0..computed[r], FinishLoad(r, valid)
    PROVE  IInv' /\ Ownership!Next
  <1> DEFINE have == IF valid = tokens[r] THEN valid - 1 ELSE valid
  <1>1. /\ status[r] = "loading"
        /\ kv' = (IF valid = 0 THEN free_request(kv, r) ELSE cache_blocks(kv, r, valid))
        /\ computed' = [computed EXCEPT ![r] = have] /\ status' = [status EXCEPT ![r] = "waiting"]
        /\ tokens' = tokens
        /\ (valid < computed[r] => kv.window \in LoadFailures)
    BY ByZenon DEF FinishLoad
  <1> USE <1>1
  <1>2. /\ Sound(kv) /\ Client(kv, r, status[r], tokens[r], computed[r])
        /\ tokens[r] \in Nat \ {0} /\ tokens[r] <= MaxTokens[r] /\ computed[r] \in Nat /\ computed[r] <= tokens[r]
    BY ByZenon DEF IInv, Client
  <1> USE <1>2
  <1>3. tokens' = [tokens EXCEPT ![r] = tokens[r]]
    BY ByZenon DEF IInv
  <1>4. valid \in Nat /\ valid <= computed[r] /\ valid <= tokens[r] /\ MaxTokens[r] \in Nat /\ valid <= MaxTokens[r]
    BY ClientAssumption DEF ClientAssumption
  <1> USE <1>4
  <1>5. BlockSize \in Nat \ {0} /\ valid \div BlockSize <= Len(BlockHashes[r])
    BY ByZenon, Lengths DEF LengthsOK
  <1> USE <1>5
  <1>6. have \in Nat /\ have <= tokens[r] /\ have <= valid /\ (have = 0 /\ valid # 0 => tokens[r] = 1)
        /\ (valid = 0 => have = 0)
    OBVIOUS
  <1> USE <1>6
  <1> HIDE DEF have
  <1>7. CASE valid = 0
    <2>1. kv' = free_request(kv, r)
      BY ByZenon, <1>7
    <2>2. /\ Sound(kv') /\ Others(kv, kv', r) /\ Ownership!Next
          /\ kv'.req_to_blocks[r] = <<>> /\ kv'.num_cached_block[r] = NotTracked
      BY ByZenon, <2>1, FreedStep
    <2>3. Len(<<>>) = 0
      BY ByZenon
    <2>4. Client(kv', r, "waiting", tokens[r], have)
      BY <1>7, <2>2, <2>3, BackedEmpty DEF Client, Fits
    <2>5. QED BY ByZenon, <1>3, <2>2, <2>4, ClientStep
  <1>8. CASE valid # 0
    <2> DEFINE t == cache_blocks(kv, r, valid)
               L == Len(kv.req_to_blocks[r])
    <2>1. kv' = t
      BY ByZenon, <1>8
    <2>2. valid \div BlockSize <= L
      <3>1. L \in Nat /\ computed[r] <= L * BlockSize
        BY DEF Client, Fits, Sound, KV
      <3> USE <3>1
      <3> HIDE DEF L
      <3>2. L * BlockSize \in Nat
        BY Products DEF ProductsOrdered
      <3>3. valid <= L * BlockSize
        BY <3>2
      <3>4. cdiv(valid, BlockSize) \in Nat /\ valid \div BlockSize <= cdiv(valid, BlockSize)
            /\ \A q \in Nat : valid <= q * BlockSize => cdiv(valid, BlockSize) <= q
        BY ByZenon, RoundUp DEF RoundsUp
      <3>5. valid \div BlockSize \in Nat /\ cdiv(valid, BlockSize) <= L
        BY ByZenon, <3>3, <3>4, Quotient DEF QuotientIs
      <3> DEFINE x == valid \div BlockSize
                 y == cdiv(valid, BlockSize)
      <3>6. x \in Nat /\ y \in Nat /\ x <= y /\ y <= L
        BY ByZenon, <3>4, <3>5
      <3> HIDE DEF x, y
      <3>7. x <= L
        BY <3>6
      <3>8. QED BY ByZenon, <3>7 DEF x
    <2>3. CacheEffect(kv, r, t)
      BY ByZenon, <2>2, CacheSound
    <2>4. SkipEffect(kv, r, kv) /\ TakeEffect(kv, r, kv)
      BY ByZenon, GiveNothing, TakeEffectRefl
    <2> HIDE DEF t
    <2>5. /\ Sound(t) /\ OnlyTable(kv, t, r) /\ t.window = kv.window
          /\ \A s \in Requests \ {r} : t.num_cached_block[s] = kv.num_cached_block[s]
          /\ Allocated(Owned(kv), r, Owned(t))
      BY <2>3, <2>4, Compose DEF Composed
    <2>6. Owned(kv)' = Owned(t)
      BY ByZenon, <2>1 DEF Owned
    <2>7. Ownership!Next
      BY ByZenon, <2>5, <2>6, AllocStep
    <2>8. t.req_to_blocks = kv.req_to_blocks /\ t.num_cached_block[r] # NotTracked
      BY ByZenon, <2>3 DEF CacheEffect, Client
    <2>9. Fits(t, r, have)
      <3>1. L \in Nat /\ computed[r] <= L * BlockSize
        BY DEF Client, Fits, Sound, KV
      <3> HIDE DEF L
      <3>2. L * BlockSize \in Nat
        BY <3>1, Products DEF ProductsOrdered
      <3>3. have <= L * BlockSize
        BY <3>1, <3>2
      <3>4. QED BY ByZenon, <2>8, <3>3 DEF L, Fits
    <2>9a. ASSUME SafeLoads PROVE Backed(t, r, have + 1)
      <3>1. Backed(kv, r, computed[r])
        BY ByZenon, <2>9a DEF Client, Reach
      <3>2. Backed(kv, r, have + 1)
        <4>1. CASE valid = computed[r]
          <5>1. computed[r] <= have + 1 /\ have + 1 \in Nat
            BY <4>1 DEF have
          <5>2. QED BY ByZenon, <3>1, <5>1, BackedMore
        <4>2. CASE valid # computed[r]
          <5>0. valid < computed[r]
            BY <4>2
          <5>1. kv.window = 0
            BY ByZenon, <2>9a, <5>0 DEF SafeLoads
          <5>2. QED BY ByZenon, <3>1, <5>1 DEF Backed, get_num_skipped_tokens
        <4>3. QED BY ByZenon, <4>1, <4>2
      <3>3. QED BY ByZenon, <2>5, <2>8, <3>2, BackedSame
    <2>10. Client(t, r, "waiting", tokens[r], have)
      BY ByZenon, <1>8, <2>8, <2>9, <2>9a DEF Client, Reach
    <2>11. Sound(kv') /\ Others(kv, kv', r) /\ Client(kv', r, "waiting", tokens[r], have)
      BY ByZenon, <2>1, <2>5, <2>10 DEF Others
    <2>12. QED BY ByZenon, <1>3, <2>7, <2>11, ClientStep
  <1>9. QED BY ByZenon, <1>7, <1>8

-----------------------------------------------------------------------------
(* Next, and the theorems.                                                  *)

(* Hashes are dropped and nothing else changes.                             *)
LEMMA DropStep ==
    ASSUME IInv, NEW S \in SUBSET Blocks, Sound(kv'), SameTables(kv, kv'),
           Owned(kv') = OP!Unhash(Owned(kv), S \cap Real),
           status' = status, tokens' = tokens, computed' = computed
    PROVE  IInv' /\ Ownership!Next
  <1>1. Ownership!Next
    <2> DEFINE R == S \cap Real
    <2>1. R \in SUBSET Real /\ Owned(kv)' = OP!Unhash(Owned(kv), R)
      BY ByZenon DEF Owned
    <2> HIDE DEF R
    <2>2. QED BY ByZenon, <2>1, UnhashStep
  <1>2. \A r \in Requests : Client(kv', r, status[r], tokens[r], computed[r])
    <2>1. ASSUME NEW r \in Requests, SafeLoads PROVE Backed(kv', r, Reach(status[r], computed[r]))
      <3>1. Backed(kv, r, Reach(status[r], computed[r]))
        BY ByZenon, <2>1 DEF IInv, Client
      <3>2. kv'.req_to_blocks[r] = kv.req_to_blocks[r] /\ kv'.window = kv.window
        BY ByZenon DEF SameTables
      <3>3. QED BY ByZenon, <3>1, <3>2, BackedSame
    <2>2. QED BY ByZenon, <2>1 DEF IInv, Client, Fits, SameTables
  <1>3. IInv'
    BY ByZenon, <1>2 DEF IInv
  <1>4. QED BY ByZenon, <1>1, <1>3

(* Blocks that could not be loaded are evicted from the cache.              *)
LEMMA EvictStep ==
    ASSUME Counting, IInv, NEW r \in Requests, NEW i \in DOMAIN kv.req_to_blocks[r], Evict(r, i)
    PROVE  IInv' /\ Ownership!Next
  <1> DEFINE blocks == kv.req_to_blocks[r]
             S == {blocks[j] : j \in i..Len(blocks)}
             t == evict_blocks(kv, S)
  <1>1. kv' = t /\ status' = status /\ tokens' = tokens /\ computed' = computed
    BY ByZenon DEF Evict
  <1>2. Sound(kv)
    BY ByZenon DEF IInv
  <1>3. S \in SUBSET Blocks
    <2>1. blocks \in Seq(Blocks)
      BY ByZenon, <1>2 DEF Sound, KV
    <2>2. Len(blocks) \in Nat /\ DOMAIN blocks = 1..Len(blocks) /\ \A j \in 1..Len(blocks) : blocks[j] \in Blocks
      BY ByZenon, <2>1, SeqFun DEF SeqIs
    <2> USE <2>2
    <2> HIDE DEF blocks
    <2>3. i \in 1..Len(blocks)
      BY ByZenon DEF blocks
    <2>4. \A j \in i..Len(blocks) : j \in 1..Len(blocks)
      BY <2>3
    <2>5. QED BY ByZenon, <2>4
  <1> HIDE DEF S
  <1>4. Sound(t) /\ SameTables(kv, t) /\ Owned(t) = OP!Unhash(Owned(kv), S \cap Real)
    BY ByZenon, <1>2, <1>3, EvictSound DEF EvictSoundly
  <1>5. QED BY ByZenon, <1>1, <1>3, <1>4, DropStep

(* The prefix cache is reset.                                               *)
LEMMA ResetStep ==
    ASSUME IInv, Reset
    PROVE  IInv' /\ Ownership!Next
  <1> DEFINE t == reset_prefix_cache(kv)
  <1>1. kv' = t /\ status' = status /\ tokens' = tokens /\ computed' = computed /\ CanReset(kv)
    BY ByZenon DEF Reset
  <1>2. Sound(kv)
    BY ByZenon DEF IInv
  <1>3. Sound(t) /\ SameTables(kv, t) /\ Owned(t) = OP!Unhash(Owned(kv), Blocks \cap Real)
    BY ByZenon, <1>1, <1>2, ResetSound DEF ResetIs
  <1>4. Blocks \in SUBSET Blocks
    BY ByZenon
  <1>5. QED BY ByZenon, <1>1, <1>3, <1>4, DropStep

(* A sampled token changes no block.                                        *)
LEMMA SampleStep ==
    ASSUME IInv, NEW r \in Requests, Sample(r)
    PROVE  IInv' /\ Owned(kv)' = Owned(kv)
  <1>1. /\ status[r] = "running" /\ computed[r] = tokens[r] /\ tokens[r] < MaxTokens[r]
        /\ tokens' = [tokens EXCEPT ![r] = tokens[r] + 1] /\ kv' = kv /\ status' = status /\ computed' = computed
    BY ByZenon DEF Sample
  <1> USE <1>1
  <1>2. /\ Sound(kv) /\ Client(kv, r, status[r], tokens[r], computed[r])
    BY ByZenon DEF IInv
  <1> USE <1>2
  <1>3. MaxTokens[r] \in Nat /\ tokens[r] \in Nat
    BY ByZenon, ClientAssumption DEF ClientAssumption, Client
  <1>4. Client(kv', r, "running", tokens[r] + 1, computed[r])
    BY <1>3 DEF Client, Fits, Reach
  <1>5. Sound(kv') /\ Others(kv, kv', r)
    BY ByZenon DEF Others, OnlyTable
  <1>6. status' = [status EXCEPT ![r] = "running"] /\ computed' = [computed EXCEPT ![r] = computed[r]]
    BY ByZenon DEF IInv
  <1>7. IInv'
    BY ByZenon, <1>4, <1>5, <1>6, ClientStep
  <1>8. QED BY ByZenon, <1>7 DEF Owned

(* Init satisfies the invariant and maps to an initial state.               *)
LEMMA InitInv ==
    ASSUME Counting PROVE Init => IInv /\ Ownership!Init
  <1> SUFFICES ASSUME Init PROVE IInv /\ Ownership!Init
    BY ByZenon
  <1>1. PICK w \in Windows : kv = InitCache(w)
    BY ByZenon DEF Init
  <1>2. w \in Nat
    BY ByZenon, ClientAssumption DEF ClientAssumption
  <1>3. /\ Sound(kv)
        /\ Owned(kv) = [ref   |-> [b \in Real |-> 0], free  |-> Real, hash  |-> [b \in Real |-> NoHash],
                        holds |-> [r \in Requests |-> {}], fresh |-> [r \in Requests |-> {}]]
    BY ByZenon, <1>1, <1>2, InitSound DEF InitIs
  <1>4. Ownership!Init
    BY ByZenon, <1>3 DEF Ownership!Init
  <1>5. ASSUME NEW r \in Requests PROVE Client(kv, r, status[r], tokens[r], computed[r])
    <2>1. status[r] = "waiting" /\ tokens[r] = PromptLen[r] /\ computed[r] = 0
          /\ kv.req_to_blocks[r] = <<>> /\ kv.num_cached_block[r] = NotTracked
      BY ByZenon, <1>1 DEF Init, InitCache
    <2>2. PromptLen[r] \in Nat \ {0} /\ PromptLen[r] <= MaxTokens[r]
      BY ByZenon, ClientAssumption DEF ClientAssumption
    <2>3. BlockSize \in Nat \ {0} /\ Len(<<>>) = 0
      BY ByZenon, CacheAssumption DEF CacheAssumption
    <2>4. QED BY <2>1, <2>2, <2>3, BackedEmpty DEF Client, Fits
  <1>6. status \in [Requests -> {"waiting", "loading", "running"}]
        /\ tokens \in [Requests -> Nat] /\ computed \in [Requests -> Nat]
    BY ByZenon, ClientAssumption DEF Init, ClientAssumption
  <1>7. QED BY ByZenon, <1>3, <1>4, <1>5, <1>6 DEF IInv

(* Every step keeps the invariant and maps to a step or a stutter.          *)
LEMMA NextInv ==
    ASSUME Counting PROVE IInv /\ [Next]_vars => IInv' /\ (Ownership!Next \/ Owned(kv)' = Owned(kv))
  <1> SUFFICES ASSUME IInv, [Next]_vars PROVE IInv' /\ (Ownership!Next \/ Owned(kv)' = Owned(kv))
    BY ByZenon
  <1>0. MaxChunk \in Nat \ {0} /\ Lookahead \in Nat /\ \A r \in Requests : MaxTokens[r] \in Nat
    BY ByZenon, ClientAssumption DEF ClientAssumption
  <1> USE <1>0
  <1>1. CASE UNCHANGED vars
    BY ByZenon, <1>1 DEF vars, IInv, Owned
  <1>2. ASSUME NEW r \in Requests, NEW ext \in 0..MaxChunk, NEW new \in 1..MaxChunk, Schedule(r, ext, new)
        PROVE  IInv' /\ Ownership!Next
    <2>1. ext \in Nat /\ new \in Nat \ {0}
      OBVIOUS
    <2>2. QED BY ByZenon, <1>2, <2>1, ScheduleStep
  <1>3. ASSUME NEW r \in Requests, NEW ext \in 1..MaxTokens[r], NEW res \in 0..1, StartLoad(r, ext, res)
        PROVE  IInv' /\ Ownership!Next
    <2>1. ext \in Nat \ {0} /\ res \in Nat
      OBVIOUS
    <2>2. QED BY ByZenon, <1>3, <2>1, StartLoadStep
  <1>4. ASSUME NEW r \in Requests, NEW new \in 1..MaxChunk, NEW drafts \in 0..Lookahead, Continue(r, new, drafts)
        PROVE  IInv' /\ Ownership!Next
    <2>1. new \in Nat /\ drafts \in Nat
      OBVIOUS
    <2>2. QED BY ByZenon, <1>4, <2>1, ContinueStep
  <1>5. ASSUME NEW r \in Requests, NEW valid \in 0..computed[r], FinishLoad(r, valid)
        PROVE  IInv' /\ Ownership!Next
    BY ByZenon, <1>5, FinishLoadStep
  <1>6. ASSUME NEW r \in Requests, Sample(r) PROVE IInv' /\ Owned(kv)' = Owned(kv)
    BY ByZenon, <1>6, SampleStep
  <1>7. ASSUME NEW r \in Requests, NEW n, Free(r, n) PROVE IInv' /\ Ownership!Next
    BY ByZenon, <1>7, FreeStep
  <1>8. ASSUME NEW r \in Requests, NEW i \in DOMAIN kv.req_to_blocks[r], Evict(r, i) PROVE IInv' /\ Ownership!Next
    BY ByZenon, <1>8, EvictStep
  <1>9. CASE Reset
    BY ByZenon, <1>9, ResetStep
  <1>10. QED BY ByZenon, <1>1, <1>2, <1>3, <1>4, <1>5, <1>6, <1>7, <1>8, <1>9 DEF Next

-------------------------------------------------------------------------------
(* The theorems.                                                            *)

INSTANCE TLAPS
INSTANCE FiniteSetTheorems

(* The facts about numbers and finite sets that the lemmas assume, from the *)
(* library.                                                                 *)
LEMMA CountingHolds == Counting
  <1>1. LeastNumber
    <2>1. SUFFICES ASSUME NEW S \in SUBSET Nat, S # {} PROVE \E x \in S : \A y \in S : x <= y
      BY ByZenon DEF LeastNumber
    <2>2. PICK x \in S : \A y \in S : ~(<<y, x>> \in OpToRel(<, Nat))
      BY <2>1, NatLessThanWellFounded, WFMin, Zenon
    <2>3. \A y \in S : ~(y < x)
      BY ByZenon, <2>2 DEF OpToRel
    <2>4. QED BY <2>3
  <1>2. EmptySize /\ SingletonSize /\ SizeType /\ IntervalSize
    BY ByZenon, FS_EmptySet, FS_Singleton, FS_CardinalityType, FS_Interval DEF EmptySize, SingletonSize, SizeType, IntervalSize
  <1>3. SubsetSize /\ UnionSize /\ DifferenceSize
    BY ByZenon, FS_Subset, FS_Union, FS_Difference DEF SubsetSize, UnionSize, DifferenceSize
  <1>4. BijectionSize /\ InjectionSize /\ SurjectionSize
    BY ByZenon, FS_Bijection, FS_Injection, FS_Surjection DEF BijectionSize, InjectionSize, SurjectionSize
  <1>5. ProductSize /\ FiniteUnion
    BY ByZenon, FS_Product, FS_UNION DEF ProductSize, FiniteUnion
  <1>6. QED BY ByZenon, <1>1, <1>2, <1>3, <1>4, <1>5 DEF Counting

(* The KV cache manager stays sound for any number of blocks, requests and  *)
(* tokens, any block size and any sliding window: kv_cache_manager.py,      *)
(* single_type_kv_cache_manager.py and block_pool.py, driven by any calls   *)
(* the scheduler can make.                                                  *)
THEOREM ManagerStaysSound ==
    Spec => []IInv
  <1>1. Init => IInv
    BY ByZenon, CountingHolds, InitInv
  <1>2. IInv /\ [Next]_vars => IInv'
    BY ByZenon, CountingHolds, NextInv
  <1>3. QED BY <1>1, <1>2, PTL DEF Spec

(* No assertion of the manager fails and no exception is raised: the blocks *)
(* that allocate_slots predicts always suffice for what it takes, no block  *)
(* gets a second hash, and the free queue is only asked to remove free      *)
(* blocks.                                                                  *)
THEOREM NeverFails ==
    Spec => []NoError
  <1>1. IInv => NoError
    <2> SUFFICES ASSUME IInv PROVE NoError
      BY ByZenon
    <2>1. Sound(kv) /\ kv \in KV /\ TablesOK(kv)
      BY ByZenon DEF IInv, Sound
    <2> USE <2>1
    <2>2. kv.ref_cnt \in [Blocks -> Nat]
      BY ByZenon, CountingHolds, Reading DEF OwnershipRead
    <2>3. kv.num_cached_block \in [Requests -> Nat \cup {NotTracked}]
      <3>1. kv.num_cached_block \in [Requests -> Int]
        BY ByZenon DEF KV
      <3>2. \A r \in Requests : kv.num_cached_block[r] \in Nat \cup {NotTracked}
        BY <3>1 DEF TablesOK, NotTracked
      <3>3. QED BY ByZenon, <3>1, <3>2
    <2>4. kv.block_hash \in [Blocks -> Hashes \cup {NoHash}] /\ kv.free \in Seq(Blocks) /\ kv.err = {}
          /\ (\A h \in Hashes : kv.cached[h] \in Seq(Blocks))
          /\ (\A r \in Requests : kv.req_to_blocks[r] \in Seq(Blocks))
      BY ByZenon DEF KV
    <2>5. QED BY ByZenon, <2>2, <2>3, <2>4 DEF NoError, TypeOK, IInv
  <1>2. QED BY <1>1, ManagerStaysSound, PTL

(* cached_block_hash_to_block and the blocks' own hashes always agree.      *)
THEOREM MapIsExact ==
    Spec => []MapMatchesHashes
  <1>1. IInv => MapMatchesHashes
    BY ByZenon DEF IInv, Sound, MapOK, MapMatchesHashes
  <1>2. QED BY <1>1, ManagerStaysSound, PTL

(* The BlockStored and BlockRemoved events always add up to the cache.      *)
THEOREM EventsAreExact ==
    Spec => []EventsMirrorCache
  <1>1. IInv => EventsMirrorCache
    BY ByZenon DEF IInv, Sound, EventsOK, EventsMirrorCache
  <1>2. QED BY <1>1, ManagerStaysSound, PTL

(* No request ever reads a block that is cached for another prefix, or for  *)
(* another place of its own.                                                *)
THEOREM TablesHoldOwnPrefix ==
    Spec => []TablesMatchPrefix
  <1>1. IInv => TablesMatchPrefix
    BY ByZenon DEF IInv, Sound, PrefixOK, OwnHash, TablesMatchPrefix
  <1>2. QED BY <1>1, ManagerStaysSound, PTL

(* A running request has a block for every computed token that its          *)
(* attention can still reach: remove_skipped_blocks and the hits of a       *)
(* sliding window never leave a null block inside the window.  The          *)
(* assumption is on the configuration: loads fail for full attention only.  *)
THEOREM WindowStaysBacked ==
    ASSUME SafeLoads PROVE Spec => []WindowIsBacked
  <1>1. IInv => WindowIsBacked
    <2> SUFFICES ASSUME IInv, NEW r \in Requests, status[r] = "running",
                        NEW t \in get_num_skipped_tokens(kv, computed[r])..(computed[r] - 1)
                 PROVE  /\ t \div BlockSize + 1 \in DOMAIN kv.req_to_blocks[r]
                        /\ kv.req_to_blocks[r][t \div BlockSize + 1] # NullBlock
      BY ByZenon DEF WindowIsBacked
    <2> DEFINE B == BlockSize
               c == computed[r]
               skip == get_num_skipped_tokens(kv, c)
               tab == kv.req_to_blocks[r]
               i == t \div B + 1
    <2>1. /\ kv \in KV /\ tab \in Seq(Blocks) /\ Len(tab) \in Nat /\ DOMAIN tab = 1..Len(tab)
          /\ c \in Nat /\ c <= Len(tab) * B /\ B \in Nat \ {0}
      BY CacheAssumption DEF IInv, Client, Fits, Sound, KV, CacheAssumption
    <2>2. skip \in Nat
      BY ByZenon, <2>1, SkippedTokens
    <2>3. Backed(kv, r, c)
      BY ByZenon DEF IInv, Client, Reach
    <2> HIDE DEF skip, c, tab
    <2>4. t \in Nat /\ skip <= t /\ t < c
      BY <2>1, <2>2 DEF skip, c
    <2>5. t \div B \in Nat /\ t < i * B /\ (t \div B) * B <= t
      <3> DEFINE q == t \div B
      <3>1. q \in Nat /\ q * B <= t /\ t < q * B + B
        BY ByZenon, <2>1, <2>4, Quotient DEF QuotientIs
      <3> HIDE DEF q
      <3>2. (q + 1) * B = q * B + B
        BY <2>1, <3>1, Products DEF ProductsOrdered
      <3>3. QED BY ByZenon, <3>1, <3>2 DEF q
    <2>6. i \in 1..Len(tab)
      <3> DEFINE q == t \div B
                 u == q * B
                 v == Len(tab) * B
      <3>1. q \in Nat /\ u <= t /\ u \in Int /\ v \in Int /\ c <= v
        BY <2>1, <2>5, Products DEF ProductsOrdered
      <3>2. u < v
        <4> HIDE DEF u, v, q
        <4>1. QED BY <2>1, <2>4, <3>1
      <3>3. q < Len(tab)
        <4> HIDE DEF q
        <4>1. QED BY <2>1, <3>1, <3>2, Products DEF ProductsOrdered
      <3> HIDE DEF q
      <3>4. q + 1 \in 1..Len(tab)
        BY <2>1, <3>1, <3>3
      <3>5. QED BY ByZenon, <3>4 DEF q
    <2>7. tab[i] # NullBlock
      <3> DEFINE z == i * B
      <3>1. SUFFICES ASSUME tab[i] = NullBlock PROVE FALSE
        BY ByZenon
      <3>2. i \in NullPlaces(tab)
        BY ByZenon, <2>1, <2>6, <3>1 DEF NullPlaces
      <3> HIDE DEF i
      <3>3. z <= skip /\ z \in Int
        BY ByZenon, <2>1, <2>3, <3>2, PlaceTokens DEF Backed, skip, tab, c
      <3>4. t < z
        BY ByZenon, <2>5
      <3> HIDE DEF z
      <3>5. QED BY <2>2, <2>4, <3>3, <3>4
    <2>8. QED BY ByZenon, <2>1, <2>6, <2>7 DEF tab
  <1>2. QED BY <1>1, ManagerStaysSound, PTL

(* KVCacheManager implements BlockOwnership: what is proved of the counts,  *)
(* the free blocks, the writers and the prefixes there holds for the        *)
(* manager.                                                                 *)
THEOREM ManagerKeepsOwnership ==
    Spec => ImplementsOwnership
  <1>1. Init => Ownership!Init
    BY ByZenon, CountingHolds, InitInv
  <1>2. IInv /\ [Next]_vars => [Ownership!Next]_(Owned(kv))
    BY ByZenon, CountingHolds, NextInv
  <1>3. QED BY <1>1, <1>2, ManagerStaysSound, PTL DEF Spec, ImplementsOwnership, Ownership!Spec
===============================================================================
