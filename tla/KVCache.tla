-------------------------------- MODULE KVCache --------------------------------
(***************************************************************************)
(* The KV cache manager for a model with one KV cache group: KVCacheManager *)
(* over UnitaryKVCacheCoordinator over a FullAttentionManager or a         *)
(* SlidingWindowManager, on the block pool of BlockPool.tla.               *)
(*                                                                         *)
(* The state is the pool's record with three more fields:                  *)
(*   window            sliding_window of the layers, 0 for full attention; *)
(*   req_to_blocks     the block table of every request;                   *)
(*   num_cached_block  how many of its blocks are cached, or NotTracked.   *)
(* As in BlockPool.tla every method is an operator on that record.         *)
(***************************************************************************)
EXTENDS BlockPool

CONSTANTS BlockSize,      \* tokens of one block
          MaxModelLen,    \* max_model_len
          MaxBatchedTokens, \* max_num_batched_tokens
          EnableCaching   \* enable_prefix_caching

ASSUME CacheAssumption ==
    /\ BlockSize \in Nat \ {0}
    /\ MaxModelLen \in Nat \ {0}
    /\ MaxBatchedTokens \in Nat \ {0}
    /\ EnableCaching \in BOOLEAN

NotTracked == -1   \* the request has no entry in num_cached_block

InitCache(window) ==
    [ref_cnt          |-> InitPool.ref_cnt,
     block_hash       |-> InitPool.block_hash,
     free             |-> InitPool.free,
     cached           |-> InitPool.cached,
     published        |-> InitPool.published,
     err              |-> InitPool.err,
     window           |-> window,
     req_to_blocks    |-> [r \in Requests |-> <<>>],
     num_cached_block |-> [r \in Requests |-> NotTracked]]

cdiv(a, b) == (a + b - 1) \div b
Nulls(n) == [i \in 1..n |-> NullBlock]
MinOf(a, b) == IF a < b THEN a ELSE b
MaxOf(a, b) == IF a > b THEN a ELSE b
Greatest(S) == CHOOSE a \in S : \A b \in S : b <= a

(* Tokens before the attention window of the next token to compute.        *)
get_num_skipped_tokens(kv, n) ==
    IF kv.window = 0 THEN 0 ELSE MaxOf(0, n - kv.window + 1)

(* SlidingWindowSpec.max_admission_blocks_per_request; full attention has  *)
(* no such cap.                                                            *)
AdmissionCap(kv, n) ==
    IF kv.window = 0 THEN n
    ELSE MinOf(n, cdiv(MinOf(kv.window - 1 + MaxBatchedTokens, MaxModelLen), BlockSize) + 1)

-----------------------------------------------------------------------------
(* get_computed_blocks and the managers' find_longest_cache_hit.           *)

Hit(kv, r, i) == IsCached(kv, BlockHashes[r][i])
HitBlock(kv, r, i) == get_one_block(kv, BlockHashes[r][i])

(* Full attention: the longest cached prefix of at most n blocks.          *)
FullAttentionHit(kv, r, n) ==
    LET len == Greatest({k \in 0..n : \A i \in 1..k : Hit(kv, r, i)})
    IN  [i \in 1..len |-> HitBlock(kv, r, i)]

(* Sliding window: the rightmost run of cached blocks that covers the      *)
(* window, with null blocks before it; failing that, a cached prefix.      *)
SlidingWindowHit(kv, r, n) ==
    LET need == MaxOf(1, cdiv(kv.window - 1, BlockSize))
        ends == {e \in need..n : \A i \in (e - need + 1)..e : Hit(kv, r, i)}
        end  == Greatest(ends)
    IN  IF ends = {} THEN FullAttentionHit(kv, r, n)
        ELSE [i \in 1..end |-> IF i <= end - need THEN NullBlock
                                                  ELSE HitBlock(kv, r, i)]

get_computed_blocks(kv, r, num_tokens) ==
    LET n == (num_tokens - 1) \div BlockSize
    IN  IF ~EnableCaching THEN <<>>
        ELSE IF kv.window = 0 THEN FullAttentionHit(kv, r, n)
        ELSE SlidingWindowHit(kv, r, n)

-----------------------------------------------------------------------------
(* The single type manager.                                                *)

get_num_blocks_to_allocate_NoHits(kv, r, num_tokens, computed, total, capped) ==
    MaxOf(cdiv(num_tokens, BlockSize) - Len(computed) - Len(kv.req_to_blocks[r]), 0)
get_num_blocks_to_allocate(kv, r, num_tokens, computed, total, capped) ==
    LET required == IF capped THEN AdmissionCap(kv, cdiv(num_tokens, BlockSize))
                              ELSE cdiv(num_tokens, BlockSize)
        held     == Len(kv.req_to_blocks[r])
        skipped  == get_num_skipped_tokens(kv, total) \div BlockSize
        kept     == SubSeq(computed, MaxOf(0, skipped - held) + 1, Len(computed))
        evictable == Cardinality({i \in DOMAIN kept : /\ kv.ref_cnt[kept[i]] = 0
                                                      /\ kept[i] # NullBlock})
    IN  IF kv.num_cached_block[r] # NotTracked THEN MaxOf(required - held, 0)
        ELSE MaxOf(required - MaxOf(skipped, Len(computed) + held), 0) + evictable

(* req_blocks.extend(block_pool.get_new_blocks(n))                         *)
ExtendTable(kv, r, n) ==
    [get_new_blocks(kv, n) EXCEPT !.req_to_blocks[r] = @ \o new_blocks(kv, n)]

allocate_new_computed_blocks(kv, r, computed, local, ext) ==
    LET total   == local + ext
        skippedTokens == get_num_skipped_tokens(kv, total)
        skipped == skippedTokens \div BlockSize
        kept    == SubSeq(computed, skipped + 1, Len(computed))
        extIn   == IF skipped > 0 THEN MinOf(total - skippedTokens, ext) ELSE ext
        table   == Nulls(skipped) \o kept
        touched == [touch(kv, kept) EXCEPT !.req_to_blocks[r]    = table,
                                           !.num_cached_block[r] = Len(table)]
    IN  IF kv.num_cached_block[r] # NotTracked
        THEN Raise(kv, computed # <<>>, "computed blocks for a running request")
        ELSE Raise(IF extIn > 0
                   THEN ExtendTable(touched, r, cdiv(total, BlockSize) - Len(table))
                   ELSE touched,
                   kv.req_to_blocks[r] # <<>>, "a new request already has blocks")

allocate_new_blocks(kv, r, num_tokens) ==
    LET n == cdiv(num_tokens, BlockSize) - Len(kv.req_to_blocks[r])
    IN  IF n <= 0 THEN kv ELSE ExtendTable(kv, r, n)

cache_blocks(kv, r, num_tokens) ==
    LET cached == MaxOf(kv.num_cached_block[r], 0)
        full   == num_tokens \div BlockSize
    IN  IF cached >= full \/ ~EnableCaching THEN kv
        ELSE [cache_full_blocks(kv, kv.req_to_blocks[r], BlockHashes[r], cached, full)
                EXCEPT !.num_cached_block[r] = full]

(* Blocks before the window become null; the ones with a hash go to the    *)
(* back of the free queue, the others to the front.                        *)
remove_skipped_blocks_RoundUp(kv, r, total) ==
    LET blocks == kv.req_to_blocks[r]
        n      == MinOf(cdiv(get_num_skipped_tokens(kv, total), BlockSize), Len(blocks))
        first  == 1 + Greatest({0} \cup {i \in 1..n : blocks[i] = NullBlock})
        emptied == [kv EXCEPT !.req_to_blocks[r] =
                      [i \in DOMAIN @ |-> IF i \in first..n THEN NullBlock ELSE @[i]]]
    IN  free_blocks(emptied, Backwards(SubSeq(blocks, first, n)), FALSE)
remove_skipped_blocks_TableKept(kv, r, total) ==
    LET blocks == kv.req_to_blocks[r]
        n      == MinOf(get_num_skipped_tokens(kv, total) \div BlockSize, Len(blocks))
    IN  free_blocks(kv, Backwards(SubSeq(blocks, 1, n)), FALSE)
remove_skipped_blocks(kv, r, total) ==
    LET blocks == kv.req_to_blocks[r]
        n      == MinOf(get_num_skipped_tokens(kv, total) \div BlockSize, Len(blocks))
        first  == 1 + Greatest({0} \cup {i \in 1..n : blocks[i] = NullBlock})
        gone   == Backwards(SubSeq(blocks, first, n))
        cached   == Keep(gone, {b \in Blocks : kv.block_hash[b] # NoHash})
        uncached == Keep(gone, {b \in Blocks : kv.block_hash[b] = NoHash})
        emptied  == [kv EXCEPT !.req_to_blocks[r] =
                       [i \in DOMAIN @ |-> IF i \in first..n THEN NullBlock ELSE @[i]]]
    IN  free_blocks(free_blocks(emptied, cached, FALSE), uncached, TRUE)

(* free: tail blocks first; SlidingWindowManager.free splits them as above. *)
free_request(kv, r) ==
    LET gone     == Backwards(kv.req_to_blocks[r])
        cached   == Keep(gone, {b \in Blocks : kv.block_hash[b] # NoHash})
        uncached == Keep(gone, {b \in Blocks : kv.block_hash[b] = NoHash})
        dropped  == [kv EXCEPT !.req_to_blocks[r] = <<>>,
                               !.num_cached_block[r] = NotTracked]
    IN  IF kv.window = 0 THEN free_blocks(dropped, gone, FALSE)
        ELSE free_blocks(free_blocks(dropped, cached, FALSE), uncached, TRUE)

-----------------------------------------------------------------------------
(***************************************************************************)
(* KVCacheManager.allocate_slots.  a is the record of the arguments:       *)
(*   computed     request.num_computed_tokens                              *)
(*   num_tokens   request.num_tokens                                       *)
(*   new          num_new_tokens, draft tokens included                    *)
(*   hits         new_computed_blocks                                      *)
(*   ext          num_external_computed_tokens                             *)
(*   lookahead    num_lookahead_tokens                                     *)
(*   delay        delay_cache_blocks                                       *)
(*   must_fit     full_sequence_must_fit                                   *)
(*   reserved     reserved_blocks                                          *)
(* The result says whether it succeeded, and the state after it: blocks    *)
(* outside the window are freed even when it does not succeed.             *)
(***************************************************************************)
allocate_slots(kv, r, a) ==
    LET local  == a.computed + Len(a.hits) * BlockSize
        total  == MinOf(local + a.ext, MaxModelLen)
        needSlot == MinOf(total + a.new + a.lookahead, MaxModelLen)
        fits   == ~a.must_fit
                  \/ get_num_blocks_to_allocate(kv, r, MinOf(a.num_tokens, MaxModelLen),
                                                a.hits, total, TRUE)
                       <= get_num_free_blocks(kv)
        k1     == remove_skipped_blocks(kv, r, total)
        enough == get_num_blocks_to_allocate(k1, r, needSlot, a.hits, local + a.ext, FALSE)
                    <= get_num_free_blocks(k1) - a.reserved
        k2     == IF a.hits # <<>> \/ a.ext > 0
                  THEN allocate_new_computed_blocks(k1, r, a.hits, local, a.ext)
                  ELSE k1
        k3     == allocate_new_blocks(k2, r, needSlot)
        k4     == IF a.delay THEN k3
                  ELSE cache_blocks(k3, r, MinOf(total + a.new, a.num_tokens))
    IN  IF ~fits THEN [ok |-> FALSE, kv |-> kv]
        ELSE IF ~enough THEN [ok |-> FALSE, kv |-> k1]
        ELSE [ok |-> TRUE, kv |-> k4]

-----------------------------------------------------------------------------
(***************************************************************************)
(* What BlockOwnership sees of a manager: forget the null block, the order *)
(* of the free queue and the positions in the tables.                      *)
(***************************************************************************)
Real == Blocks \ {NullBlock}
Owned(k) ==
    [ref   |-> [b \in Real |-> k.ref_cnt[b]],
     free  |-> Range(k.free),
     hash  |-> [b \in Real |-> k.block_hash[b]],
     holds |-> [r \in Requests |-> Range(k.req_to_blocks[r]) \ {NullBlock}],
     fresh |-> [r \in Requests |->
                  {b \in Real : \E i \in DOMAIN k.req_to_blocks[r] :
                     k.req_to_blocks[r][i] = b /\ i > k.num_cached_block[r]}]]
=============================================================================
