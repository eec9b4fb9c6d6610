------------------------------- MODULE BlockPool -------------------------------
(***************************************************************************)
(* The pool of KV cache blocks of block_pool.py: reference counts, the     *)
(* queue of free blocks in eviction order, and the map from block hashes   *)
(* to the blocks that hold the KV data of that hash.                       *)
(*                                                                         *)
(* The pool is a record p, and each method of the source is an operator    *)
(* from the record before the call to the record after it, so that the     *)
(* callers can make several calls in one step.  Its fields:                *)
(*   ref_cnt     the reference count of every block; the source does not   *)
(*               maintain that of the null block, which stays 0 here;      *)
(*   block_hash  the hash of every block, NoHash when it has none;         *)
(*   free        free_block_queue, as the sequence that BlockQueue         *)
(*               specifies and FreeKVCacheBlockQueue implements;           *)
(*   cached      cached_block_hash_to_block: the blocks of every hash, in  *)
(*               the order in which they were inserted;                    *)
(*   published   what a subscriber of the KV events knows: for every hash, *)
(*               the BlockStored minus the BlockRemoved events;            *)
(*   err         the exceptions and failed assertions of the source.       *)
(***************************************************************************)
EXTENDS Integers, Sequences, FiniteSets, Functions

CONSTANTS Blocks,       \* the blocks, the null block included
          NullBlock,    \* null_block, the placeholder that holds no data
          Requests,     \* request identifiers
          BlockHashes,  \* request.block_hashes of every request, at full length
          NoHash        \* block_hash is None

(***************************************************************************)
(* A block hash covers the tokens of its block and the hash of the block   *)
(* before it, so equal hashes stand for equal prefixes (no collisions).    *)
(***************************************************************************)
ASSUME PoolAssumption ==
    /\ IsFiniteSet(Blocks) /\ NullBlock \in Blocks
    /\ \A r \in Requests : /\ BlockHashes[r] \in Seq(Range(BlockHashes[r]))
                           /\ NoHash \notin Range(BlockHashes[r])
    /\ \A r, s \in Requests :
         \A i \in DOMAIN BlockHashes[r], j \in DOMAIN BlockHashes[s] :
            BlockHashes[r][i] = BlockHashes[s][j] =>
               /\ i = j
               /\ \A k \in 1..i : BlockHashes[r][k] = BlockHashes[s][k]

NumBlocks == Cardinality(Blocks)   \* num_gpu_blocks
Hashes    == UNION {Range(BlockHashes[r]) : r \in Requests}

(* The elements of S in some order; those of s that are in S, in their     *)
(* order; and s from its end.                                              *)
Listed(S) == CHOOSE s \in [1..Cardinality(S) -> S] : IsInjective(s)
Kept(s, S) ==
    LET kept[n \in 0..Len(s)] ==
          IF n = 0 THEN <<>>
          ELSE IF s[n] \in S THEN Append(kept[n - 1], s[n]) ELSE kept[n - 1]
    IN  kept
Keep(s, S) == Kept(s, S)[Len(s)]
Backwards(s) == [i \in 1..Len(s) |-> s[Len(s) + 1 - i]]

(* BlockPool.__init__: one block is taken out of the queue as null_block.  *)
InitPool ==
    [ref_cnt    |-> [b \in Blocks |-> 0],
     block_hash |-> [b \in Blocks |-> NoHash],
     free       |-> Listed(Blocks \ {NullBlock}),
     cached     |-> [h \in Hashes |-> <<>>],
     published  |-> [h \in Hashes |-> 0],
     err        |-> {}]

Count(bs, b) == Cardinality({i \in DOMAIN bs : bs[i] = b})

(* By how much a call on the blocks bs changes the reference count of b.   *)
Uses(bs, b) == IF b = NullBlock THEN 0 ELSE Count(bs, b)

Raise(p, cond, what) == IF cond THEN [p EXCEPT !.err = @ \cup {what}] ELSE p

get_num_free_blocks(p) == Len(p.free)

(* BlockHashToBlockMap.get_one_block, when IsCached(p, h).                 *)
IsCached(p, h) == p.cached[h] # <<>>
get_one_block(p, h) == Head(p.cached[h])

(* _maybe_evict_cached_block for every block of S.                         *)
evict_blocks_HashKept(p, S) ==
    [p EXCEPT !.cached = [h \in Hashes |-> Keep(@[h], Blocks \ S)],
              !.published = [h \in Hashes |-> @[h] - Cardinality(
                                {b \in S : b \in Range(p.cached[h])})]]
evict_blocks_Silent(p, S) ==
    [p EXCEPT !.block_hash = [b \in Blocks |-> IF b \in S THEN NoHash ELSE @[b]],
              !.cached = [h \in Hashes |-> Keep(@[h], Blocks \ S)]]
evict_blocks(p, S) ==
    LET found == {b \in S : p.block_hash[b] # NoHash
                              /\ b \in Range(p.cached[p.block_hash[b]])}
    IN  [p EXCEPT
           !.block_hash = [b \in Blocks |-> IF b \in found THEN NoHash ELSE @[b]],
           !.cached     = [h \in Hashes |->
                             Keep(@[h], Blocks \ found)],
           !.published  = [h \in Hashes |-> @[h] - Cardinality(
                             {b \in found : p.block_hash[b] = h})]]

new_blocks(p, n) == IF n > get_num_free_blocks(p) THEN <<>> ELSE SubSeq(p.free, 1, n)

get_new_blocks_NotEvicted(p, n) ==
    LET ret == Range(new_blocks(p, n))
        q   == [p EXCEPT !.free    = SubSeq(@, n + 1, Len(@)),
                         !.ref_cnt = [b \in Blocks |-> IF b \in ret THEN @[b] + 1
                                                                    ELSE @[b]]]
    IN  IF n > get_num_free_blocks(p) THEN p ELSE q
get_new_blocks(p, n) ==
    LET ret == Range(new_blocks(p, n))
        q   == [evict_blocks(p, ret) EXCEPT
                  !.free    = SubSeq(@, n + 1, Len(@)),
                  !.ref_cnt = [b \in Blocks |-> IF b \in ret THEN @[b] + 1
                                                             ELSE @[b]]]
    IN  IF n > get_num_free_blocks(p)
        THEN Raise(p, TRUE, "get_new_blocks: not enough free blocks")
        ELSE Raise(q, \E b \in ret : p.ref_cnt[b] # 0,
                   "get_new_blocks: ref_cnt of a free block is not 0")

touch(p, bs) ==
    LET revived == {b \in Range(bs) : p.ref_cnt[b] = 0 /\ b # NullBlock}
        q == [p EXCEPT
                !.ref_cnt = [b \in Blocks |-> @[b] + Uses(bs, b)],
                !.free    = Keep(@, Blocks \ revived)]
    IN  Raise(q, ~(revived \subseteq Range(p.free)),
              "remove() called on an invalid block")

free_blocks(p, bs, prepend) ==
    LET ref   == [b \in Blocks |-> p.ref_cnt[b] - Uses(bs, b)]
        freed == Keep(bs, {b \in Blocks \ {NullBlock} : ref[b] = 0})
    IN  [p EXCEPT !.ref_cnt = ref,
                  !.free    = IF prepend THEN freed \o @ ELSE @ \o freed]

(* Blocks first+1 .. last of a request become cached under its hashes hs.  *)
cache_full_blocks(p, blocks, hs, first, last) ==
    LET new   == {i \in (first + 1)..last : blocks[i] # NullBlock}
        at(b) == CHOOSE i \in new : blocks[i] = b
        bs    == {blocks[i] : i \in new}
        hashed == {hs[i] : i \in new}
        block(h) == blocks[CHOOSE i \in new : hs[i] = h]
        q == [p EXCEPT
                !.block_hash = [b \in Blocks |-> IF b \in bs THEN hs[at(b)]
                                                             ELSE @[b]],
                !.cached     = [h \in Hashes |-> IF h \in hashed
                                                 THEN Append(@[h], block(h))
                                                 ELSE @[h]],
                !.published  = [h \in Hashes |-> IF h \in hashed
                                                 THEN @[h] + 1 ELSE @[h]]]
    IN  IF first >= last THEN p
        ELSE Raise(q, \E b \in bs : p.block_hash[b] # NoHash,
                   "cache_full_blocks: block already has a hash")

(* reset_prefix_cache fails while a block other than the null block is used. *)
CanReset(p) == NumBlocks - get_num_free_blocks(p) = 1

reset_prefix_cache(p) ==
    IF ~CanReset(p) THEN p
    ELSE [p EXCEPT !.block_hash = [b \in Blocks |-> NoHash],
                   !.cached     = [h \in Hashes |-> <<>>],
                   !.published  = [h \in Hashes |-> 0]]
=============================================================================
