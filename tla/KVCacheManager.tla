---------------------------- MODULE KVCacheManager ----------------------------
(***************************************************************************)
(* The KV cache manager of KVCache.tla driven by requests.  Each action is *)
(* one call (or the fixed series of calls) that the scheduler makes for a  *)
(* request, with every argument the scheduler can pass.  Scheduling        *)
(* decisions are left out: any request may be served, with any chunk.      *)
(***************************************************************************)
EXTENDS KVCache

CONSTANTS Windows,       \* the sliding windows to consider, 0 for full attention
          PromptLen,     \* prompt length of every request
          MaxTokens,     \* bound on num_tokens of every request
          MaxChunk,      \* bound on the tokens computed in one step
          Lookahead,     \* num_lookahead_tokens (speculative decoding)
          AsyncLoads,    \* whether a KV connector loads asynchronously
          LoadFailures,  \* the windows with which its loads can fail and be recomputed
          MustFit        \* scheduler_reserve_full_isl

ASSUME ClientAssumption ==
    /\ Windows \subseteq Nat
    /\ PromptLen \in [Requests -> Nat \ {0}]
    /\ MaxTokens \in [Requests -> Nat]
    /\ \A r \in Requests : /\ PromptLen[r] <= MaxTokens[r]
                           /\ MaxTokens[r] <= MaxModelLen
                           /\ MaxTokens[r] \div BlockSize <= Len(BlockHashes[r])
    /\ MaxChunk \in Nat \ {0} /\ MaxChunk <= MaxBatchedTokens
    /\ Lookahead \in Nat
    /\ AsyncLoads \in BOOLEAN /\ LoadFailures \subseteq Windows /\ MustFit \in BOOLEAN

VARIABLES kv,        \* the KV cache manager, see KVCache.tla
          status,    \* "waiting", "loading" or "running"
          tokens,    \* request.num_tokens
          computed   \* request.num_computed_tokens

vars == <<kv, status, tokens, computed>>

Init ==
    /\ \E w \in Windows : kv = InitCache(w)
    /\ status = [r \in Requests |-> "waiting"]
    /\ tokens = PromptLen
    /\ computed = [r \in Requests |-> 0]

Args(r, hits, ext, new, delay, reserved) ==
    [computed |-> computed[r], num_tokens |-> tokens[r], new |-> new,
     hits |-> hits, ext |-> ext, lookahead |-> IF delay THEN 0 ELSE Lookahead,
     delay |-> delay, must_fit |-> MustFit /\ status[r] = "waiting",
     reserved |-> reserved]

(* A waiting request is scheduled: cached blocks are looked up, ext tokens *)
(* come from a KV connector within the step, new tokens are computed.      *)
Schedule(r, ext, new) ==
    LET hits == IF computed[r] = 0 THEN get_computed_blocks(kv, r, tokens[r]) ELSE <<>>
        have == computed[r] + Len(hits) * BlockSize + ext
        res  == allocate_slots(kv, r, Args(r, hits, ext, new, FALSE, 0))
    IN  /\ status[r] = "waiting"
        /\ ext > 0 => computed[r] = 0
        /\ have + new <= tokens[r]
        /\ kv' = res.kv
        /\ IF res.ok
           THEN /\ status'   = [status EXCEPT ![r] = "running"]
                /\ computed' = [computed EXCEPT ![r] = have + new]
           ELSE UNCHANGED <<status, computed>>
        /\ UNCHANGED tokens

(* A waiting request gets blocks for an asynchronous load of ext tokens;   *)
(* they are not cached before the load is done.                            *)
StartLoad(r, ext, reserved) ==
    LET hits == get_computed_blocks(kv, r, tokens[r])
        have == Len(hits) * BlockSize + ext
        res  == allocate_slots(kv, r, Args(r, hits, ext, 0, TRUE, reserved))
    IN  /\ AsyncLoads /\ status[r] = "waiting" /\ computed[r] = 0
        /\ have <= tokens[r]
        /\ res.ok
        /\ kv' = res.kv
        /\ status' = [status EXCEPT ![r] = "loading"]
        /\ computed' = [computed EXCEPT ![r] = have]
        /\ UNCHANGED tokens

(* _update_waiting_for_remote_kv: the load is over.  After a failure only  *)
(* the tokens before the first block that was not loaded count (valid);    *)
(* with none left the blocks are freed.  After a full hit the last token   *)
(* is computed again.                                                      *)
FinishLoad(r, valid) ==
    LET failed == valid < computed[r]
        at     == valid \div BlockSize + 1
        have   == IF valid = tokens[r] THEN valid - 1 ELSE valid
    IN  /\ status[r] = "loading"
        /\ failed => /\ kv.window \in LoadFailures /\ valid % BlockSize = 0
                     /\ at > kv.num_cached_block[r]
                     /\ kv.req_to_blocks[r][at] # NullBlock
        /\ kv' = IF valid = 0 THEN free_request(kv, r) ELSE cache_blocks(kv, r, valid)
        /\ computed' = [computed EXCEPT ![r] = have]
        /\ status' = [status EXCEPT ![r] = "waiting"]
        /\ UNCHANGED tokens

(* A running request computes new more tokens, drafts of them speculative: *)
(* the scheduler takes rejected drafts back from num_computed_tokens.      *)
Continue(r, new, drafts) ==
    LET res == allocate_slots(kv, r, Args(r, <<>>, 0, new + drafts, FALSE, 0))
    IN  /\ status[r] = "running"
        /\ computed[r] + new <= tokens[r]
        /\ drafts > 0 => computed[r] + new = tokens[r]
        /\ computed[r] + new + drafts <= MaxModelLen - 1
        /\ kv' = res.kv
        /\ computed' = IF res.ok THEN [computed EXCEPT ![r] = @ + new] ELSE computed
        /\ UNCHANGED <<status, tokens>>

(* append_output_token_ids, once all tokens so far are computed.           *)
Sample(r) ==
    /\ status[r] = "running" /\ computed[r] = tokens[r]
    /\ tokens[r] < MaxTokens[r]
    /\ tokens' = [tokens EXCEPT ![r] = @ + 1]
    /\ UNCHANGED <<kv, status, computed>>

(* The request is preempted (it keeps its tokens) or done (the same prompt *)
(* may come again).                                                        *)
Free(r, n) ==
    /\ status[r] # "waiting" \/ computed[r] > 0
    /\ n \in {tokens[r], PromptLen[r]}
    /\ kv' = free_request(kv, r)
    /\ status' = [status EXCEPT ![r] = "waiting"]
    /\ computed' = [computed EXCEPT ![r] = 0]
    /\ tokens' = [tokens EXCEPT ![r] = n]

(* KVCacheManager.evict_blocks, for the blocks of a request from position  *)
(* i on: the scheduler calls it when they could not be loaded.             *)
Evict(r, i) ==
    LET blocks == kv.req_to_blocks[r]
    IN  /\ status[r] = "running"
        /\ kv' = evict_blocks(kv, {blocks[j] : j \in i..Len(blocks)})
        /\ UNCHANGED <<status, tokens, computed>>

Reset ==
    /\ CanReset(kv)
    /\ kv' = reset_prefix_cache(kv)
    /\ UNCHANGED <<status, tokens, computed>>

Next ==
    \/ \E r \in Requests :
         \/ \E ext \in 0..MaxChunk, new \in 1..MaxChunk : Schedule(r, ext, new)
         \/ \E ext \in 1..MaxTokens[r], res \in 0..1 : StartLoad(r, ext, res)
         \/ \E valid \in 0..computed[r] : FinishLoad(r, valid)
         \/ \E new \in 1..MaxChunk, drafts \in 0..Lookahead : Continue(r, new, drafts)
         \/ Sample(r)
         \/ \E n \in {tokens[r], PromptLen[r]} : Free(r, n)
         \/ \E i \in DOMAIN kv.req_to_blocks[r] : Evict(r, i)
    \/ Reset

Spec == Init /\ [][Next]_vars
-----------------------------------------------------------------------------
TypeOK ==
    /\ kv.ref_cnt \in [Blocks -> Nat]
    /\ kv.block_hash \in [Blocks -> Hashes \cup {NoHash}]
    /\ kv.free \in Seq(Blocks)
    /\ \A h \in Hashes : kv.cached[h] \in Seq(Blocks)
    /\ \A r \in Requests : kv.req_to_blocks[r] \in Seq(Blocks)
    /\ kv.num_cached_block \in [Requests -> Nat \cup {NotTracked}]
    /\ status \in [Requests -> {"waiting", "loading", "running"}]
    /\ tokens \in [Requests -> Nat] /\ computed \in [Requests -> Nat]

(* Well typed, no exception and no failed assertion: the number of blocks   *)
(* that get_num_blocks_to_allocate predicts is enough for what              *)
(* allocate_slots then takes, no block gets a second hash, and remove() of  *)
(* the free queue only sees free blocks.                                    *)
NoError == TypeOK /\ kv.err = {}

(* The hash map and the blocks' own hashes tell the same story, so a block  *)
(* that is given out again always leaves the map, and pop() always finds    *)
(* its block.                                                               *)
MapMatchesHashes ==
    \A h \in Hashes :
        /\ IsInjective(kv.cached[h])
        /\ Range(kv.cached[h]) = {b \in Blocks : kv.block_hash[b] = h}

(* A subscriber that counts BlockStored and BlockRemoved events knows how   *)
(* many blocks hold each hash.                                              *)
EventsMirrorCache ==
    \A h \in Hashes : kv.published[h] = Len(kv.cached[h])

(* A request's table never holds a block that is cached for another prefix  *)
(* than the request's own prefix up to that position.                       *)
TablesMatchPrefix ==
    \A r \in Requests : \A i \in DOMAIN kv.req_to_blocks[r] :
        LET b == kv.req_to_blocks[r][i]
        IN  b # NullBlock =>
              kv.block_hash[b] \in
                 {NoHash} \cup {BlockHashes[r][j] : j \in {i} \cap DOMAIN BlockHashes[r]}

(* The attention window of the next token that a running request computes   *)
(* is backed by real blocks: what get_num_skipped_tokens() lets go is never *)
(* read again, also after drafts were rejected.                             *)
WindowIsBacked ==
    \A r \in Requests : status[r] = "running" =>
        \A t \in get_num_skipped_tokens(kv, computed[r])..(computed[r] - 1) :
            /\ t \div BlockSize + 1 \in DOMAIN kv.req_to_blocks[r]
            /\ kv.req_to_blocks[r][t \div BlockSize + 1] # NullBlock

(* The manager keeps the promises of BlockOwnership.                        *)
Ownership ==
    INSTANCE BlockOwnership WITH
        Blocks   <- Real,
        PrefixHashes <- [r \in Requests |-> Range(BlockHashes[r])],
        p <- Owned(kv)
ImplementsOwnership == Ownership!Spec
=============================================================================
