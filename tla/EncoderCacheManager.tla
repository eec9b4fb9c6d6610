-------------------------- MODULE EncoderCacheManager --------------------------
(***************************************************************************)
(* EncoderCacheManager of encoder_cache_manager.py: which outputs of the   *)
(* multimodal encoder are kept, which requests refer to them, and how much *)
(* space is left.  The manager knows hashes and sizes only; the outputs    *)
(* themselves are in the cache of the worker.                              *)
(*                                                                         *)
(* The manager is a record m, and each method of the source is an operator *)
(* from the record before the call to the record after it.  Its fields:    *)
(*   free, reclaimable   num_free_slots and num_freeable_slots;            *)
(*   cached     for every cached hash, the requests that refer to it;      *)
(*   ids        request_cached_ids: the inputs each request refers to;     *)
(*   freeable   the hashes without references, the oldest first;           *)
(*   freed      the hashes evicted since the last get_freed_mm_hashes.     *)
(***************************************************************************)
EXTENDS Integers, Sequences, FiniteSets, Functions

CONSTANTS Requests,
          Features,   \* Features[r]: the multimodal inputs of r, by position
          CacheSize   \* cache_size, in embeddings

(***************************************************************************)
(* An input has the hash of its content, the placeholders [offset,         *)
(* offset + length) in the prompt, and the embeddings, which fill some of  *)
(* the placeholders (is_embed, counted from offset).                       *)
(***************************************************************************)
ASSUME FeaturesAssumption ==
    /\ CacheSize \in Nat
    /\ \A r \in Requests : Features[r] \in Seq(Range(Features[r]))
    /\ \A r \in Requests : \A i \in DOMAIN Features[r] :
         LET f == Features[r][i] IN
         /\ f.offset \in Nat /\ f.length \in Nat
         /\ f.embeds # {} /\ f.embeds \subseteq 0..(f.length - 1)
         /\ Cardinality(f.embeds) <= CacheSize
         /\ i > 1 => f.offset >= Features[r][i - 1].offset + Features[r][i - 1].length
    /\ \A r, s \in Requests : \A i \in DOMAIN Features[r], j \in DOMAIN Features[s] :
         Features[r][i].hash = Features[s][j].hash =>
            Features[r][i].embeds = Features[s][j].embeds

Inputs == UNION {Range(Features[r]) : r \in Requests}
Hashes == {f.hash : f \in Inputs}

\* The elements of s that are in S, in their order, and s without x.
Kept(s, S) ==
    LET kept[n \in 0..Len(s)] ==
          IF n = 0 THEN <<>>
          ELSE IF s[n] \in S THEN Append(kept[n - 1], s[n]) ELSE kept[n - 1]
    IN  kept
Keep(s, S) == Kept(s, S)[Len(s)]
Without(s, x) == Keep(s, Range(s) \ {x})

\* The least element of a set of numbers.
Least(S) == CHOOSE x \in S : \A y \in S : x <= y

\* get_num_encoder_embeds, which is the same for all inputs with this hash.
EmbedsOf(h) == (CHOOSE f \in Inputs : f.hash = h).embeds
NumEmbeds(h) == Cardinality(EmbedsOf(h))

\* The space that the outputs with hashes H take, and that the inputs I of r need.
Embeds(H) == Cardinality(UNION {{h} \X EmbedsOf(h) : h \in H})
InputEmbeds(r, I) == Cardinality(UNION {{i} \X Features[r][i].embeds : i \in I})

\* __init__, and reset.
EmptyCache ==
    [free |-> CacheSize, reclaimable |-> CacheSize, cached |-> [h \in {} |-> {}],
     ids |-> [r \in Requests |-> {}], freeable |-> <<>>, freed |-> {}]

HashOf(r, i) == Features[r][i].hash
HashesOf(r, I) == {HashOf(r, i) : i \in I}
IsCached(m, h) == h \in DOMAIN m.cached

\* check_and_update_cache, when it returns True.
UseCached_Always(m, r, i) ==
    LET h == HashOf(r, i) IN
    [m EXCEPT !.freeable = Without(@, h), !.reclaimable = @ - NumEmbeds(h),
              !.cached[h] = @ \union {r}, !.ids[r] = @ \union {i}]
UseCached(m, r, i) ==
    LET h == HashOf(r, i)
        unused == m.cached[h] = {}
    IN  [m EXCEPT !.freeable = IF unused THEN Without(@, h) ELSE @,
                  !.reclaimable = IF unused THEN @ - NumEmbeds(h) ELSE @,
                  !.cached[h] = @ \union {r}, !.ids[r] = @ \union {i}]

\* can_allocate: the oldest entries without references make room.
Oldest(m, k) == Range(SubSeq(m.freeable, 1, k))
Evict_Silent(m, needed) ==
    LET n == Least({k \in 0..Len(m.freeable) : needed <= m.free + Embeds(Oldest(m, k))})
        out == Oldest(m, n)
    IN  [m EXCEPT !.freeable = SubSeq(@, n + 1, Len(@)),
                  !.cached = Restrict(@, DOMAIN @ \ out),
                  !.free = @ + Embeds(out)]
Evict(m, needed) ==
    LET n == Least({k \in 0..Len(m.freeable) : needed <= m.free + Embeds(Oldest(m, k))})
        out == Oldest(m, n)
    IN  [m EXCEPT !.freeable = SubSeq(@, n + 1, Len(@)),
                  !.cached = Restrict(@, DOMAIN @ \ out),
                  !.freed = @ \union out,
                  !.free = @ + Embeds(out)]

CanAllocate_NoEviction(m, h, budget, scheduled) ==
    NumEmbeds(h) <= budget /\ NumEmbeds(h) + scheduled <= m.free
CanAllocate(m, h, budget, scheduled) ==
    LET needed == NumEmbeds(h) + scheduled IN
    /\ NumEmbeds(h) <= budget
    /\ needed <= m.free \/ needed <= m.reclaimable

Reclaim(m, h, scheduled) == Evict(m, NumEmbeds(h) + scheduled)

\* allocate, for the inputs I.
Allocate(m, r, I) ==
    LET new == HashesOf(r, I) IN
    [m EXCEPT !.cached = [h \in DOMAIN @ \union new |->
                            (IF h \in DOMAIN m.cached THEN m.cached[h] ELSE {})
                              \union (IF h \in new THEN {r} ELSE {})],
              !.ids[r] = @ \union I,
              !.free = @ - InputEmbeds(r, I),
              !.reclaimable = @ - InputEmbeds(r, I)]

\* free_encoder_input, for the inputs I in order of position: an entry that
\* loses its last reference becomes the newest one that may be evicted.
FreeInputs(m, r, I) ==
    LET lost == HashesOf(r, I)
        unused == {h \in lost \intersect DOMAIN m.cached : m.cached[h] = {r}}
        firsts == {i \in I : /\ HashOf(r, i) \in unused
                             /\ \A j \in I : HashOf(r, j) = HashOf(r, i) => i <= j}
        order == Keep([i \in 1..Len(Features[r]) |-> i], firsts)
    IN  [m EXCEPT !.ids[r] = @ \ I,
                  !.cached = [h \in DOMAIN @ |-> IF h \in lost THEN @[h] \ {r} ELSE @[h]],
                  !.freeable = @ \o [k \in 1..Len(order) |-> HashOf(r, order[k])],
                  !.reclaimable = @ + Embeds(unused)]

\* free
FreeAll(m, r) == FreeInputs(m, r, m.ids[r])

\* get_freed_mm_hashes
TakeFreed_Again(m) == m
TakeFreed(m) == [m EXCEPT !.freed = {}]
================================================================================
