------------------------- MODULE FreeKVCacheBlockQueue -------------------------
(***************************************************************************)
(* The doubly linked list of free KV cache blocks (kv_cache_utils.py).     *)
(* The links live in the blocks themselves (prev_free_block and            *)
(* next_free_block), a fake head and a fake tail close the list at both    *)
(* ends, and a separate counter num_free_blocks says how long it is.       *)
(*                                                                         *)
(* The caller is the block pool: it only hands over blocks that are not in *)
(* the list, and never twice in one batch.                                 *)
(***************************************************************************)
EXTENDS Integers, Sequences, Functions

CONSTANTS NumBlocks,   \* number of blocks the list is created with
          FakeHead, FakeTail,  \* the fake blocks at the two ends
          None,        \* Python's None: no link
          MaxBatch     \* bound on the blocks of one append_n or prepend_n

ASSUME QueueAssumption ==
    /\ NumBlocks \in Nat \ {0}
    /\ MaxBatch \in Nat \ {0}
    /\ FakeHead # FakeTail /\ None \notin {FakeHead, FakeTail}
    /\ \A b \in 0..(NumBlocks - 1) : b \notin {FakeHead, FakeTail, None}

VARIABLES prev, next,  \* prev_free_block and next_free_block of every block
          num_free     \* num_free_blocks

vars == <<prev, next, num_free>>

Blocks == 0..(NumBlocks - 1)
Nodes  == Blocks \cup {FakeHead, FakeTail}

TypeOK ==
    /\ prev \in [Nodes -> Nodes \cup {None}]
    /\ next \in [Nodes -> Nodes \cup {None}]
    /\ num_free \in Nat

(* __init__: consecutive blocks are linked, the fake ends closed around.   *)
Init ==
    /\ prev = [x \in Nodes |-> IF x = FakeHead THEN None
                               ELSE IF x = FakeTail THEN NumBlocks - 1
                               ELSE IF x = 0 THEN FakeHead ELSE x - 1]
    /\ next = [x \in Nodes |-> IF x = FakeTail THEN None
                               ELSE IF x = FakeHead THEN 0
                               ELSE IF x = NumBlocks - 1 THEN FakeTail ELSE x + 1]
    /\ num_free = NumBlocks

(* The node that is n links after the first one; None once past the end.   *)
Walk == LET w[n \in 0..(NumBlocks + 1)] ==
              IF n = 0 THEN next[FakeHead]
              ELSE IF w[n-1] = None THEN None ELSE next[w[n-1]]
        IN  w

(* get_all_free_blocks: the nodes before the one without a next link.      *)
AllFreeBlocks ==
    LET len == CHOOSE n \in 0..(NumBlocks + 1) :
                 /\ Walk[n] = None \/ next[Walk[n]] = None
                 /\ \A m \in 0..(n-1) : Walk[m] # None /\ next[Walk[m]] # None
    IN  [i \in 1..len |-> Walk[i-1]]

popleft ==
    LET first == next[FakeHead]
    IN  /\ first \notin {FakeTail, None}
        /\ next[first] # None
        /\ next' = [next EXCEPT ![FakeHead] = next[first], ![first] = None]
        /\ prev' = [prev EXCEPT ![next[first]] = FakeHead, ![first] = None]
        /\ num_free' = num_free - 1

(* The first n nodes are cut off in one sweep; curr is the node after.     *)
popleft_n_Short(n) ==
    LET popped == {Walk[i] : i \in 0..(n-1)}
        curr   == Walk[n]
    IN  /\ n > 0 /\ num_free >= n
        /\ None \notin popped
        /\ next' = [x \in Nodes |-> IF x = FakeHead /\ curr # None THEN curr ELSE next[x]]
        /\ prev' = [x \in Nodes |-> IF x = curr THEN FakeHead ELSE prev[x]]
        /\ num_free' = num_free - n
popleft_n(n) ==
    LET popped == {Walk[i] : i \in 0..(n-1)}
        curr   == Walk[n]
    IN  /\ n > 0 /\ num_free >= n
        /\ None \notin popped
        /\ next' = [x \in Nodes |-> IF x \in popped THEN None
                                    ELSE IF x = FakeHead /\ curr # None THEN curr
                                    ELSE next[x]]
        /\ prev' = [x \in Nodes |-> IF x \in popped THEN None
                                    ELSE IF x = curr THEN FakeHead ELSE prev[x]]
        /\ num_free' = num_free - n

remove(b) ==
    /\ prev[b] # None /\ next[b] # None
    /\ next' = [next EXCEPT ![prev[b]] = next[b], ![b] = None]
    /\ prev' = [prev EXCEPT ![next[b]] = prev[b], ![b] = None]
    /\ num_free' = num_free - 1

(* Link the chain left, bs[1], ..., bs[n], right.                          *)
Splice(left, bs, right) ==
    LET chain == <<left>> \o bs \o <<right>>
        at(x) == CHOOSE i \in 1..Len(chain) : chain[i] = x
    IN  /\ next' = [x \in Nodes |-> IF \E i \in 1..(Len(chain) - 1) : chain[i] = x
                                    THEN chain[at(x) + 1] ELSE next[x]]
        /\ prev' = [x \in Nodes |-> IF \E i \in 2..Len(chain) : chain[i] = x
                                    THEN chain[at(x) - 1] ELSE prev[x]]
        /\ num_free' = num_free + Len(bs)

append(b) == Splice(prev[FakeTail], <<b>>, FakeTail)

append_n_Reversed(bs) ==
    Len(bs) > 0 /\ Splice(prev[FakeTail], [i \in DOMAIN bs |-> bs[Len(bs) + 1 - i]], FakeTail)
append_n(bs) == Len(bs) > 0 /\ Splice(prev[FakeTail], bs, FakeTail)

prepend_n_Cut(bs) == Len(bs) > 0 /\ Splice(FakeHead, bs, FakeTail)
prepend_n(bs) == Len(bs) > 0 /\ Splice(FakeHead, bs, next[FakeHead])

(* What the block pool passes in: distinct blocks, none of them linked.    *)
Batches ==
    UNION {Injection(1..m, {b \in Blocks : prev[b] = None /\ next[b] = None}) :
              m \in 0..MaxBatch}

Next ==
    \/ popleft
    \/ \E n \in Blocks \cup {NumBlocks} : popleft_n(n)
    \/ \E b \in Blocks : remove(b)
    \/ \E b \in Blocks : prev[b] = None /\ next[b] = None /\ append(b)
    \/ \E bs \in Batches : append_n(bs) \/ prepend_n(bs)

Spec == Init /\ [][Next]_vars

-----------------------------------------------------------------------------
(* The list read backwards from the fake tail is the list read forwards,    *)
(* and the counter agrees with the links: popleft's assertion that          *)
(* num_free_blocks is in sync with the free list, and get_new_blocks' test  *)
(* of the counter before it pops, both rest on it.                          *)
LinksAgree ==
    /\ TypeOK
    /\ \A x, y \in Nodes : next[x] = y <=> prev[y] = x
    /\ num_free = Len(AllFreeBlocks)

(* The linked list implements the abstract queue of blocks: every           *)
(* operation changes the sequence of free blocks as BlockQueue says.        *)
Queue == INSTANCE BlockQueue WITH q <- AllFreeBlocks
ImplementsQueue == Queue!Spec

(* Each operation of the list has the effect of its own counterpart on the  *)
(* queue, so the eviction order is the one its callers asked for: what is   *)
(* appended in a batch is evicted in the order of the batch, after all that *)
(* was there before.                                                        *)
EvictionOrder ==
    [][/\ popleft => Queue!TakeFirst(1)
       /\ \A n \in 1..NumBlocks : popleft_n(n) => Queue!TakeFirst(n)
       /\ \A b \in Blocks : remove(b) => Queue!TakeOut(b)
       /\ \A bs \in Batches : /\ append_n(bs) => Queue!AddLast(bs)
                              /\ prepend_n(bs) => Queue!AddFirst(bs)]_vars
=============================================================================
