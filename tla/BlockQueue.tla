------------------------------ MODULE BlockQueue ------------------------------
(***************************************************************************)
(* What a free block queue promises its user, the block pool: a sequence   *)
(* of distinct blocks in eviction order.  Blocks leave at the front, or    *)
(* from anywhere when a cached block is used again; they come back at the  *)
(* back, or at the front when they are not worth keeping.                  *)
(*                                                                         *)
(* FreeKVCacheBlockQueue.tla, the doubly linked list of the source,        *)
(* implements this specification.                                          *)
(***************************************************************************)
EXTENDS Naturals, Sequences, Functions

CONSTANTS NumBlocks,   \* the blocks are numbered 0 .. NumBlocks - 1
          MaxBatch     \* bound on the blocks of one append or prepend

VARIABLE q             \* the free blocks, the next one to evict first

(* The lists of different blocks, none of them in q, a caller may add.     *)
Batches ==
    UNION {Injection(1..m, (0..(NumBlocks - 1)) \ Range(q)) : m \in 0..MaxBatch}

Init == q = [i \in 1..NumBlocks |-> i - 1]

TakeFirst(n) == n \in 1..Len(q) /\ q' = SubSeq(q, n + 1, Len(q))

TakeOut(b) ==
    \E i \in 1..Len(q) :
       q[i] = b /\ q' = SubSeq(q, 1, i - 1) \o SubSeq(q, i + 1, Len(q))

AddLast(bs) == q' = q \o bs

AddFirst(bs) == q' = bs \o q

Next ==
    \/ \E n \in 1..Len(q) : TakeFirst(n)
    \/ \E b \in Range(q) : TakeOut(b)
    \/ \E bs \in Batches : AddLast(bs) \/ AddFirst(bs)

Spec == Init /\ [][Next]_q
=============================================================================
