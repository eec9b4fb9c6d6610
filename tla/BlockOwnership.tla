---------------------------- MODULE BlockOwnership ----------------------------
(***************************************************************************)
(* What the KV cache manager promises about the blocks, without the order  *)
(* of the free queue, the positions in a block table and the token counts: *)
(* who holds which block, which blocks are free, and under which hash a    *)
(* block is offered to others.  The null block is left out.                *)
(*                                                                         *)
(* The state is a record p, as in BlockPool.tla, so that the calls that    *)
(* allocate_slots makes in one go are one step here too:                   *)
(*   ref    the reference count of every block, which the code maintains   *)
(*          by counting up and down;                                       *)
(*   free   the blocks in the free queue, which the code fills when a      *)
(*          count reaches 0 and empties when a block is taken;             *)
(*   hash   the hash of every block, or NoHash;                            *)
(*   holds  the blocks in the table of every request;                      *)
(*   fresh  those of them that the request has not cached yet: it is still *)
(*          writing to them.                                               *)
(* KVCacheManager.tla implements this specification.                       *)
(***************************************************************************)
EXTENDS Integers

CONSTANTS Blocks, Requests, Hashes, NoHash,
          PrefixHashes    \* the hashes of the prefixes of every request

ASSUME OwnershipAssumption ==
    /\ NoHash \notin Hashes
    /\ PrefixHashes \in [Requests -> SUBSET Hashes]

VARIABLE p

Init == p = [ref   |-> [b \in Blocks |-> 0],
             free  |-> Blocks,
             hash  |-> [b \in Blocks |-> NoHash],
             holds |-> [r \in Requests |-> {}],
             fresh |-> [r \in Requests |-> {}]]

(* free_blocks(S), for blocks in the table of r.                           *)
Give(q, r, S) ==
    [ref   |-> [b \in Blocks |-> IF b \in S THEN q.ref[b] - 1 ELSE q.ref[b]],
     free  |-> q.free \cup {b \in S : q.ref[b] - 1 = 0},
     hash  |-> q.hash,
     holds |-> [q.holds EXCEPT ![r] = @ \ S],
     fresh |-> [q.fresh EXCEPT ![r] = @ \ S]]

(* touch(hits), then get_new_blocks, which returns new.                    *)
Offered_AnyHash(q, r) == {b \in Blocks : q.hash[b] # NoHash} \ q.holds[r]
Offered(q, r) == {b \in Blocks : q.hash[b] \in PrefixHashes[r]} \ q.holds[r]
Take_HitsUncounted(q, r, hits, new) ==
    [ref   |-> [b \in Blocks |-> IF b \in new THEN q.ref[b] + 1 ELSE q.ref[b]],
     free  |-> q.free \ (hits \cup new),
     hash  |-> [b \in Blocks |-> IF b \in new THEN NoHash ELSE q.hash[b]],
     holds |-> [q.holds EXCEPT ![r] = @ \cup hits \cup new],
     fresh |-> [q.fresh EXCEPT ![r] = @ \cup new]]
Take_HitsStayFree(q, r, hits, new) ==
    [ref   |-> [b \in Blocks |-> IF b \in hits \cup new THEN q.ref[b] + 1 ELSE q.ref[b]],
     free  |-> q.free \ new,
     hash  |-> [b \in Blocks |-> IF b \in new THEN NoHash ELSE q.hash[b]],
     holds |-> [q.holds EXCEPT ![r] = @ \cup hits \cup new],
     fresh |-> [q.fresh EXCEPT ![r] = @ \cup new]]
Take_NotEvicted(q, r, hits, new) ==
    [ref   |-> [b \in Blocks |-> IF b \in hits \cup new THEN q.ref[b] + 1 ELSE q.ref[b]],
     free  |-> q.free \ (hits \cup new),
     hash  |-> q.hash,
     holds |-> [q.holds EXCEPT ![r] = @ \cup hits \cup new],
     fresh |-> [q.fresh EXCEPT ![r] = @ \cup new]]
Take(q, r, hits, new) ==
    [ref   |-> [b \in Blocks |-> IF b \in hits \cup new THEN q.ref[b] + 1 ELSE q.ref[b]],
     free  |-> q.free \ (hits \cup new),
     hash  |-> [b \in Blocks |-> IF b \in new THEN NoHash ELSE q.hash[b]],
     holds |-> [q.holds EXCEPT ![r] = @ \cup hits \cup new],
     fresh |-> [q.fresh EXCEPT ![r] = @ \cup new]]

(* cache_full_blocks(S), each block under the hash that h gives it.        *)
Fill(q, r, S, h) ==
    [ref   |-> q.ref,
     free  |-> q.free,
     hash  |-> [b \in Blocks |-> IF b \in S THEN h[b] ELSE q.hash[b]],
     holds |-> q.holds,
     fresh |-> [q.fresh EXCEPT ![r] = @ \ S]]

(* evict_blocks(S)                                                         *)
Unhash(q, S) ==
    [ref   |-> q.ref,
     free  |-> q.free,
     hash  |-> [b \in Blocks |-> IF b \in S THEN NoHash ELSE q.hash[b]],
     holds |-> q.holds,
     fresh |-> q.fresh]

-----------------------------------------------------------------------------
(* allocate_slots: blocks outside the window go, then hits and new blocks  *)
(* come.  The blocks that become full are cached by Cache: in the same     *)
(* step, or later when they had to be loaded first.                        *)
Allocate(r, gone, hits, new, S, h) ==
    LET q1 == Give(p, r, gone)
        q2 == Take(q1, r, hits, new)
    IN  /\ gone \subseteq p.holds[r]
        /\ hits \subseteq Offered(q1, r)
        /\ new \subseteq q1.free \ hits
        /\ S \subseteq q2.fresh[r]
        /\ h \in [S -> PrefixHashes[r]]
        /\ p' = Fill(q2, r, S, h)

Release(r) == p' = Give(p, r, p.holds[r])

Evict(S) == p' = Unhash(p, S)

(* reset_prefix_cache, when no block is used.                              *)
Reset == p.free = Blocks /\ p' = Unhash(p, Blocks)

Next ==
    \/ \E r \in Requests : \E gone \in SUBSET p.holds[r] :
         \E hits \in SUBSET Offered(Give(p, r, gone), r) :
         \E new \in SUBSET (Give(p, r, gone).free \ hits) :
         \E S \in SUBSET (p.fresh[r] \cup new) : \E h \in [S -> PrefixHashes[r]] :
            Allocate(r, gone, hits, new, S, h)
    \/ \E r \in Requests : Release(r)
    \/ \E S \in SUBSET Blocks : Evict(S)
    \/ Reset

Spec == Init /\ [][Next]_p
-----------------------------------------------------------------------------
TypeOK ==
    p \in [ref   : [Blocks -> Nat],
           free  : SUBSET Blocks,
           hash  : [Blocks -> Hashes \cup {NoHash}],
           holds : [Requests -> SUBSET Blocks],
           fresh : [Requests -> SUBSET Blocks]]

Holders(q, b) == {r \in Requests : b \in q.holds[r]}

(* S has n elements: they can be numbered from 1 to n.                      *)
Counts(n, S) ==
    /\ n \in Nat
    /\ \E f \in [1..n -> S] : /\ \A i, j \in 1..n : f[i] = f[j] => i = j
                              /\ \A x \in S : \E i \in 1..n : f[i] = x

(* The count that the code keeps is the number of tables with the block.    *)
RefCountExact == \A b \in Blocks : Counts(p.ref[b], Holders(p, b))

(* The free queue has exactly the blocks in no table: none is leaked, none  *)
(* is given to a request while another one still has it.                    *)
FreeIffUnheld == \A b \in Blocks : b \in p.free <=> Holders(p, b) = {}

(* A block that a request is still writing to is in no other table and is   *)
(* offered to nobody.                                                       *)
SoleWriter ==
    \A r \in Requests : \A b \in p.fresh[r] : Holders(p, b) = {r} /\ p.hash[b] = NoHash

(* A request only holds blocks that are cached for one of its own prefixes, *)
(* or for none.                                                             *)
OwnPrefixOnly ==
    \A r \in Requests : \A b \in p.holds[r] : p.hash[b] \in PrefixHashes[r] \cup {NoHash}
=============================================================================
