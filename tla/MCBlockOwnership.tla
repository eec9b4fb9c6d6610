--------------------------- MODULE MCBlockOwnership ---------------------------
(***************************************************************************)
(* Two requests with one prefix in common and one of their own each.       *)
(***************************************************************************)
EXTENDS BlockOwnership, TLC

CONSTANTS r1, r2

MCPrefixHashes == [r \in Requests |-> IF r = r1 THEN {"a", "ab"} ELSE {"a", "ad"}]

BlockSymmetry == Permutations(Blocks)
=============================================================================
