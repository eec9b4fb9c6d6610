--------------------------- MODULE MCKVCacheManager ---------------------------
(***************************************************************************)
(* Two or three requests on a few blocks.  r1 and r2 share their first     *)
(* block and then differ; r3 has the same tokens as r1.                    *)
(***************************************************************************)
EXTENDS KVCacheManager, TLC

CONSTANTS r1, r2, r3

HashesOf(r) == CASE r = r1 -> <<"a", "ab", "abc">>
                 [] r = r2 -> <<"a", "ad", "ade">>
                 [] OTHER  -> <<"a", "ab", "abc">>

MCBlockHashes == [r \in Requests |-> HashesOf(r)]
MCPromptLen   == [r \in Requests |-> IF r = r2 THEN 3 ELSE 4]
MCMaxTokens   == [r \in Requests |-> 5]

(* Blocks differ only by their place in the free queue and in the tables.  *)
BlockSymmetry == Permutations(Blocks \ {NullBlock})
=============================================================================
