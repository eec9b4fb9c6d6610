------------------------------ MODULE MCFreeQueue ------------------------------
(* The linked list of free blocks, five blocks, batches of up to three.    *)
EXTENDS FreeKVCacheBlockQueue
=============================================================================
