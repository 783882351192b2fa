------------------------------ MODULE PoolState ------------------------------
(***************************************************************************)
(* A block pool as part of the state of whoever calls it: any client in    *)
(* BlockPoolClient, the block tables in KVCacheManager.                    *)
(***************************************************************************)
EXTENDS BlockPool

VARIABLE pool

\* The pool is well typed, its free queue holds each block without holders once and
\* no other, and a lookup under a key finds exactly the blocks that carry the key:
\* no call hands out a block in use, loses one, or leaves an entry of the hash map
\* that points to a recycled block.
PoolConsistent == PoolInv(pool)
=============================================================================
