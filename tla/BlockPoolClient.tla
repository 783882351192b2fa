--------------------------- MODULE BlockPoolClient ---------------------------
(***************************************************************************)
(* The block pool under any client that respects its preconditions: the    *)
(* managers of all attention types, the copy-on-write of partial blocks    *)
(* and the eviction of blocks whose load failed are such clients.          *)
(***************************************************************************)
EXTENDS PoolCalls, PoolState

Held == {b \in Blocks : pool.ref_cnt[b] > 0}

Init == pool = InitialPool

GetNewBlocks ==
  \E n \in 1..MaxList : n <= get_num_free_blocks(pool) /\ pool' = get_new_blocks(pool, n)

\* A lookup found the blocks, or another group of the request holds them.
Touch ==
  \E blocks \in Lists({b \in Blocks : pool.ref_cnt[b] < MaxRef}) :
    pool' = touch(pool, blocks)

FreeBlocks ==
  \E ordered \in Lists(Held) : pool' = free_blocks(pool, ordered)

\* A holder fills blocks; the assertion of the loop is the precondition.
CacheFullBlocks ==
  \E blocks \in Lists(Held), keys \in Lists(Keys) :
    /\ Len(keys) = Len(blocks)
    /\ CanCacheFullBlocks(pool, blocks, keys, 0, Len(blocks))
    /\ pool' = cache_full_blocks(pool, blocks, keys, 0, Len(blocks))

CachePartialBlock ==
  \E b \in Held, k \in Keys : pool' = cache_partial_block(pool, b, k)

\* The prefix cache moves to a private copy of a block that is written on.
MoveBlockHashes ==
  \E src, dst \in Held :
    /\ src # dst
    /\ KeysOf(pool, dst) = {}
    /\ pool' = move_block_hashes(pool, src, dst)

EvictBlocks == \E S \in SUBSET Blocks : pool' = evict_blocks(pool, S)

ResetPrefixCache ==
  /\ CanResetPrefixCache(pool)
  /\ pool' = reset_prefix_cache(pool)

Next ==
  \/ GetNewBlocks \/ Touch \/ FreeBlocks
  \/ CacheFullBlocks \/ CachePartialBlock \/ MoveBlockHashes
  \/ EvictBlocks \/ ResetPrefixCache

Spec == Init /\ [][Next]_pool
=============================================================================
