---------------------------- MODULE KVCacheClient ----------------------------
(***************************************************************************)
(* What KVCacheManager promises to a caller that makes any legal sequence  *)
(* of calls: allocations and growth of several requests, delayed caching   *)
(* of loaded blocks, frees, frees owed until a later step, resets and the  *)
(* eviction of blocks that failed to load.                                 *)
(***************************************************************************)
EXTENDS KVCacheManager

VARIABLE loads_failed   \* whether a load has failed since the last reset

clientVars == <<kvVars, loads_failed>>

----------------------------------------------------------------------------
(* Any legal sequence of calls                                             *)

Init == InitManager /\ loads_failed = FALSE

\* A request without blocks starts from its prefix-cache hit, one with blocks
\* grows; num_cache is what of it may be shared.
AllocateSlots(r) ==
  \E num_tokens, num_cache \in 1..MaxTokens, delay_cache_blocks \in BOOLEAN :
    LET hit == IF req_to_blocks[r] = <<>> THEN get_computed_blocks(r, num_tokens) ELSE <<>>
    IN /\ num_cache <= num_tokens
       /\ num_tokens > BlockSize * Len(hit)
       /\ num_tokens > BlockSize * (Len(req_to_blocks[r]) - 1)
       /\ CanAllocate(r, hit, num_tokens, 0)
       /\ allocate_slots(r, hit, num_tokens, num_cache, delay_cache_blocks)
       /\ UNCHANGED popped

CacheBlocks(r) ==
  \E num_tokens \in 1..MaxTokens :
    /\ num_tokens <= BlockSize * Len(req_to_blocks[r])
    /\ cache_blocks(r, num_tokens)
    /\ UNCHANGED popped

Free(r) ==
  /\ req_to_blocks[r] # <<>>
  /\ free(r)
  /\ UNCHANGED popped

PopBlocksForFree(r) ==
  /\ req_to_blocks[r] # <<>>
  /\ pop_blocks_for_free(r)

ResetPrefixCache ==
  /\ CanResetPrefixCache(pool)
  /\ pool' = reset_prefix_cache(pool)
  /\ loads_failed' = FALSE
  /\ UNCHANGED <<req_to_blocks, num_cached_block, popped>>

\* Blocks whose load failed, and all behind them in a table, leave the cache.
EvictTails ==
  \E first \in [Requests -> 1 .. MaxBlocks + 1] :
    /\ pool' = evict_blocks(pool, UNION {{req_to_blocks[r][i] : i \in first[r]..Len(req_to_blocks[r])}
                                         : r \in Requests})
    /\ UNCHANGED <<req_to_blocks, num_cached_block, popped>>

EvictBlocks == EvictTails /\ loads_failed' = TRUE

RequestStep(r) == AllocateSlots(r) \/ CacheBlocks(r) \/ Free(r) \/ PopBlocksForFree(r)

\* The calls made while every load succeeds.
NextLoadsSucceed ==
  \/ ((\E r \in Requests : RequestStep(r)) \/ FreePopped) /\ UNCHANGED loads_failed
  \/ ResetPrefixCache

Next == NextLoadsSucceed \/ EvictBlocks

Spec == Init /\ [][Next]_clientVars

----------------------------------------------------------------------------
(* Properties                                                              *)

\* The variables have their types.
TypeOK ==
  /\ pool \in PoolType
  /\ req_to_blocks \in [Requests -> Seq(Blocks)]
  /\ num_cached_block \in [Requests -> Nat]
  /\ popped \in Seq(Seq(Blocks))
  /\ loads_failed \in BOOLEAN

\* ref_cnt counts the tables and the owed releases that contain the block, so
\* no sequence of allocations, hits, frees and deferred frees leaks a block or
\* frees one that is still in use.
RefCntIsHolders ==
  \A b \in Blocks :
    pool.ref_cnt[b] = Cardinality(TableHolders(b)) + Cardinality(PoppedHolders(b))

\* A block a request holds at position i can be found under no key but the
\* request's own i-th hash, and under none beyond what the request has cached:
\* what a later lookup finds there is this request's prefix.
TableMatchesHashes ==
  \A r \in Requests : \A i \in DOMAIN req_to_blocks[r] :
    KeysOf(pool, req_to_blocks[r][i])
      \subseteq IF i <= num_cached_block[r] THEN {BlockHashes[r][i]} ELSE {}

\* "A missing block implies every later block misses too", the assumption on
\* which find_longest_cache_hit stops at the first miss: eviction takes the
\* tail of a chain before its head. (A failed load leaves a gap, until a reset.)
PrefixClosed ==
  ~loads_failed => \A r \in Requests : \A i \in 1 .. MaxBlocks - 1 :
    pool.cached[BlockHashes[r][i + 1]] # <<>> => pool.cached[BlockHashes[r][i]] # <<>>

\* Free blocks that no lookup can find are handed out before any cached block,
\* unless a failed load took the keys of a block in the middle of the queue.
UncachedFirst ==
  ~loads_failed => \A i, j \in DOMAIN pool.free :
    i < j /\ KeysOf(pool, pool.free[j]) = {} => KeysOf(pool, pool.free[i]) = {}

\* While loads succeed no step takes a key from a block that somebody holds before
\* and after it: allocation never evicts a block that the same call has just hit.
HeldBlocksStayCached ==
  [][~loads_failed' => \A b \in Blocks : pool.ref_cnt[b] > 0 /\ pool'.ref_cnt[b] > 0
        => KeysOf(pool, b) \subseteq KeysOf(pool', b)]_clientVars
=============================================================================
