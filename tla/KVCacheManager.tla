--------------------------- MODULE KVCacheManager ---------------------------
(***************************************************************************)
(* The block tables of the requests, vllm/v1/core/kv_cache_manager.py with *)
(* its coordinator and the full-attention manager of                       *)
(* single_type_kv_cache_manager.py, for one KV-cache group without         *)
(* speculative lookahead.                                                  *)
(*                                                                         *)
(* The manager's methods are actions on its own variables, which a caller  *)
(* takes inside its steps: the scheduler in Scheduler.tla, any legal       *)
(* caller in KVCacheClient.tla. `popped' is the list of block lists that   *)
(* pop_blocks_for_free has returned and whose release is still owed.       *)
(***************************************************************************)
EXTENDS PoolState

CONSTANTS
  Requests,     \* request ids
  BlockSize,    \* tokens per block
  MaxTokens,    \* max_model_len
  BlockHashes   \* request.block_hashes: the keys of a request's full blocks

MaxBlocks == (MaxTokens + BlockSize - 1) \div BlockSize

ASSUME ManagerAssumption ==
  /\ IsFiniteSet(Requests)
  /\ BlockSize \in Nat \ {0}
  /\ MaxTokens \in Nat \ {0}
  /\ BlockHashes \in [Requests -> [1..MaxBlocks -> Keys]]
  /\ \A r, s \in Requests : \A i, j \in 1..MaxBlocks :
        BlockHashes[r][i] = BlockHashes[s][j]
          => i = j /\ \A m \in 1..i : BlockHashes[r][m] = BlockHashes[s][m]
  /\ \A r \in Requests : \A i \in 1..MaxBlocks :
        HashTokens[BlockHashes[r][i]] = i * BlockSize

VARIABLES
  req_to_blocks,     \* request id -> its block table
  num_cached_block,  \* request id -> how many of its blocks are cached
  popped             \* block lists popped for a later free_blocks, oldest first

kvVars == <<pool, req_to_blocks, num_cached_block, popped>>

cdiv(a, b) == (a + b - 1) \div b

----------------------------------------------------------------------------
(* Prefix-cache lookup                                                     *)

\* The lengths, in blocks, of the cached prefixes of r.
HitLengths(r, max_length) ==
  {n \in 0 .. (max_length \div BlockSize) :
     \A i \in 1..n : get_one_block(pool, BlockHashes[r][i]) # NullBlock}

\* FullAttentionManager.find_longest_cache_hit: the longest cached prefix.
find_longest_cache_hit(r, max_length) ==
  LET lengths == HitLengths(r, max_length)
      longest == CHOOSE n \in lengths : \A m \in lengths : m <= n
  IN [i \in 1..longest |-> get_one_block(pool, BlockHashes[r][i])]

\* get_computed_blocks: the last token is always computed, for its logits.
get_computed_blocks(r, num_tokens) ==
  IF EnableCaching THEN find_longest_cache_hit(r, num_tokens - 1) ELSE <<>>

----------------------------------------------------------------------------
(* Allocation                                                              *)

\* How many blocks of the hit would leave the free queue.
NumEvictable(hit) == Cardinality({i \in DOMAIN hit : pool.ref_cnt[hit[i]] = 0})

\* Blocks beyond the table and the hit that num_tokens tokens need.
NumNewBlocks(r, hit, num_tokens) ==
  LET missing == cdiv(num_tokens, BlockSize) - Len(req_to_blocks[r]) - Len(hit)
  IN IF missing > 0 THEN missing ELSE 0

get_num_blocks_to_allocate(r, hit, num_tokens) ==
  NumNewBlocks(r, hit, num_tokens) + NumEvictable(hit)

\* The free-capacity check of allocate_slots; `held_back' is the watermark and
\* the blocks reserved for other requests.
CanAllocate(r, hit, num_tokens, held_back) ==
  get_num_blocks_to_allocate(r, hit, num_tokens) + held_back <= get_num_free_blocks(pool)

\* The blocks of the request are registered up to num_tokens tokens, in the
\* given pool and with the given table.
CacheUpTo(r, p, table, num_cached, num_tokens) ==
  LET num_full == num_tokens \div BlockSize
  IN IF num_full > num_cached
     THEN /\ pool' = cache_full_blocks(p, table, BlockHashes[r], num_cached, num_full)
          /\ num_cached_block' = [num_cached_block EXCEPT ![r] = num_full]
     ELSE /\ pool' = p
          /\ num_cached_block' = [num_cached_block EXCEPT ![r] = num_cached]

\* The table grows to num_tokens tokens with blocks of the pool p, in which the
\* hit is touched, and is cached up to num_cache tokens.
AllocateFrom(p, r, hit, num_tokens, num_cache) ==
  LET n     == NumNewBlocks(r, hit, num_tokens)
      table == req_to_blocks[r] \o hit \o NewBlocks(p, n)
  IN /\ req_to_blocks' = [req_to_blocks EXCEPT ![r] = table]
     /\ CacheUpTo(r, get_new_blocks(p, n), table,
                  IF hit = <<>> THEN num_cached_block[r] ELSE Len(hit), num_cache)

\* Mutant: a hit is counted by the lookup and by the allocation.
AllocateTouchesTwice(r, hit, num_tokens, num_cache, delay_cache_blocks) ==
  AllocateFrom(touch(touch(pool, hit), hit), r, hit, num_tokens,
               IF EnableCaching /\ ~delay_cache_blocks THEN num_cache ELSE 0)

\* The rest of allocate_slots once the check has passed: the hit blocks are
\* touched before any block is taken from the queue, the table grows to hold
\* num_tokens tokens (those a connector will load included), and the blocks are
\* cached up to num_cache tokens unless that is delayed until they are loaded.
allocate_slots(r, hit, num_tokens, num_cache, delay_cache_blocks) ==
  AllocateFrom(touch(pool, hit), r, hit, num_tokens,
               IF EnableCaching /\ ~delay_cache_blocks THEN num_cache ELSE 0)

\* cache_blocks: called once external blocks have arrived, or once sampled
\* tokens are known.
cache_blocks(r, num_tokens) ==
  /\ CacheUpTo(r, pool, req_to_blocks[r], num_cached_block[r],
               IF EnableCaching THEN num_tokens ELSE 0)
  /\ UNCHANGED req_to_blocks

\* The request forgets its blocks.
ForgetBlocks(r) ==
  /\ req_to_blocks' = [req_to_blocks EXCEPT ![r] = <<>>]
  /\ num_cached_block' = [num_cached_block EXCEPT ![r] = 0]

\* Mutant: the head of the request is freed first.
FreeHeadFirst(r) ==
  /\ pool' = free_blocks(pool, req_to_blocks[r])
  /\ ForgetBlocks(r)

\* free: the tail of the request is freed, and so evicted, first.
free(r) ==
  /\ pool' = free_blocks(pool, Reversed(req_to_blocks[r]))
  /\ ForgetBlocks(r)

\* pop_blocks_for_free: the release is owed until the steps in flight are done.
pop_blocks_for_free(r) ==
  /\ popped' = IF req_to_blocks[r] = <<>> THEN popped ELSE Append(popped, req_to_blocks[r])
  /\ ForgetBlocks(r)
  /\ UNCHANGED pool

\* The oldest owed release is made, its tail first.
FreePopped ==
  /\ popped # <<>>
  /\ pool' = free_blocks(pool, Reversed(Head(popped)))
  /\ popped' = Tail(popped)
  /\ UNCHANGED <<req_to_blocks, num_cached_block>>

----------------------------------------------------------------------------
(* Who holds a block                                                       *)

TableHolders(b)  == {r \in Requests : b \in Elems(req_to_blocks[r])}
PoppedHolders(b) == {i \in DOMAIN popped : b \in Elems(popped[i])}

InitManager ==
  /\ pool = InitialPool
  /\ req_to_blocks = [r \in Requests |-> <<>>]
  /\ num_cached_block = [r \in Requests |-> 0]
  /\ popped = <<>>
=============================================================================
