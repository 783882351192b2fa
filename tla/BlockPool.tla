------------------------------ MODULE BlockPool ------------------------------
(***************************************************************************)
(* The pool of physical KV-cache blocks, vllm/v1/core/block_pool.py: which *)
(* blocks are free and in what order they are handed out, how many holders *)
(* each block has, and which prefix hashes each block can be found under.  *)
(*                                                                         *)
(* The pool is one record p, and each method of the class BlockPool is an  *)
(* operator from the record before the call to the record after it, so     *)
(* that a caller which makes several calls in one step composes them.      *)
(*   p.ref_cnt      KVCacheBlock.ref_cnt                                   *)
(*   p.block_hash   KVCacheBlock.block_hash, the primary key, or NoHash    *)
(*   p.more         cached_block_hashes_by_block, the secondary keys       *)
(*   p.cached       cached_block_hash_to_block: key -> blocks, oldest first*)
(*   p.free         free_block_queue, the next block to hand out first     *)
(*                                                                         *)
(* A key is a BlockHashWithGroupId. Hashes chain over the whole prefix, so *)
(* a key determines how many tokens it covers: HashTokens[k], which is     *)
(* what block_hash_num_tokens holds. The null block is not in Blocks: its  *)
(* count is not maintained and is_null keeps it out of the queue and of    *)
(* the hash map.                                                           *)
(***************************************************************************)
EXTENDS OrderedFilter

CONSTANTS
  Blocks,        \* the allocatable blocks, all but the null block
  NullBlock,     \* block 0, the placeholder
  Keys,          \* block hashes with group id
  NoHash,        \* block_hash is None
  HashTokens,    \* the prefix length each key stands for
  EnableCaching  \* enable_prefix_caching

ASSUME PoolAssumption ==
  /\ IsFiniteSet(Blocks)
  /\ NullBlock \notin Blocks
  /\ NoHash \notin Keys
  /\ HashTokens \in [Keys -> Nat]
  /\ EnableCaching \in BOOLEAN

PoolType ==
  [ref_cnt    : [Blocks -> Nat],
   block_hash : [Blocks -> Keys \cup {NoHash}],
   more       : [Blocks -> SUBSET Keys],
   cached     : [Keys -> Seq(Blocks)],
   free       : Seq(Blocks)]

\* The blocks in the order of their ids.
BlockOrder == CHOOSE order \in [1..Cardinality(Blocks) -> Blocks] : NoDup(order)

\* The pool after __init__, the queue filled in the order of the ids.
InitialPool ==
  [ref_cnt    |-> [b \in Blocks |-> 0],
   block_hash |-> [b \in Blocks |-> NoHash],
   more       |-> [b \in Blocks |-> {}],
   cached     |-> [k \in Keys |-> <<>>],
   free       |-> BlockOrder]

----------------------------------------------------------------------------
(* The hash map                                                            *)

\* Every key under which the block can be found.
KeysOf(p, b) ==
  p.more[b] \cup (IF p.block_hash[b] = NoHash THEN {} ELSE {p.block_hash[b]})

\* BlockHashToBlockMap.get_one_block: the block cached first under the key.
get_one_block(p, k) == IF p.cached[k] = <<>> THEN NullBlock ELSE p.cached[k][1]

\* Mutant: the blocks forget their keys but the map keeps the entries.
RemoveHashesOnly(p, S) ==
  [p EXCEPT
     !.block_hash = [b \in Blocks |-> IF b \in S THEN NoHash ELSE p.block_hash[b]],
     !.more       = [b \in Blocks |-> IF b \in S THEN {} ELSE p.more[b]]]

\* Each block of S loses all of its keys.
_remove_cached_block_hashes(p, S) ==
  [p EXCEPT
     !.cached     = [k \in Keys |-> Filter(p.cached[k],
                                           {b \in Blocks : b \notin S \/ k \notin KeysOf(p, b)})],
     !.block_hash = [b \in Blocks |-> IF b \in S THEN NoHash ELSE p.block_hash[b]],
     !.more       = [b \in Blocks |-> IF b \in S THEN {} ELSE p.more[b]]]

\* Mutant: a block that is cached again under a key goes to the front.
InsertInFront(p, k, b) ==
  [p EXCEPT
     !.block_hash[b] = IF p.block_hash[b] = NoHash THEN k ELSE p.block_hash[b],
     !.more[b]       = IF p.block_hash[b] \in {NoHash, k} THEN p.more[b] ELSE p.more[b] \cup {k},
     !.cached[k]     = <<b>> \o Filter(p.cached[k], Blocks \ {b})]

\* The key becomes the block's primary key if it has none, else a secondary
\* one; nothing happens if the block is already cached under it.
_insert_block_hash(p, k, b) ==
  IF p.block_hash[b] = k \/ b \in Elems(p.cached[k])
  THEN p
  ELSE [p EXCEPT
          !.block_hash[b] = IF p.block_hash[b] = NoHash THEN k ELSE p.block_hash[b],
          !.more[b]       = IF p.block_hash[b] = NoHash THEN p.more[b] ELSE p.more[b] \cup {k},
          !.cached[k]     = Append(p.cached[k], b)]

\* The loop's assertion: a block that is cached again was cached for less.
CanCacheFullBlocks(p, blocks, keys, num_cached, num_full) ==
  \A i \in num_cached + 1 .. num_full :
     blocks[i] # NullBlock /\ p.block_hash[blocks[i]] # NoHash
       => HashTokens[p.block_hash[blocks[i]]] < HashTokens[keys[i]]

\* Blocks num_cached+1 .. num_full of a request become findable under the
\* request's hashes; a block promoted from partial to full loses its old keys.
cache_full_blocks(p, blocks, keys, num_cached, num_full) ==
  LET new == {i \in num_cached + 1 .. num_full : blocks[i] # NullBlock}
      q   == _remove_cached_block_hashes(p, {blocks[i] : i \in new})
      At(b)    == CHOOSE i \in new : blocks[i] = b
      Under(k) == CHOOSE i \in new : keys[i] = k
  IN [q EXCEPT
        !.block_hash = [b \in Blocks |-> IF \E i \in new : blocks[i] = b
                                          THEN keys[At(b)] ELSE q.block_hash[b]],
        !.cached     = [k \in Keys |-> IF \E i \in new : keys[i] = k
                                        THEN Append(q.cached[k], blocks[Under(k)])
                                        ELSE q.cached[k]]]

\* Mutant: a primary key that covers less stays.
CachePartialKeepsPrimary(p, b, k) == _insert_block_hash(p, k, b)

\* A partly filled block becomes findable under the key of a boundary inside
\* it. A primary key that covers less is replaced, any other key is kept.
cache_partial_block(p, b, k) ==
  LET already_cached == p.block_hash[b] = k \/ b \in Elems(p.cached[k])
      covers_less    == p.block_hash[b] # NoHash /\ HashTokens[p.block_hash[b]] < HashTokens[k]
  IN _insert_block_hash(IF ~already_cached /\ covers_less
                        THEN _remove_cached_block_hashes(p, {b}) ELSE p, k, b)

\* src's keys are re-pointed to dst, which has none; the primary stays primary.
move_block_hashes(p, src, dst) ==
  LET q == _remove_cached_block_hashes(p, {src})
  IN [q EXCEPT
        !.block_hash[dst] = p.block_hash[src],
        !.more[dst]       = p.more[src],
        !.cached          = [k \in Keys |-> IF k \in KeysOf(p, src)
                                             THEN Append(q.cached[k], dst) ELSE q.cached[k]]]

----------------------------------------------------------------------------
(* Allocation                                                              *)

get_num_free_blocks(p) == Len(p.free)

\* The blocks that get_new_blocks(n) returns.
NewBlocks(p, n) == SubSeq(p.free, 1, n)

\* Mutant: the blocks are handed out without being evicted.
GetWithoutEviction(p, n) ==
  LET ret == Elems(NewBlocks(p, n))
  IN [p EXCEPT
        !.ref_cnt = [b \in Blocks |-> IF b \in ret THEN p.ref_cnt[b] + 1 ELSE p.ref_cnt[b]],
        !.free    = SubSeq(p.free, n + 1, Len(p.free))]

\* The first n free blocks are evicted from the prefix cache and handed out.
get_new_blocks(p, n) ==
  LET ret == Elems(NewBlocks(p, n))
      q   == IF EnableCaching THEN _remove_cached_block_hashes(p, ret) ELSE p
  IN [q EXCEPT
        !.ref_cnt = [b \in Blocks |-> IF b \in ret THEN q.ref_cnt[b] + 1 ELSE q.ref_cnt[b]],
        !.free    = SubSeq(p.free, n + 1, Len(p.free))]

\* Mutant: only a block without holders is counted.
TouchCountsFirst(p, blocks) ==
  LET first == {b \in Elems(blocks) \ {NullBlock} : p.ref_cnt[b] = 0}
  IN [p EXCEPT
        !.ref_cnt = [b \in Blocks |-> IF b \in first THEN 1 ELSE p.ref_cnt[b]],
        !.free    = Filter(p.free, Blocks \ first)]

\* Each block gains a holder; one that had none leaves the free queue.
touch(p, blocks) ==
  LET hit == Elems(blocks) \ {NullBlock}
  IN [p EXCEPT
        !.ref_cnt = [b \in Blocks |-> IF b \in hit THEN p.ref_cnt[b] + 1 ELSE p.ref_cnt[b]],
        !.free    = Filter(p.free, {b \in Blocks : b \notin hit \/ p.ref_cnt[b] # 0})]

\* Mutant: every freed block goes to the back of the queue.
FreeToBack(p, ordered) ==
  LET freed == {b \in Elems(ordered) \ {NullBlock} : p.ref_cnt[b] = 1}
  IN [p EXCEPT
        !.ref_cnt = [b \in Blocks |-> IF b \in Elems(ordered)
                                       THEN p.ref_cnt[b] - 1 ELSE p.ref_cnt[b]],
        !.free    = p.free \o Filter(ordered, freed)]

\* Each block loses a holder. One that has none left joins the free queue: at
\* the front if it is in no prefix cache, at the back if it is.
free_blocks(p, ordered) ==
  LET freed == {b \in Elems(ordered) \ {NullBlock} : p.ref_cnt[b] = 1}
      blocks_to_evict_first == {b \in freed : p.block_hash[b] = NoHash \/ ~EnableCaching}
  IN [p EXCEPT
        !.ref_cnt = [b \in Blocks |-> IF b \in Elems(ordered)
                                       THEN p.ref_cnt[b] - 1 ELSE p.ref_cnt[b]],
        !.free    = Filter(ordered, blocks_to_evict_first) \o p.free
                      \o Filter(ordered, freed \ blocks_to_evict_first)]

\* The blocks stay where they are and lose their keys.
evict_blocks(p, S) == _remove_cached_block_hashes(p, S)

\* Mutant: blocks in use do not stop a reset.
CanAlwaysReset(p) == TRUE

\* Refused while any block but the null block is in use.
CanResetPrefixCache(p) == get_num_free_blocks(p) = Cardinality(Blocks)

reset_prefix_cache(p) ==
  IF CanResetPrefixCache(p)
  THEN [p EXCEPT !.cached     = [k \in Keys |-> <<>>],
                 !.block_hash = [b \in Blocks |-> NoHash],
                 !.more       = [b \in Blocks |-> {}]]
  ELSE p

----------------------------------------------------------------------------
(* What the pool's methods keep true                                       *)

\* A block is in the free queue, once, exactly while it has no holder.
FreeQueueInv(p) ==
  /\ NoDup(p.free)
  /\ Elems(p.free) = {b \in Blocks : p.ref_cnt[b] = 0}

\* A lookup under a key finds, once each, exactly the blocks that carry the
\* key, and only a block with a primary key has secondary ones.
HashMapInv(p) ==
  /\ \A k \in Keys : /\ NoDup(p.cached[k])
                      /\ Elems(p.cached[k]) = {b \in Blocks : k \in KeysOf(p, b)}
  /\ \A b \in Blocks : p.block_hash[b] = NoHash => p.more[b] = {}

PoolInv(p) == p \in PoolType /\ FreeQueueInv(p) /\ HashMapInv(p)
=============================================================================
