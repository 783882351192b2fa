--------------------------- MODULE LinkedBlockPool ---------------------------
(***************************************************************************)
(* The block pool as it is built: the free queue is the linked list of     *)
(* FreeBlockQueue and the blocks' counts and hashes are kept beside it.    *)
(* Shown to implement BlockPoolClient, where the queue is a sequence.      *)
(***************************************************************************)
EXTENDS PoolCalls, FreeBlockQueue

VARIABLES
  meta,    \* the pool's record without the free queue
  queue    \* free_block_queue

vars == <<meta, queue>>

Held == {b \in Blocks : meta.ref_cnt[b] > 0}

\* __init__: the queue of all blocks, from which the null block is popped.
Init ==
  /\ meta = [ref_cnt    |-> InitialPool.ref_cnt,
             block_hash |-> InitialPool.block_hash,
             more       |-> InitialPool.more,
             cached     |-> InitialPool.cached]
  /\ queue = popleft_n(NewQueue(<<NullBlock>> \o BlockOrder), 1)

\* Each block of S has n more holders.
Counted(m, S, n) == [m EXCEPT !.ref_cnt = [b \in Blocks |-> IF b \in S THEN @[b] + n ELSE @[b]]]

\* The three methods that move blocks in or out of the queue, each from the pool
\* s = [meta |-> ..., queue |-> ...] before the call to the pool after it.
get_new_blocks_linked(s, n) ==
  LET ret == Elems(First(s.queue, n))
      m   == IF EnableCaching THEN _remove_cached_block_hashes(s.meta, ret) ELSE s.meta
  IN [meta |-> Counted(m, ret, 1), queue |-> popleft_n(s.queue, n)]

\* One block after the other leaves the list.
RECURSIVE RemoveAll(_, _)
RemoveAll(L, blocks) ==
  IF blocks = <<>> THEN L ELSE RemoveAll(remove(L, Head(blocks)), Tail(blocks))

touch_linked(s, blocks) ==
  [meta  |-> Counted(s.meta, Elems(blocks), 1),
   queue |-> RemoveAll(s.queue, Filter(blocks, {b \in Blocks : s.meta.ref_cnt[b] = 0}))]

free_blocks_linked(s, ordered) ==
  LET freed == {b \in Elems(ordered) : s.meta.ref_cnt[b] = 1}
      blocks_to_evict_first == {b \in freed : s.meta.block_hash[b] = NoHash \/ ~EnableCaching}
  IN [meta  |-> Counted(s.meta, Elems(ordered), -1),
      queue |-> append_n(prepend_n(s.queue, Filter(ordered, blocks_to_evict_first)),
                         Filter(ordered, freed \ blocks_to_evict_first))]

Current == [meta |-> meta, queue |-> queue]

Becomes(s) == meta' = s.meta /\ queue' = s.queue

Touchable == Lists({b \in Blocks : meta.ref_cnt[b] < MaxRef})

GetNewBlocks ==
  \E n \in 1..MaxList :
    n <= queue.num_free_blocks /\ Becomes(get_new_blocks_linked(Current, n))

Touch == \E blocks \in Touchable : Becomes(touch_linked(Current, blocks))

FreeBlocks == \E ordered \in Lists(Held) : Becomes(free_blocks_linked(Current, ordered))

\* Mutant: a block may be cached again for less than it was cached for.
CacheFullUnchecked ==
  \E blocks \in Lists(Held), keys \in Lists(Keys) :
    /\ Len(keys) = Len(blocks)
    /\ meta' = cache_full_blocks(meta, blocks, keys, 0, Len(blocks))
    /\ UNCHANGED queue

CacheFullBlocks ==
  \E blocks \in Lists(Held), keys \in Lists(Keys) :
    /\ Len(keys) = Len(blocks)
    /\ CanCacheFullBlocks(meta, blocks, keys, 0, Len(blocks))
    /\ meta' = cache_full_blocks(meta, blocks, keys, 0, Len(blocks))
    /\ UNCHANGED queue

CachePartialBlock ==
  /\ \E b \in Held, k \in Keys : meta' = cache_partial_block(meta, b, k)
  /\ UNCHANGED queue

MoveBlockHashes ==
  \E src, dst \in Held :
    /\ src # dst
    /\ KeysOf(meta, dst) = {}
    /\ meta' = move_block_hashes(meta, src, dst)
    /\ UNCHANGED queue

EvictBlocks ==
  /\ \E S \in SUBSET Blocks : meta' = evict_blocks(meta, S)
  /\ UNCHANGED queue

\* Refused unless the count says that all blocks but the null block are free.
ResetPrefixCache ==
  /\ queue.num_free_blocks = Cardinality(Blocks)
  /\ meta' = [meta EXCEPT !.cached     = [k \in Keys |-> <<>>],
                          !.block_hash = [b \in Blocks |-> NoHash],
                          !.more       = [b \in Blocks |-> {}]]
  /\ UNCHANGED queue

Next ==
  \/ GetNewBlocks \/ Touch \/ FreeBlocks
  \/ CacheFullBlocks \/ CachePartialBlock \/ MoveBlockHashes
  \/ EvictBlocks \/ ResetPrefixCache

Spec == Init /\ [][Next]_vars

----------------------------------------------------------------------------
(* Properties                                                              *)

\* The pool s with the queue read off the links.
AsSequence(s) ==
  [ref_cnt |-> s.meta.ref_cnt, block_hash |-> s.meta.block_hash, more |-> s.meta.more,
   cached |-> s.meta.cached, free |-> get_all_free_blocks(s.queue)]

AsPool == AsSequence(Current)

Pool == INSTANCE BlockPoolClient WITH pool <- AsPool

\* The linked list always is a list: forward links, backward links and the count
\* agree, through removals from the middle and insertions at both ends, and a
\* block that left the list points nowhere.
LinksAgree == WellLinked(queue)

\* Every call hands out, takes back and orders the same blocks as the same call of
\* the pool on a sequence: the order in which blocks are evicted is the promised one.
CallsAgree ==
  /\ \A n \in 1..queue.num_free_blocks :
       AsSequence(get_new_blocks_linked(Current, n)) = get_new_blocks(AsPool, n)
  /\ \A blocks \in Touchable :
       AsSequence(touch_linked(Current, blocks)) = touch(AsPool, blocks)
  /\ \A ordered \in Lists(Held) :
       AsSequence(free_blocks_linked(Current, ordered)) = free_blocks(AsPool, ordered)

\* A block's primary key covers at least as long a prefix as its other keys:
\* what the promotion of a partial block compares against is the longest prefix
\* the block is known for, so no promotion keeps a key of an older content.
PrimaryCoversMost ==
  \A b \in Blocks : \A k \in meta.more[b] : HashTokens[k] <= HashTokens[meta.block_hash[b]]

\* A block keeps its place under a key as long as it keeps the key: of several
\* blocks cached under one hash, a lookup keeps returning the same one until
\* that one is evicted, so deduplicated block tables do not flap.
LookupIsStable ==
  [][\A k \in Keys :
       LET b == get_one_block(meta, k)
       IN b # NullBlock /\ k \in KeysOf(meta', b) => get_one_block(meta', k) = b]_vars

\* The call of the pool on a sequence that a step stands for. Only some calls
\* change holder counts, so TLC has to look among those or among the others.
SameCall ==
  IF AsPool'.ref_cnt = AsPool.ref_cnt
  THEN \/ AsPool' = AsPool \/ Pool!EvictBlocks \/ Pool!CachePartialBlock
       \/ Pool!MoveBlockHashes \/ Pool!ResetPrefixCache \/ Pool!CacheFullBlocks
  ELSE Pool!GetNewBlocks \/ Pool!FreeBlocks \/ Pool!Touch

\* The pool on the linked list implements the pool on a sequence, Pool!Spec: every
\* step is a call that a client of that pool may make, or changes nothing of it.
ImplementsPool == Pool!Init /\ [][SameCall]_vars
=============================================================================
