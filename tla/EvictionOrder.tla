---------------------------- MODULE EvictionOrder ----------------------------
(***************************************************************************)
(* The order of the free queue: blocks that no lookup can find are handed  *)
(* out first, and of a cached chain the tail before the head, so that what *)
(* is left in the prefix cache is closed under prefixes. For every number  *)
(* of requests, blocks, hashes and tokens and every block size.            *)
(***************************************************************************)
EXTENDS KVCacheClientProofs

----------------------------------------------------------------------------
(* The inductive invariant                                                 *)

\* A list of blocks in which every cached block is preceded by the block of
\* every shorter prefix: the block at j can only be found under the j-th hash
\* of a request, and then the block before it under the hash before that.
Chained(p, t) ==
  \A j \in DOMAIN t : \A r \in Requests, m \in 1..MaxBlocks :
    BlockHashes[r][m] \in KeysOf(p, t[j])
      => m = j /\ (j > 1 => BlockHashes[r][j - 1] \in KeysOf(p, t[j - 1]))

\* What a request has not cached is in no owed release.
UncachedNotOwed ==
  \A r \in Requests : \A i \in DOMAIN req_to_blocks[r] :
    i > num_cached_block[r] => PoppedHolders(req_to_blocks[r][i]) = {}

\* What a request has cached can be found.
CachedHaveKeys ==
  \A r \in Requests : \A i \in 1..num_cached_block[r] :
    BlockHashes[r][i] \in KeysOf(pool, req_to_blocks[r][i])

\* An owed release was such a table, and still is a chain.
OwedChained == \A i \in DOMAIN popped : Chained(pool, popped[i])

\* A free block of a cached chain is evicted before the block of the prefix
\* before it.
TailFirst ==
  \A b \in Elems(pool.free), r \in Requests, m \in 1 .. MaxBlocks - 1 :
    BlockHashes[r][m + 1] \in KeysOf(pool, b) =>
      \E c \in Blocks : /\ BlockHashes[r][m] \in KeysOf(pool, c)
                        /\ pool.ref_cnt[c] > 0 \/ Before(pool.free, b, c)

\* A free block without keys is handed out before any with one.
KeylessFirst ==
  \A b, c \in Blocks :
    Before(pool.free, b, c) /\ KeysOf(pool, c) = {} => KeysOf(pool, b) = {}

Ordered == CachedHaveKeys /\ OwedChained /\ TailFirst /\ KeylessFirst

OrderInv == UncachedNotOwed /\ (~loads_failed => Ordered)

\* Every table is a chain while loads succeed.
LEMMA TableChained ==
  ASSUME IInv, CachedHaveKeys, NEW r \in Requests
  PROVE  Chained(pool, req_to_blocks[r])
<1> DEFINE t == req_to_blocks[r]
<1> SUFFICES ASSUME NEW j \in DOMAIN t, NEW s \in Requests, NEW m \in 1..MaxBlocks,
                    BlockHashes[s][m] \in KeysOf(pool, t[j])
             PROVE  m = j /\ (j > 1 => BlockHashes[s][j - 1] \in KeysOf(pool, t[j - 1]))
  BY DEF Chained
<1>1. /\ t \in Seq(Blocks) /\ Len(t) \in Nat /\ DOMAIN t = 1..Len(t) /\ Len(t) <= MaxBlocks
      /\ num_cached_block[r] \in Nat /\ num_cached_block[r] <= Len(t)
  BY LenProperties DEF IInv, TablesTyped
<1>2. MaxBlocks \in Nat
  <2>1. 1 \in 1..MaxTokens
    BY ManagerAssumption
  <2> QED
    BY <2>1, BlocksNeeded
<1>3. j <= num_cached_block[r] /\ BlockHashes[s][m] = BlockHashes[r][j]
  BY DEF IInv, TableMatchesHashes
<1>4. j \in 1..MaxBlocks
  BY <1>1, <1>2
<1>5. m = j /\ \A l \in 1..m : BlockHashes[s][l] = BlockHashes[r][l]
  BY <1>3, <1>4, ManagerAssumption
<1>6. ASSUME j > 1 PROVE BlockHashes[s][j - 1] \in KeysOf(pool, t[j - 1])
  <2>1. j - 1 \in 1..num_cached_block[r] /\ j - 1 \in 1..m
    BY <1>1, <1>3, <1>5, <1>6
  <2>2. BlockHashes[r][j - 1] \in KeysOf(pool, t[j - 1])
    BY <2>1 DEF CachedHaveKeys
  <2> QED
    BY <1>5, <2>1, <2>2
<1> QED
  BY <1>5, <1>6

\* The invariant says what the properties say.
LEMMA OrderIsPrefixClosed ==
  ASSUME IInv, OrderInv
  PROVE  PrefixClosed /\ UncachedFirst
<1>1. ASSUME ~loads_failed, NEW r \in Requests, NEW i \in 1 .. MaxBlocks - 1,
             pool.cached[BlockHashes[r][i + 1]] # <<>>
      PROVE  pool.cached[BlockHashes[r][i]] # <<>>
  <2> DEFINE long  == BlockHashes[r][i + 1]
             short == BlockHashes[r][i]
  <2>0. Ordered
    BY <1>1 DEF OrderInv
  <2>1. /\ MaxBlocks \in Nat /\ i \in 1..MaxBlocks /\ i + 1 \in 1..MaxBlocks /\ i \in Nat /\ i >= 1
        /\ long \in Keys /\ short \in Keys
    <3>1. MaxBlocks \in Nat
      <4>1. 1 \in 1..MaxTokens
        BY ManagerAssumption
      <4> QED
        BY <4>1, BlocksNeeded
    <3>2. i \in 1..MaxBlocks /\ i + 1 \in 1..MaxBlocks /\ i \in Nat /\ i >= 1
      BY <3>1
    <3> QED
      BY <3>1, <3>2, ManagerAssumption
  <2>2. \A k \in Keys : /\ pool.cached[k] \in Seq(Blocks)
                        /\ Elems(pool.cached[k]) = {b \in Blocks : k \in KeysOf(pool, b)}
    BY DEF IInv, PoolConsistent, PoolInv, PoolType, HashMapInv
  <2>3. PICK b \in Blocks : long \in KeysOf(pool, b)
    <3>1. pool.cached[long] \in Seq(Blocks) /\ pool.cached[long] # <<>>
      BY <1>1, <2>1, <2>2
    <3>2. pool.cached[long][1] \in Elems(pool.cached[long])
      <4>1. 1 \in DOMAIN pool.cached[long]
        BY <3>1, LenProperties, EmptySeq
      <4> QED
        BY <4>1 DEF Elems
    <3> QED
      BY <2>1, <2>2, <3>2, Zenon
  <2> SUFFICES \E c \in Blocks : short \in KeysOf(pool, c)
    <3>1. PICK c \in Blocks : short \in KeysOf(pool, c)
      OBVIOUS
    <3>2. c \in Elems(pool.cached[short])
      BY <2>1, <2>2, <3>1
    <3> QED
      BY <3>2 DEF Elems
  \* The block before it in a list that holds it.
  <2>4. ASSUME NEW t \in Seq(Blocks), Chained(pool, t), b \in Elems(t)
        PROVE  \E c \in Blocks : short \in KeysOf(pool, c)
    <3>1. PICK j \in DOMAIN t : t[j] = b
      BY <2>4 DEF Elems
    <3>2. i + 1 = j /\ (j > 1 => BlockHashes[r][j - 1] \in KeysOf(pool, t[j - 1]))
      BY <2>1, <2>3, <2>4, <3>1, Zenon DEF Chained
    <3>3. j > 1 /\ j - 1 = i /\ i \in DOMAIN t
      BY <2>1, <3>1, <3>2, LenProperties
    <3>4. t[i] \in Blocks /\ short \in KeysOf(pool, t[i])
      BY <3>2, <3>3, LenProperties
    <3> QED
      BY <3>4
  <2>5. CASE b \in Elems(pool.free)
    BY <1>1, <2>0, <2>3, <2>5 DEF Ordered, TailFirst
  <2>6. CASE b \notin Elems(pool.free)
    <3>1. pool.ref_cnt[b] # 0
      BY <2>6 DEF IInv, PoolConsistent, PoolInv, FreeQueueInv
    <3>2. pool.ref_cnt[b] = Cardinality(TableHolders(b)) + Cardinality(PoppedHolders(b))
      BY DEF IInv, RefCntIsHolders
    <3>3. TableHolders(b) # {} \/ PoppedHolders(b) # {}
      BY <3>1, <3>2, FS_EmptySet
    <3>4. CASE TableHolders(b) # {}
      <4>1. PICK s \in Requests : b \in Elems(req_to_blocks[s])
        BY <3>4 DEF TableHolders
      <4>2. req_to_blocks[s] \in Seq(Blocks)
        BY DEF IInv, TablesTyped
      <4>3. Chained(pool, req_to_blocks[s])
        BY <2>0, TableChained DEF Ordered
      <4> QED
        BY <2>4, <4>1, <4>2, <4>3
    <3>5. CASE PoppedHolders(b) # {}
      <4>1. PICK k \in DOMAIN popped : b \in Elems(popped[k])
        BY <3>5 DEF PoppedHolders
      <4>2. popped[k] \in Seq(Blocks)
        BY LenProperties DEF IInv, TablesTyped
      <4>3. Chained(pool, popped[k])
        BY <2>0 DEF Ordered, OwedChained
      <4> QED
        BY <2>4, <4>1, <4>2, <4>3
    <3> QED
      BY <3>3, <3>4, <3>5
  <2> QED
    BY <2>5, <2>6
<1>2. ASSUME ~loads_failed, NEW i \in DOMAIN pool.free, NEW j \in DOMAIN pool.free,
             i < j, KeysOf(pool, pool.free[j]) = {}
      PROVE  KeysOf(pool, pool.free[i]) = {}
  <2>1. Before(pool.free, pool.free[i], pool.free[j])
    BY <1>2 DEF Before
  <2>2. pool.free[i] \in Blocks /\ pool.free[j] \in Blocks
    BY LenProperties DEF IInv, PoolConsistent, PoolInv, PoolType
  <2> QED
    BY <1>2, <2>1, <2>2 DEF OrderInv, Ordered, KeylessFirst
<1>3. PrefixClosed
  BY <1>1 DEF PrefixClosed
<1>4. UncachedFirst
  BY <1>2 DEF UncachedFirst
<1> QED
  BY <1>3, <1>4

----------------------------------------------------------------------------
(* Tables grow                                                             *)

\* Caching leaves the queue alone.
LEMMA CacheUpToFree ==
  ASSUME NEW r \in Requests, NEW p, PoolInv(p), NEW table, NEW num_cached, NEW num_tokens,
         CacheUpTo(r, p, table, num_cached, num_tokens)
  PROVE  pool'.free = p.free
<1> DEFINE full == num_tokens \div BlockSize
           new  == {i \in num_cached + 1 .. full : table[i] # NullBlock}
           u    == _remove_cached_block_hashes(p, {table[i] : i \in new})
<1>1. u \in PoolType /\ u.free = p.free
  BY RemoveHashesInv DEF PoolInv
<1> HIDE DEF u
<1>2. CASE full > num_cached
  <2>1. PICK h, c : pool' = [u EXCEPT !.block_hash = h, !.cached = c]
    BY <1>2, Zenon DEF CacheUpTo, cache_full_blocks, u
  <2> QED
    BY <1>1, <2>1 DEF PoolType
<1>3. CASE ~(full > num_cached)
  BY <1>3 DEF CacheUpTo
<1> QED
  BY <1>2, <1>3

\* The queue of the pool after a growth is a part of the queue before it, in the
\* same order, and what followed a block that is left was hit or is left too.
LEMMA GrowQueue ==
  ASSUME IInv, NEW r \in Requests, NEW hit, NEW ret, NEW q, NEW table, NEW num_tokens,
         Growth(r, hit, ret, q, table, num_tokens), NEW b, NEW c
  PROVE  /\ Before(pool'.free, b, c) => Before(pool.free, b, c)
         /\ b \in Elems(pool'.free) /\ Before(pool.free, b, c)
              => c \in Elems(hit) \/ Before(pool'.free, b, c)
<1>1. PoolInv(q) /\ CacheUpTo(r, q, table, CachedPart(r, hit), num_tokens)
  BY DEF Growth, AllocatedFrom
<1>2. pool'.free = q.free
  BY <1>1, CacheUpToFree, Zenon
<1>3. CASE q = pool
  BY <1>2, <1>3
<1>4. CASE \E n \in Nat : /\ n + NumEvictable(hit) <= get_num_free_blocks(pool)
                          /\ q = get_new_blocks(touch(pool, hit), n)
  <2>1. PICK n \in Nat : /\ n + NumEvictable(hit) <= get_num_free_blocks(pool)
                         /\ q = get_new_blocks(touch(pool, hit), n)
    BY <1>4
  <2>2. PoolInv(pool) /\ hit \in Seq(Blocks) /\ NoDup(hit)
    BY DEF IInv, PoolConsistent, Growth, IsHit
  <2>3. /\ Before(q.free, b, c) => Before(pool.free, b, c)
        /\ b \in Elems(q.free) /\ Before(pool.free, b, c)
             => c \in Elems(hit) \/ Before(q.free, b, c)
    BY <2>1, <2>2, AllocatedOrder
  <2> QED
    BY <1>2, <2>3
<1> QED
  BY <1>3, <1>4 DEF Growth

\* A growth keeps the order: it only adds keys to blocks of the growing table,
\* which is a chain, and takes them from blocks at the front of the queue.
LEMMA GrowOrder ==
  ASSUME IInv, OrderInv, NEW r \in Requests, NEW hit, NEW ret, NEW q, NEW table, NEW num_tokens,
         Growth(r, hit, ret, q, table, num_tokens), loads_failed' = loads_failed
  PROVE  OrderInv'
<1> DEFINE T     == req_to_blocks
           old   == req_to_blocks[r] \o hit
           first == CachedPart(r, hit)
<1>1. PICK c \in Nat : Grown(r, hit, q, table, c)
  BY GrowInv
<1>2. /\ IInv'
      /\ \A b \in Blocks : pool.ref_cnt[b] > 0 => KeysOf(pool, b) \subseteq KeysOf(pool', b)
  BY GrowInv
<1>3. /\ IsHit(r, hit) /\ AllocatedFrom(q, hit, ret) /\ popped' = popped
      /\ table = old \o ret
      /\ T' = [T EXCEPT ![r] = table]
  BY DEF Growth
<1>4. /\ first <= c /\ num_cached_block' = [num_cached_block EXCEPT ![r] = c]
      /\ CachedTo(pool', q, r, table, first, c)
      /\ \A i \in DOMAIN old : KeysOf(pool, old[i]) \subseteq KeysOf(pool', old[i])
      /\ \A i \in DOMAIN old : i <= first => KeysOf(pool', old[i]) = KeysOf(pool, old[i])
      /\ \A b \in Blocks \ Elems(table) : KeysOf(pool', b) = KeysOf(pool, b)
  BY <1>1, Zenon DEF Grown, KeysGrown
<1>5. /\ T \in [Requests -> Seq(Blocks)] /\ num_cached_block \in [Requests -> Nat]
      /\ hit \in Seq(Blocks) /\ ret \in Seq(Blocks)
      /\ pool.ref_cnt \in [Blocks -> Nat] /\ pool'.ref_cnt \in [Blocks -> Nat]
  BY <1>2, <1>3, Zenon DEF IInv, TablesTyped, PoolConsistent, PoolInv, PoolType, IsHit, AllocatedFrom
\* Either the table was empty and starts with the hit, or there is no hit.
<1>6. \/ hit = <<>> /\ old = T[r] /\ first = num_cached_block[r]
      \/ T[r] = <<>> /\ old = hit /\ first = Len(hit)
  <2>1. T[r] \in Seq(Blocks)
    BY <1>5
  <2> QED
    BY <1>3, <1>5, <2>1, ConcatEmptySeq, Zenon DEF IsHit, CachedPart
<1>7. first \in Nat /\ first <= Len(old) /\ old \in Seq(Blocks)
  BY HitFits, <1>3 DEF FitsTable
<1> HIDE DEF old, first
<1>8. /\ Len(old) \in Nat /\ DOMAIN old = 1..Len(old) /\ Len(table) \in Nat /\ DOMAIN table = 1..Len(table)
      /\ \A i \in DOMAIN old : i \in DOMAIN table /\ table[i] = old[i]
      /\ \A i \in DOMAIN table \ DOMAIN old : table[i] \in Elems(ret)
  <2>0. table = old \o ret
    BY <1>3
  <2>1. Len(old) \in Nat /\ DOMAIN old = 1..Len(old) /\ Len(table) \in Nat /\ DOMAIN table = 1..Len(table)
    BY <2>0, <1>5, <1>7, ConcatPositions
  <2>2. \A i \in DOMAIN old : i \in DOMAIN table /\ table[i] = old[i]
    BY <2>0, <1>5, <1>7, ConcatPositions
  <2>3. \A i \in DOMAIN table \ DOMAIN old : table[i] \in Elems(ret)
    BY <2>0, <1>5, <1>7, ConcatPositions, Zenon
  <2> QED
    BY <2>1, <2>2, <2>3
<1>9. \A s \in Requests : /\ T'[s] = IF s = r THEN table ELSE T[s]
                          /\ num_cached_block'[s] = IF s = r THEN c ELSE num_cached_block[s]
  BY <1>3, <1>4, <1>5
<1>10. /\ \A s \in Requests : \A b \in Elems(T[s]) : b \in Blocks /\ pool.ref_cnt[b] > 0
       /\ \A i \in DOMAIN popped : \A b \in Elems(popped[i]) : b \in Blocks /\ pool.ref_cnt[b] > 0
  BY HeldIsCounted DEF IInv
\* Only the blocks that are taken lose keys.
<1>11. ASSUME NEW b \in Blocks, b \notin Elems(ret) PROVE KeysOf(pool, b) \subseteq KeysOf(pool', b)
  <2>1. CASE b \notin Elems(table)
    BY <1>4, <1>11, <2>1
  <2>2. CASE b \in Elems(table)
    <3>1. PICK i \in DOMAIN table : b = table[i]
      BY <2>2 DEF Elems
    <3>2. i \in DOMAIN old /\ b = old[i]
      BY <1>8, <1>11, <3>1
    <3> QED
      BY <1>4, <3>2
  <2> QED
    BY <2>1, <2>2
<1>12. ASSUME NEW b \in Elems(pool'.free)
       PROVE  b \in Blocks /\ b \in Elems(pool.free) /\ KeysOf(pool', b) = KeysOf(pool, b)
  <2>1. b \in Blocks /\ pool'.ref_cnt[b] = 0
    BY <1>2, <1>12 DEF IInv, PoolConsistent, PoolInv, FreeQueueInv
  <2>2. pool.ref_cnt[b] = 0 /\ b \notin Elems(hit) /\ b \notin Elems(ret)
    <3>1. pool'.ref_cnt[b] = pool.ref_cnt[b] + (IF b \in Elems(hit) \cup Elems(ret) THEN 1 ELSE 0)
      BY <1>3, <1>4, <2>1 DEF CachedTo, AllocatedFrom
    <3> QED
      BY <1>5, <2>1, <3>1
  <2>3. b \notin Elems(table)
    <3> SUFFICES ASSUME NEW i \in DOMAIN table, b = table[i] PROVE FALSE
      BY DEF Elems
    <3>1. i \in DOMAIN old /\ b = old[i]
      BY <1>8, <2>2
    <3>2. b \in Elems(T[r])
      BY <1>6, <2>2, <3>1 DEF Elems
    <3> QED
      BY <1>10, <2>2, <3>2
  <2> QED
    BY <1>4, <2>1, <2>2, <2>3 DEF IInv, PoolConsistent, PoolInv, FreeQueueInv
\* What the table has not cached is in no owed release.
<1>13. ASSUME NEW i \in DOMAIN table, i > first PROVE PoppedHolders(table[i]) = {}
  <2>1. CASE i \notin DOMAIN old
    <3>1. table[i] \in Elems(ret)
      BY <1>8, <2>1
    <3>2. pool.ref_cnt[table[i]] = 0
      BY <1>3, <3>1 DEF AllocatedFrom
    <3> QED
      BY <1>10, <3>2 DEF PoppedHolders
  <2>2. CASE i \in DOMAIN old
    <3>1. table[i] = old[i] /\ i \in 1..Len(old)
      BY <1>8, <2>2
    <3>2. old = T[r] /\ first = num_cached_block[r]
      BY <1>6, <1>7, <1>13, <3>1
    <3> QED
      BY <1>13, <2>2, <3>1, <3>2, ZenonT(30) DEF OrderInv, UncachedNotOwed
  <2> QED
    BY <2>1, <2>2
<1>14. UncachedNotOwed'
  <2> SUFFICES ASSUME NEW s \in Requests, NEW i \in DOMAIN T'[s], i > num_cached_block'[s]
               PROVE  PoppedHolders(T'[s][i]) = {}
    BY <1>3 DEF UncachedNotOwed, PoppedHolders
  <2>2. CASE s = r
    <3>1. T'[s] = table /\ num_cached_block'[s] = c
      BY <1>9, <2>2
    <3>2. i \in DOMAIN table /\ i > first
      BY <1>4, <1>7, <1>8, <3>1
    <3> QED
      BY <1>13, <3>1, <3>2
  <2>3. CASE s # r
    BY <1>9, <2>3 DEF OrderInv, UncachedNotOwed
  <2> QED
    BY <2>2, <2>3
<1>15. ASSUME ~loads_failed PROVE Ordered'
  <2>0. CachedHaveKeys /\ OwedChained /\ TailFirst /\ KeylessFirst
    BY <1>15 DEF OrderInv, Ordered
  <2>1. CachedHaveKeys'
    <3> SUFFICES ASSUME NEW s \in Requests, NEW i \in 1..num_cached_block'[s]
                 PROVE  BlockHashes[s][i] \in KeysOf(pool', T'[s][i])
      BY DEF CachedHaveKeys
    <3>1. CASE s # r
      <4>1. T'[s] = T[s] /\ i \in 1..num_cached_block[s]
        BY <1>9, <3>1
      <4>2. i \in DOMAIN T[s]
        <5>1. T[s] \in Seq(Blocks) /\ num_cached_block[s] \in Nat /\ num_cached_block[s] <= Len(T[s])
          BY DEF IInv, TablesTyped
        <5> QED
          BY <4>1, <5>1, LenProperties
      <4>3. T[s][i] \in Blocks /\ pool.ref_cnt[T[s][i]] > 0
        BY <1>10, <4>2 DEF Elems
      <4>4. BlockHashes[s][i] \in KeysOf(pool, T[s][i])
        BY <2>0, <4>1 DEF CachedHaveKeys
      <4> QED
        BY <1>2, <4>1, <4>3, <4>4
    <3>2. CASE s = r /\ i > first
      <4>1. T'[s] = table /\ i \in 1..c
        BY <1>9, <3>2
      <4>2. i \in first + 1 .. c
        BY <1>7, <3>2, <4>1
      <4>3. KeysOf(pool', table[i]) = {BlockHashes[r][i]}
        BY <1>4, <4>2, Zenon DEF CachedTo
      <4> QED
        BY <3>2, <4>1, <4>3
    <3>3. CASE s = r /\ ~(i > first)
      <4>1. T'[s] = table /\ i \in 1..c
        BY <1>9, <3>3
      <4>2. i \in 1..first /\ i <= first /\ i \in DOMAIN old
        BY <1>7, <1>8, <3>3, <4>1
      <4>3. BlockHashes[r][i] \in KeysOf(pool, old[i])
        <5>1. CASE hit = <<>> /\ old = T[r] /\ first = num_cached_block[r]
          BY <2>0, <4>2, <5>1 DEF CachedHaveKeys
        <5>2. CASE T[r] = <<>> /\ old = hit /\ first = Len(hit)
          BY <1>3, <4>2, <5>2 DEF IsHit
        <5> QED
          BY <1>6, <5>1, <5>2
      <4> QED
        BY <1>4, <1>8, <3>3, <4>1, <4>2, <4>3
    <3> QED
      BY <3>1, <3>2, <3>3
  <2>2. OwedChained'
    <3>1. ASSUME NEW i \in DOMAIN popped, NEW b \in Elems(popped[i])
          PROVE  KeysOf(pool', b) = KeysOf(pool, b)
      <4>1. b \in Blocks
        BY <1>10
      <4>2. CASE b \notin Elems(table)
        BY <1>4, <4>1, <4>2
      <4>3. CASE b \in Elems(table)
        <5>1. PICK k \in DOMAIN table : b = table[k]
          BY <4>3 DEF Elems
        <5>2. PoppedHolders(b) # {}
          BY <3>1 DEF PoppedHolders
        <5>3. k <= first /\ k \in DOMAIN old
          BY <1>7, <1>8, <1>13, <5>1, <5>2
        <5> QED
          BY <1>4, <1>8, <5>1, <5>3
      <4> QED
        BY <4>2, <4>3
    <3> SUFFICES ASSUME NEW i \in DOMAIN popped PROVE Chained(pool', popped[i])
      BY <1>3 DEF OwedChained
    <3> DEFINE t == popped[i]
    <3>2. Chained(pool, t) /\ t \in Seq(Blocks)
      BY <2>0, LenProperties DEF OwedChained, IInv, TablesTyped
    <3>3. \A j \in DOMAIN t : KeysOf(pool', t[j]) = KeysOf(pool, t[j])
      BY <3>1 DEF Elems
    <3>4. \A j \in DOMAIN t : j > 1 => j - 1 \in DOMAIN t
      BY <3>2, LenProperties
    <3> HIDE DEF t
    <3>5. Chained(pool', t)
      BY <3>2, <3>3, <3>4 DEF Chained
    <3> QED
      BY <3>5 DEF t
  <2>3. TailFirst'
    <3> SUFFICES ASSUME NEW b \in Elems(pool'.free), NEW s \in Requests, NEW m \in 1 .. MaxBlocks - 1,
                        BlockHashes[s][m + 1] \in KeysOf(pool', b)
                 PROVE  \E d \in Blocks : /\ BlockHashes[s][m] \in KeysOf(pool', d)
                                          /\ pool'.ref_cnt[d] > 0 \/ Before(pool'.free, b, d)
      BY DEF TailFirst
    <3>1. b \in Elems(pool.free) /\ BlockHashes[s][m + 1] \in KeysOf(pool, b)
      BY <1>12
    <3>2. PICK d \in Blocks : /\ BlockHashes[s][m] \in KeysOf(pool, d)
                              /\ pool.ref_cnt[d] > 0 \/ Before(pool.free, b, d)
      BY <2>0, <3>1 DEF TailFirst
    <3>3. pool'.ref_cnt[d] = pool.ref_cnt[d] + (IF d \in Elems(hit) \cup Elems(ret) THEN 1 ELSE 0)
      BY <1>3, <1>4 DEF CachedTo, AllocatedFrom
    <3>4. \/ d \notin Elems(ret) /\ pool'.ref_cnt[d] > 0
          \/ d \notin Elems(ret) /\ Before(pool'.free, b, d)
      <4>1. CASE pool.ref_cnt[d] > 0
        <5>1. d \notin Elems(ret)
          BY <1>3, <4>1 DEF AllocatedFrom
        <5> QED
          BY <1>5, <3>3, <4>1, <5>1
      <4>2. CASE Before(pool.free, b, d)
        <5>1. d \in Elems(hit) \/ Before(pool'.free, b, d)
          BY <4>2, GrowQueue
        <5>2. CASE d \in Elems(hit)
          <6>1. d \notin Elems(ret)
            BY <1>3, <5>2 DEF AllocatedFrom
          <6> QED
            BY <1>5, <3>3, <5>2, <6>1
        <5>3. CASE Before(pool'.free, b, d)
          <6>1. d \in Elems(pool'.free)
            BY <5>3 DEF Before, Elems
          <6>2. pool'.ref_cnt[d] = 0
            BY <1>2, <6>1, ZenonT(30) DEF IInv, PoolConsistent, PoolInv, FreeQueueInv
          <6> QED
            BY <1>5, <3>3, <5>3, <6>2
        <5> QED
          BY <5>1, <5>2, <5>3
      <4> QED
        BY <3>2, <4>1, <4>2
    <3>5. BlockHashes[s][m] \in KeysOf(pool', d)
      BY <1>11, <3>2, <3>4
    <3> QED
      BY <3>4, <3>5
  <2>4. KeylessFirst'
    <3> SUFFICES ASSUME NEW b \in Blocks, NEW d \in Blocks, Before(pool'.free, b, d),
                        KeysOf(pool', d) = {}
                 PROVE  KeysOf(pool', b) = {}
      BY DEF KeylessFirst
    <3>1. b \in Elems(pool'.free) /\ d \in Elems(pool'.free)
      BY DEF Before, Elems
    <3>2. Before(pool.free, b, d)
      BY GrowQueue
    <3> QED
      BY <1>12, <2>0, <3>1, <3>2 DEF KeylessFirst
  <2> QED
    BY <2>1, <2>2, <2>3, <2>4 DEF Ordered
<1> QED
  BY <1>14, <1>15 DEF OrderInv

----------------------------------------------------------------------------
(* Tables shrink                                                           *)

\* A chain that is freed backwards joins the queue tail first.
LEMMA FreeChain ==
  ASSUME IInv, NEW list \in Seq(Blocks), NoDup(list),
         \A b \in Elems(list) : b \in Blocks /\ pool.ref_cnt[b] > 0,
         Chained(pool, list), TailFirst, KeylessFirst,
         pool' = free_blocks(pool, Reversed(list))
  PROVE  TailFirst' /\ KeylessFirst'
<1> DEFINE order == Reversed(list)
<1>1. order \in Seq(Blocks) /\ NoDup(order) /\ Elems(order) = Elems(list)
  BY ReversedProperties
<1>2. /\ PoolInv(pool) /\ pool.ref_cnt \in [Blocks -> Nat]
      /\ Elems(pool.free) = {b \in Blocks : pool.ref_cnt[b] = 0}
      /\ ~EnableCaching => \A b \in Blocks : KeysOf(pool, b) = {}
  BY DEF IInv, PoolConsistent, PoolInv, PoolType, FreeQueueInv, OneKey
<1>3. \A b, c \in Elems(list) : Before(list, c, b) => Before(order, b, c)
  BY ReversedBefore
<1>4. pool' = free_blocks(pool, order)
  OBVIOUS
<1> HIDE DEF order
<1>5. /\ PoolInv(pool')
      /\ \A b \in Blocks : /\ KeysOf(pool', b) = KeysOf(pool, b)
                           /\ pool'.ref_cnt[b] = pool.ref_cnt[b] - (IF b \in Elems(list) THEN 1 ELSE 0)
  BY <1>1, <1>2, <1>4, FreeBlocksInv
<1>6. ASSUME NEW b \in Blocks, NEW c \in Blocks
      PROVE  /\ Before(pool.free, b, c) => Before(pool'.free, b, c)
             /\ b \in Elems(pool.free) /\ c \in Elems(list) /\ pool.ref_cnt[c] = 1 /\ KeysOf(pool, c) # {}
                  => Before(pool'.free, b, c)
             /\ /\ Before(order, b, c) /\ KeysOf(pool, b) # {} /\ KeysOf(pool, c) # {}
                /\ b \in Elems(list) /\ pool.ref_cnt[b] = 1 /\ c \in Elems(list) /\ pool.ref_cnt[c] = 1
                => Before(pool'.free, b, c)
             /\ Before(pool'.free, b, c) /\ KeysOf(pool, c) = {}
                  => KeysOf(pool, b) = {} \/ Before(pool.free, b, c)
  BY <1>1, <1>2, <1>4, FreedOrder, ZenonT(30)
<1>7. KeylessFirst'
  BY <1>5, <1>6, Zenon DEF KeylessFirst
<1>8. TailFirst'
  <2> SUFFICES ASSUME NEW b \in Elems(pool'.free), NEW r \in Requests, NEW m \in 1 .. MaxBlocks - 1,
                      BlockHashes[r][m + 1] \in KeysOf(pool', b)
               PROVE  \E c \in Blocks : /\ BlockHashes[r][m] \in KeysOf(pool', c)
                                        /\ pool'.ref_cnt[c] > 0 \/ Before(pool'.free, b, c)
    BY DEF TailFirst
  <2>1. b \in Blocks /\ pool'.ref_cnt[b] = 0
    BY <1>5 DEF PoolInv, FreeQueueInv
  <2>2. BlockHashes[r][m + 1] \in KeysOf(pool, b) /\ KeysOf(pool, b) # {}
    BY <1>5, <2>1
  \* A block that is freed with its chain or before it.
  <2>3. \A c \in Blocks : \/ pool'.ref_cnt[c] > 0 \/ pool.ref_cnt[c] = 0
                          \/ c \in Elems(list) /\ pool.ref_cnt[c] = 1
    BY <1>2, <1>5
  <2>4. CASE b \in Elems(pool.free)
    <3>1. PICK c \in Blocks : /\ BlockHashes[r][m] \in KeysOf(pool, c)
                              /\ pool.ref_cnt[c] > 0 \/ Before(pool.free, b, c)
      BY <2>2, <2>4 DEF TailFirst
    <3>2. pool'.ref_cnt[c] > 0 \/ Before(pool'.free, b, c)
      <4>1. CASE Before(pool.free, b, c)
        BY <1>6, <2>1, <4>1
      <4>2. CASE pool.ref_cnt[c] > 0
        <5>1. pool.ref_cnt[c] # 0
          BY <1>2, <4>2
        <5> QED
          BY <1>6, <2>1, <2>3, <2>4, <3>1, <5>1
      <4> QED
        BY <3>1, <4>1, <4>2
    <3> QED
      BY <1>5, <3>1, <3>2
  <2>5. CASE b \notin Elems(pool.free)
    <3>1. b \in Elems(list) /\ pool.ref_cnt[b] = 1
      BY <1>2, <1>5, <2>1, <2>5
    <3>2. PICK j \in DOMAIN list : list[j] = b
      BY <3>1 DEF Elems
    <3>3. MaxBlocks \in Nat
      <4>1. 1 \in 1..MaxTokens
        BY ManagerAssumption
      <4> QED
        BY <4>1, BlocksNeeded
    <3>4. m \in Nat /\ m >= 1 /\ m + 1 \in 1..MaxBlocks
      BY <3>3
    <3>5. m + 1 = j /\ (j > 1 => BlockHashes[r][j - 1] \in KeysOf(pool, list[j - 1]))
      BY <2>2, <3>2, <3>4, Zenon DEF Chained
    <3>6. j > 1 /\ j - 1 = m /\ m \in DOMAIN list /\ m < j
      BY <3>2, <3>4, <3>5, LenProperties
    <3> DEFINE c == list[m]
    <3>7. c \in Elems(list) /\ c \in Blocks /\ BlockHashes[r][m] \in KeysOf(pool, c)
      BY <3>5, <3>6 DEF Elems
    <3>8. Before(order, b, c)
      <4>1. Before(list, c, b)
        BY <3>2, <3>6 DEF Before
      <4> QED
        BY <1>3, <3>1, <3>7, <4>1
    <3>9. pool.ref_cnt[c] > 0
      BY <3>7
    <3> HIDE DEF c
    <3>10. pool'.ref_cnt[c] > 0 \/ Before(pool'.free, b, c)
      <4>1. pool.ref_cnt[c] # 0
        BY <1>2, <3>7, <3>9
      <4> QED
        BY <1>6, <2>1, <2>2, <2>3, <3>1, <3>7, <3>8, <4>1, ZenonT(30)
    <3> QED
      BY <1>5, <3>7, <3>10
  <2> QED
    BY <2>4, <2>5
<1> QED
  BY <1>7, <1>8

\* What is said of tables and owed releases when keys stay and tables are forgotten.
LEMMA ForgetOrder ==
  ASSUME IInv, OrderInv, \A b \in Blocks : KeysOf(pool', b) = KeysOf(pool, b),
         \A r \in Requests : \/ /\ req_to_blocks'[r] = req_to_blocks[r]
                                /\ num_cached_block'[r] = num_cached_block[r]
                             \/ req_to_blocks'[r] = <<>> /\ num_cached_block'[r] = 0
  PROVE  /\ CachedHaveKeys => CachedHaveKeys'
         /\ \A i \in DOMAIN popped : Chained(pool, popped[i]) => Chained(pool', popped[i])
         /\ \A r \in Requests : Chained(pool, req_to_blocks[r]) => Chained(pool', req_to_blocks[r])
<1>1. ASSUME NEW t \in Seq(Blocks), Chained(pool, t) PROVE Chained(pool', t)
  <2>1. \A j \in DOMAIN t : KeysOf(pool', t[j]) = KeysOf(pool, t[j])
    BY LenProperties
  <2>2. \A j \in DOMAIN t : j > 1 => j - 1 \in DOMAIN t
    BY LenProperties
  <2> QED
    BY <1>1, <2>1, <2>2 DEF Chained
<1>2. ASSUME CachedHaveKeys PROVE CachedHaveKeys'
  <2> SUFFICES ASSUME NEW r \in Requests, NEW i \in 1..num_cached_block'[r]
               PROVE  BlockHashes[r][i] \in KeysOf(pool', req_to_blocks'[r][i])
    BY DEF CachedHaveKeys
  <2>1. num_cached_block'[r] # 0
    OBVIOUS
  <2>2. req_to_blocks'[r] = req_to_blocks[r] /\ i \in 1..num_cached_block[r]
    BY <2>1
  <2>3. BlockHashes[r][i] \in KeysOf(pool, req_to_blocks[r][i])
    BY <1>2, <2>2 DEF CachedHaveKeys
  <2>4. req_to_blocks[r][i] \in Blocks
    <3>1. /\ req_to_blocks[r] \in Seq(Blocks) /\ num_cached_block[r] \in Nat
          /\ num_cached_block[r] <= Len(req_to_blocks[r])
      BY DEF IInv, TablesTyped
    <3> QED
      BY <2>2, <3>1, LenProperties
  <2> QED
    BY <2>2, <2>3, <2>4
<1>3. \A i \in DOMAIN popped : popped[i] \in Seq(Blocks)
  BY LenProperties DEF IInv, TablesTyped
<1>4. \A r \in Requests : req_to_blocks[r] \in Seq(Blocks)
  BY DEF IInv, TablesTyped
<1> QED
  BY <1>1, <1>2, <1>3, <1>4

\* The tables after a request has given its blocks up.
LEMMA ForgottenTables ==
  ASSUME IInv, NEW r \in Requests, ForgetBlocks(r)
  PROVE  \A s \in Requests : /\ s = r => req_to_blocks'[s] = <<>> /\ num_cached_block'[s] = 0
                             /\ s # r => /\ req_to_blocks'[s] = req_to_blocks[s]
                                         /\ num_cached_block'[s] = num_cached_block[s]
  BY DEF IInv, TablesTyped, ForgetBlocks

\* free() returns the table of a request, last block first.
LEMMA FreeOrder ==
  ASSUME IInv, OrderInv, NEW r \in Requests, Free(r), loads_failed' = loads_failed
  PROVE  OrderInv'
<1>1. /\ pool' = free_blocks(pool, Reversed(req_to_blocks[r])) /\ ForgetBlocks(r) /\ popped' = popped
  BY DEF Free, free
<1>2. \A b \in Blocks : KeysOf(pool', b) = KeysOf(pool, b)
  BY FreeInv
<1>3. \A s \in Requests : /\ s = r => req_to_blocks'[s] = <<>> /\ num_cached_block'[s] = 0
                          /\ s # r => /\ req_to_blocks'[s] = req_to_blocks[s]
                                      /\ num_cached_block'[s] = num_cached_block[s]
  BY <1>1, ForgottenTables
<1>4. UncachedNotOwed'
  <2> SUFFICES ASSUME NEW s \in Requests, NEW i \in DOMAIN req_to_blocks'[s], i > num_cached_block'[s]
               PROVE  PoppedHolders(req_to_blocks'[s][i]) = {}
    BY <1>1 DEF UncachedNotOwed, PoppedHolders
  <2>1. s # r
    BY <1>3
  <2> QED
    BY <1>3, <2>1, Zenon DEF OrderInv, UncachedNotOwed
<1>5. ASSUME ~loads_failed PROVE Ordered'
  <2>1. CachedHaveKeys /\ OwedChained /\ TailFirst /\ KeylessFirst
    BY <1>5 DEF OrderInv, Ordered
  <2>2. /\ CachedHaveKeys'
        /\ \A i \in DOMAIN popped : Chained(pool', popped[i])
    BY <1>2, <1>3, <2>1, ForgetOrder DEF OwedChained
  <2>3. OwedChained'
    BY <1>1, <2>2 DEF OwedChained
  <2>4. TailFirst' /\ KeylessFirst'
    <3>1. req_to_blocks[r] \in Seq(Blocks) /\ NoDup(req_to_blocks[r])
      BY DEF IInv, TablesTyped
    <3>2. \A b \in Elems(req_to_blocks[r]) : b \in Blocks /\ pool.ref_cnt[b] > 0
      BY HeldIsCounted DEF IInv
    <3>3. Chained(pool, req_to_blocks[r])
      BY <2>1, TableChained
    <3> QED
      BY <1>1, <2>1, <3>1, <3>2, <3>3, FreeChain
  <2> QED
    BY <2>2, <2>3, <2>4 DEF Ordered
<1> QED
  BY <1>4, <1>5 DEF OrderInv

\* pop_blocks_for_free() keeps the blocks of a table for a later release.
LEMMA PopOrder ==
  ASSUME IInv, OrderInv, NEW r \in Requests, PopBlocksForFree(r), loads_failed' = loads_failed
  PROVE  OrderInv'
<1> DEFINE T == req_to_blocks
           n == Len(popped)
<1>1. /\ pool' = pool /\ ForgetBlocks(r) /\ popped' = Append(popped, T[r])
      /\ popped \in Seq(Seq(Blocks)) /\ T[r] \in Seq(Blocks)
  BY DEF PopBlocksForFree, pop_blocks_for_free, IInv, TablesTyped
<1>2. \A s \in Requests : /\ s = r => T'[s] = <<>> /\ num_cached_block'[s] = 0
                          /\ s # r => T'[s] = T[s] /\ num_cached_block'[s] = num_cached_block[s]
  BY <1>1, ForgottenTables
<1>3. \A i \in DOMAIN popped' : \/ i \in DOMAIN popped /\ popped'[i] = popped[i]
                                \/ popped'[i] = T[r]
  <2>1. /\ Append(popped, T[r]) \in Seq(Seq(Blocks))
        /\ Len(Append(popped, T[r])) = n + 1
        /\ \A i \in 1..n : Append(popped, T[r])[i] = popped[i]
        /\ Append(popped, T[r])[n + 1] = T[r]
    BY <1>1, AppendProperties
  <2>2. n \in Nat /\ DOMAIN popped = 1..n /\ DOMAIN popped' = 1 .. n + 1
    BY <1>1, <2>1, LenProperties
  <2>3. \A i \in 1 .. n + 1 : i \in 1..n \/ i = n + 1
    BY <2>2
  <2> QED
    BY <1>1, <2>1, <2>2, <2>3
<1>4. UncachedNotOwed'
  <2> SUFFICES ASSUME NEW s \in Requests, NEW i \in DOMAIN T'[s], i > num_cached_block'[s],
                      NEW k \in DOMAIN popped', T'[s][i] \in Elems(popped'[k])
               PROVE  FALSE
    BY DEF UncachedNotOwed, PoppedHolders
  <2>1. s # r
    BY <1>2
  <2>2. T'[s] = T[s] /\ num_cached_block'[s] = num_cached_block[s] /\ i \in DOMAIN T[s]
    BY <1>2, <2>1
  <2>3. CASE k \in DOMAIN popped /\ popped'[k] = popped[k]
    BY <2>2, <2>3 DEF OrderInv, UncachedNotOwed, PoppedHolders
  <2>4. CASE popped'[k] = T[r]
    <3>1. PICK j \in DOMAIN T[r] : T[s][i] = T[r][j]
      BY <2>2, <2>4 DEF Elems
    <3> QED
      BY <2>1, <2>2, <3>1 DEF IInv, UncachedUnshared
  <2> QED
    BY <1>3, <2>3, <2>4
<1>5. ASSUME ~loads_failed PROVE Ordered'
  <2>1. CachedHaveKeys /\ OwedChained /\ TailFirst /\ KeylessFirst
    BY <1>5 DEF OrderInv, Ordered
  <2>2. TailFirst' /\ KeylessFirst'
    BY <1>1, <2>1 DEF TailFirst, KeylessFirst
  <2>3. CachedHaveKeys'
    BY <1>1, <1>2, <2>1, ForgetOrder, ZenonT(30)
  <2>4. Chained(pool, T[r])
    BY <2>1, TableChained
  <2>5. OwedChained'
    BY <1>1, <1>3, <2>1, <2>4 DEF OwedChained
  <2> QED
    BY <2>2, <2>3, <2>5 DEF Ordered
<1> QED
  BY <1>4, <1>5 DEF OrderInv

\* The oldest owed release is returned, last block first.
LEMMA FreePoppedOrder ==
  ASSUME IInv, OrderInv, FreePopped, loads_failed' = loads_failed
  PROVE  OrderInv'
<1> DEFINE list == Head(popped)
           n    == Len(popped)
<1>1. /\ popped # <<>> /\ pool' = free_blocks(pool, Reversed(list)) /\ popped' = Tail(popped)
      /\ req_to_blocks' = req_to_blocks /\ num_cached_block' = num_cached_block
      /\ popped \in Seq(Seq(Blocks))
  BY DEF FreePopped, IInv, TablesTyped
<1>2. \A b \in Blocks : KeysOf(pool', b) = KeysOf(pool, b)
  BY FreePoppedInv
<1>3. /\ 1 \in DOMAIN popped /\ list = popped[1]
      /\ \A i \in DOMAIN popped' : i + 1 \in DOMAIN popped /\ popped'[i] = popped[i + 1]
  <2>1. n \in Nat /\ DOMAIN popped = 1..n /\ n # 0
    BY <1>1, LenProperties, EmptySeq
  <2>2. /\ Tail(popped) \in Seq(Seq(Blocks)) /\ Len(Tail(popped)) = n - 1
        /\ \A i \in 1 .. Len(Tail(popped)) : Tail(popped)[i] = popped[i + 1]
        /\ list = popped[1]
    BY <1>1, HeadTailProperties
  <2>3. DOMAIN Tail(popped) = 1 .. n - 1
    BY <2>2, LenProperties
  <2>4. 1 \in 1..n /\ \A i \in 1 .. n - 1 : i + 1 \in 1..n
    BY <2>1
  <2> QED
    BY <1>1, <2>1, <2>2, <2>3, <2>4
<1> HIDE DEF list
<1>4. UncachedNotOwed'
  <2> SUFFICES ASSUME NEW s \in Requests, NEW i \in DOMAIN req_to_blocks[s], i > num_cached_block[s],
                      NEW k \in DOMAIN popped', req_to_blocks[s][i] \in Elems(popped'[k])
               PROVE  FALSE
    BY <1>1 DEF UncachedNotOwed, PoppedHolders
  <2> QED
    BY <1>3 DEF OrderInv, UncachedNotOwed, PoppedHolders
<1>5. ASSUME ~loads_failed PROVE Ordered'
  <2>1. CachedHaveKeys /\ OwedChained /\ TailFirst /\ KeylessFirst
    BY <1>5 DEF OrderInv, Ordered
  <2>2. /\ CachedHaveKeys'
        /\ \A i \in DOMAIN popped : Chained(pool', popped[i])
    BY <1>1, <1>2, <2>1, ForgetOrder DEF OwedChained
  <2>3. OwedChained'
    BY <1>3, <2>2 DEF OwedChained
  <2>4. TailFirst' /\ KeylessFirst'
    <3>1. list \in Seq(Blocks)
      BY <1>1, <1>3, LenProperties
    <3>2. NoDup(list) /\ Chained(pool, list)
      BY <1>3, <2>1 DEF IInv, TablesTyped, OwedChained
    <3>3. \A b \in Elems(list) : b \in Blocks /\ pool.ref_cnt[b] > 0
      BY <1>3, HeldIsCounted DEF IInv
    <3> QED
      BY <1>1, <2>1, <3>1, <3>2, <3>3, FreeChain
  <2> QED
    BY <2>2, <2>3, <2>4 DEF Ordered
<1> QED
  BY <1>4, <1>5 DEF OrderInv

\* A reset empties the cache at a moment when nothing is held.
LEMMA ResetOrder ==
  ASSUME IInv, OrderInv, ResetPrefixCache
  PROVE  OrderInv'
<1>1. /\ PoolInv(pool) /\ CanResetPrefixCache(pool) /\ pool' = reset_prefix_cache(pool)
      /\ req_to_blocks' = req_to_blocks /\ num_cached_block' = num_cached_block /\ popped' = popped
  BY DEF IInv, PoolConsistent, ResetPrefixCache
<1>2. UncachedNotOwed'
  BY <1>1 DEF OrderInv, UncachedNotOwed, PoppedHolders
<1>3. \A b \in Blocks : KeysOf(pool', b) = {}
  <2> DEFINE c == [k \in Keys |-> <<>>]
             h == [b \in Blocks |-> NoHash]
             m == [b \in Blocks |-> {}]
  <2>1. pool' = [pool EXCEPT !.cached = c, !.block_hash = h, !.more = m] /\ pool \in PoolType
    BY <1>1 DEF reset_prefix_cache, PoolInv
  <2>2. pool'.block_hash = h /\ pool'.more = m
    <3> HIDE DEF c, h, m
    <3> QED
      BY <2>1 DEF PoolType
  <2> QED
    BY <2>2 DEF KeysOf
<1>4. \A r \in Requests : num_cached_block[r] = 0
  <2> SUFFICES ASSUME NEW r \in Requests, num_cached_block[r] # 0 PROVE FALSE
    OBVIOUS
  <2>1. /\ req_to_blocks[r] \in Seq(Blocks) /\ num_cached_block[r] \in Nat
        /\ num_cached_block[r] <= Len(req_to_blocks[r])
    BY DEF IInv, TablesTyped
  <2>2. 1 \in DOMAIN req_to_blocks[r]
    BY <2>1, LenProperties
  <2>3. req_to_blocks[r][1] \in Elems(req_to_blocks[r])
    BY <2>2 DEF Elems
  <2>4. req_to_blocks[r][1] \in Blocks /\ pool.ref_cnt[req_to_blocks[r][1]] > 0
    BY <2>3, HeldIsCounted DEF IInv
  <2>5. pool.ref_cnt[req_to_blocks[r][1]] = 0
    BY <1>1, <2>4, ResetHoldsNothing
  <2> QED
    BY <2>4, <2>5
<1>5. CachedHaveKeys'
  BY <1>1, <1>4 DEF CachedHaveKeys
<1>6. OwedChained'
  <2> SUFFICES ASSUME NEW i \in DOMAIN popped PROVE Chained(pool', popped[i])
    BY <1>1 DEF OwedChained
  <2>1. popped[i] \in Seq(Blocks)
    BY LenProperties DEF IInv, TablesTyped
  <2>2. \A j \in DOMAIN popped[i] : KeysOf(pool', popped[i][j]) = {}
    BY <1>3, <2>1, LenProperties
  <2> QED
    BY <2>2 DEF Chained
<1>7. PoolInv(pool')
  BY <1>1, ResetInv
<1>8. TailFirst' /\ KeylessFirst'
  <2>1. Elems(pool'.free) \subseteq Blocks
    BY <1>7 DEF PoolInv, FreeQueueInv
  <2> QED
    BY <1>3, <2>1 DEF TailFirst, KeylessFirst
<1> QED
  BY <1>2, <1>5, <1>6, <1>8 DEF OrderInv, Ordered

----------------------------------------------------------------------------
(* Theorems                                                                *)

\* A new pool has no keys and no tables.
LEMMA InitOrder == Init => OrderInv
<1> SUFFICES ASSUME Init PROVE OrderInv
  OBVIOUS
<1>1. /\ pool = InitialPool /\ popped = <<>> /\ IInv
      /\ req_to_blocks = [r \in Requests |-> <<>>] /\ num_cached_block = [r \in Requests |-> 0]
  BY InitIInv DEF Init, InitManager
<1>2. \A b \in Blocks : KeysOf(pool, b) = {}
  BY <1>1 DEF InitialPool, KeysOf
<1>3. Elems(pool.free) \subseteq Blocks
  BY <1>1 DEF IInv, PoolConsistent, PoolInv, FreeQueueInv
<1>4. UncachedNotOwed /\ CachedHaveKeys /\ OwedChained
  BY <1>1 DEF UncachedNotOwed, CachedHaveKeys, OwedChained
<1>5. TailFirst /\ KeylessFirst
  BY <1>2, <1>3 DEF TailFirst, KeylessFirst
<1> QED
  BY <1>4, <1>5 DEF OrderInv, Ordered

\* Every call of the manager keeps the order, and a failed load ends the claim.
LEMMA NextOrder ==
  ASSUME IInv, OrderInv, [Next]_clientVars
  PROVE  OrderInv'
<1>1. ASSUME NEW r \in Requests, AllocateSlots(r) \/ CacheBlocks(r), loads_failed' = loads_failed
      PROVE  OrderInv'
  <2>1. \E hit, ret, q, table, num_tokens : Growth(r, hit, ret, q, table, num_tokens)
    BY <1>1, AllocateSlotsGrows, CacheBlocksGrows
  <2> QED
    BY <1>1, <2>1, GrowOrder
<1>2. ASSUME NEW r \in Requests, Free(r) \/ PopBlocksForFree(r), loads_failed' = loads_failed
      PROVE  OrderInv'
  BY <1>2, FreeOrder, PopOrder
<1>3. ASSUME FreePopped, loads_failed' = loads_failed PROVE OrderInv'
  BY <1>3, FreePoppedOrder
<1>4. CASE ResetPrefixCache
  BY <1>4, ResetOrder
<1>5. CASE EvictBlocks
  <2>1. /\ req_to_blocks' = req_to_blocks /\ num_cached_block' = num_cached_block
        /\ popped' = popped /\ loads_failed' = TRUE
    BY <1>5, Zenon DEF EvictBlocks, EvictTails
  <2> QED
    BY <2>1 DEF OrderInv, UncachedNotOwed, PoppedHolders
<1>6. CASE UNCHANGED clientVars
  <2>1. /\ pool' = pool /\ req_to_blocks' = req_to_blocks /\ num_cached_block' = num_cached_block
        /\ popped' = popped /\ loads_failed' = loads_failed
    BY <1>6 DEF clientVars, kvVars
  <2> QED
    BY <2>1 DEF OrderInv, Ordered, UncachedNotOwed, PoppedHolders, CachedHaveKeys, OwedChained,
                TailFirst, KeylessFirst
<1> QED
  BY <1>1, <1>2, <1>3, <1>4, <1>5, <1>6 DEF Next, NextLoadsSucceed, RequestStep

\* While loads succeed, a cached block implies that every shorter prefix of the
\* same request is cached: the assumption on which find_longest_cache_hit stops
\* at the first miss. It rests on the order in which free, the deferred frees and
\* free_blocks put the blocks of a table into the queue.
THEOREM CacheIsPrefixClosed == Spec => []PrefixClosed
<1>1. IInv /\ OrderInv => PrefixClosed
  BY OrderIsPrefixClosed
<1> QED
  BY <1>1, InitIInv, NextIInv, InitOrder, NextOrder, PTL DEF Spec

\* While loads succeed, get_new_blocks hands out the free blocks that no lookup
\* can find before it evicts a cached one.
THEOREM KeylessHandedOutFirst == Spec => []UncachedFirst
<1>1. IInv /\ OrderInv => UncachedFirst
  BY OrderIsPrefixClosed
<1> QED
  BY <1>1, InitIInv, NextIInv, InitOrder, NextOrder, PTL DEF Spec
=============================================================================
