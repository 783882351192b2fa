------------------------ MODULE KVCacheClientProofs -------------------------
(***************************************************************************)
(* Under any legal sequence of calls KVCacheManager keeps its tables, the  *)
(* pool's counts and the prefix cache in agreement, for every number of    *)
(* requests, blocks, hashes and tokens and every block size.               *)
(***************************************************************************)
EXTENDS TableGrowth

----------------------------------------------------------------------------
(* Tables grow                                                             *)

\* A call that can use the cache: a hit is looked up for an empty table, and the
\* blocks of the hit are touched before new ones are taken.
LEMMA AllocateSlotsGrows ==
  ASSUME IInv, NEW r \in Requests, AllocateSlots(r)
  PROVE  \E hit, ret, q, table, num_tokens : Growth(r, hit, ret, q, table, num_tokens)
<1>1. PICK num_tokens \in 1..MaxTokens, num_cache \in 1..MaxTokens, delay_cache_blocks \in BOOLEAN :
        LET hit == IF req_to_blocks[r] = <<>> THEN get_computed_blocks(r, num_tokens) ELSE <<>>
        IN /\ num_cache <= num_tokens
           /\ CanAllocate(r, hit, num_tokens, 0)
           /\ allocate_slots(r, hit, num_tokens, num_cache, delay_cache_blocks)
           /\ UNCHANGED popped
  BY DEF AllocateSlots
<1> DEFINE hit   == IF req_to_blocks[r] = <<>> THEN get_computed_blocks(r, num_tokens) ELSE <<>>
           n     == NumNewBlocks(r, hit, num_tokens)
           t     == touch(pool, hit)
           ret   == NewBlocks(t, n)
           q     == get_new_blocks(t, n)
           table == req_to_blocks[r] \o hit \o ret
           cache == IF EnableCaching /\ ~delay_cache_blocks THEN num_cache ELSE 0
           need  == cdiv(num_tokens, BlockSize)
<1>2. /\ num_cache <= num_tokens /\ CanAllocate(r, hit, num_tokens, 0)
      /\ req_to_blocks' = [req_to_blocks EXCEPT ![r] = table]
      /\ CacheUpTo(r, q, table, CachedPart(r, hit), cache)
      /\ popped' = popped
  BY <1>1 DEF allocate_slots, AllocateFrom, CachedPart
<1>3. /\ PoolInv(pool) /\ req_to_blocks[r] \in Seq(Blocks)
      /\ Len(req_to_blocks[r]) \in Nat /\ Len(req_to_blocks[r]) <= MaxBlocks
      /\ BlockSize \in Nat \ {0} /\ MaxTokens \in Nat /\ num_tokens \in Nat
  BY ManagerAssumption, LenProperties DEF IInv, PoolConsistent, TablesTyped
<1>4. IsHit(r, hit) /\ Len(hit) \in Nat /\ Len(req_to_blocks[r]) + Len(hit) <= MaxBlocks
  <2>1. CASE req_to_blocks[r] = <<>>
    <3> DEFINE h == get_computed_blocks(r, num_tokens)
    <3>1. \A b \in Blocks : \A k, l \in KeysOf(pool, b) : k = l
      BY DEF IInv, OneKey
    <3>2. /\ h \in Seq(Blocks) /\ NoDup(h)
          /\ Len(h) \in Nat /\ Len(h) <= MaxBlocks /\ DOMAIN h = 1..Len(h)
          /\ \A i \in 1..Len(h) : KeysOf(pool, h[i]) = {BlockHashes[r][i]}
      BY <1>3, <3>1, HitProperties, Zenon
    <3>3. hit = h /\ Len(req_to_blocks[r]) = 0
      BY <2>1
    <3> HIDE DEF h, hit
    <3>4. MaxBlocks \in Nat
      BY BlocksNeeded
    <3> QED
      BY <2>1, <3>2, <3>3, <3>4 DEF IsHit
  <2>2. CASE req_to_blocks[r] # <<>>
    <3>1. hit = <<>>
      BY <2>2
    <3> HIDE DEF hit
    <3>2. hit \in Seq(Blocks) /\ Len(hit) = 0 /\ DOMAIN hit = {}
      BY <3>1
    <3>3. IsHit(r, hit)
      BY <3>1, <3>2 DEF IsHit, NoDup
    <3>4. MaxBlocks \in Nat
      BY BlocksNeeded
    <3> QED
      BY <1>3, <3>2, <3>3, <3>4
  <2> QED
    BY <2>1, <2>2, Zenon
<1> HIDE DEF hit
<1>5. /\ need \in Nat /\ need <= MaxBlocks /\ MaxBlocks \in Nat
      /\ n \in Nat
      /\ Len(req_to_blocks[r]) + Len(hit) + n <= MaxBlocks
      /\ need <= Len(req_to_blocks[r]) + Len(hit) + n
  <2>1. need \in Nat /\ need <= MaxBlocks /\ MaxBlocks \in Nat
    BY BlocksNeeded
  <2>2. n = LET missing == need - Len(req_to_blocks[r]) - Len(hit)
            IN IF missing > 0 THEN missing ELSE 0
    BY DEF NumNewBlocks
  <2> DEFINE l == Len(req_to_blocks[r])
             h == Len(hit)
  <2>3. l \in Nat /\ h \in Nat /\ l + h <= MaxBlocks /\ n = IF need - l - h > 0 THEN need - l - h ELSE 0
    BY <1>3, <1>4, <2>2
  <2> HIDE DEF need, n, l, h
  <2>4. n \in Nat /\ l + h + n <= MaxBlocks /\ need <= l + h + n
    BY <2>1, <2>3
  <2> QED
    BY <2>1, <2>4 DEF l, h
<1> HIDE DEF n
<1>6. n + NumEvictable(hit) <= get_num_free_blocks(pool)
  <2>1. n + NumEvictable(hit) + 0 <= get_num_free_blocks(pool)
    BY <1>2 DEF CanAllocate, get_num_blocks_to_allocate, n
  <2>2. NumEvictable(hit) \in Nat
    <3>1. hit \in Seq(Blocks)
      BY <1>4 DEF IsHit
    <3>2. IsFiniteSet(DOMAIN hit)
      BY <3>1, LenProperties, FS_Interval
    <3>3. {i \in DOMAIN hit : pool.ref_cnt[hit[i]] = 0} \in SUBSET DOMAIN hit
      OBVIOUS
    <3>4. IsFiniteSet({i \in DOMAIN hit : pool.ref_cnt[hit[i]] = 0})
      BY <3>2, <3>3, FS_Subset
    <3> QED
      BY <3>4, FS_CardinalityType DEF NumEvictable
  <2> QED
    BY <1>5, <2>1, <2>2
<1>7. AllocatedFrom(q, hit, ret) /\ Len(ret) = n
  <2>1. hit \in Seq(Blocks) /\ NoDup(hit)
    BY <1>4 DEF IsHit
  <2> QED
    BY <1>3, <1>5, <1>6, <2>1, AllocatedPool, ZenonT(30) DEF AllocatedFrom
<1> HIDE DEF t, ret, q
<1>8. Len(table) = Len(req_to_blocks[r]) + Len(hit) + n
  <2>1. hit \in Seq(Blocks) /\ ret \in Seq(Blocks)
    BY <1>4, <1>7 DEF IsHit, AllocatedFrom
  <2> DEFINE old == req_to_blocks[r] \o hit
  <2>2. old \in Seq(Blocks) /\ Len(old) = Len(req_to_blocks[r]) + Len(hit)
    BY <1>3, <2>1, ConcatProperties
  <2> HIDE DEF old
  <2>3. Len(old \o ret) = Len(old) + Len(ret)
    BY <2>1, <2>2, ConcatProperties, Zenon
  <2> QED
    BY <1>7, <2>2, <2>3 DEF old
<1>9. cache \in Nat /\ cache \div BlockSize <= Len(table) /\ (~EnableCaching => cache = 0)
  <2>1. cache \in 0..num_tokens /\ (~EnableCaching => cache = 0)
    BY <1>2, <1>3
  <2> HIDE DEF cache
  <2>2. cache \div BlockSize \in Nat /\ cache \div BlockSize <= need
    BY <1>3, <2>1, FullBlocksFit, Zenon
  <2> HIDE DEF need, table
  <2> QED
    BY <1>3, <1>4, <1>5, <1>8, <2>1, <2>2
<1>10. Len(table) <= MaxBlocks
  BY <1>5, <1>8
<1>11. \E m \in Nat : /\ m + NumEvictable(hit) <= get_num_free_blocks(pool)
                       /\ q = get_new_blocks(touch(pool, hit), m)
  BY <1>5, <1>6, Zenon DEF q, t
<1>12. table = req_to_blocks[r] \o hit \o ret
  OBVIOUS
<1> HIDE DEF cache, table
<1>13. Growth(r, hit, ret, q, table, cache)
  BY <1>2, <1>4, <1>7, <1>9, <1>10, <1>11, <1>12, Zenon DEF Growth
<1> QED
  BY <1>13, Zenon
\* cache_blocks is a growth by nothing.
LEMMA CacheBlocksGrows ==
  ASSUME IInv, NEW r \in Requests, CacheBlocks(r)
  PROVE  \E hit, ret, q, table, num_tokens : Growth(r, hit, ret, q, table, num_tokens)
<1>1. PICK num_tokens \in 1..MaxTokens :
        /\ num_tokens <= BlockSize * Len(req_to_blocks[r])
        /\ cache_blocks(r, num_tokens) /\ UNCHANGED popped
  BY DEF CacheBlocks
<1> DEFINE none  == <<>>
           table == req_to_blocks[r] \o none \o none
           cache == IF EnableCaching THEN num_tokens ELSE 0
<1>2. /\ PoolInv(pool) /\ pool.ref_cnt \in [Blocks -> Nat]
      /\ req_to_blocks \in [Requests -> Seq(Blocks)] /\ req_to_blocks[r] \in Seq(Blocks)
      /\ Len(req_to_blocks[r]) \in Nat /\ Len(req_to_blocks[r]) <= MaxBlocks
      /\ BlockSize \in Nat \ {0} /\ MaxTokens \in Nat /\ num_tokens \in Nat
  BY ManagerAssumption, LenProperties DEF IInv, PoolConsistent, PoolInv, PoolType, TablesTyped
<1>3. table = req_to_blocks[r]
  BY <1>2, ConcatEmptySeq
<1>4. none \in Seq(Blocks) /\ NoDup(none) /\ Elems(none) = {} /\ DOMAIN none = {}
  BY DEF NoDup, Elems
<1>5. CacheUpTo(r, pool, table, CachedPart(r, none), cache)
  BY <1>1, <1>3 DEF cache_blocks, CachedPart
<1>6. req_to_blocks' = [req_to_blocks EXCEPT ![r] = table] /\ popped' = popped
  BY <1>1, <1>2, <1>3 DEF cache_blocks
<1> HIDE DEF none
<1>7. IsHit(r, none) /\ AllocatedFrom(pool, none, none)
  <2>1. IsHit(r, none)
    BY <1>4 DEF IsHit, none
  <2>2. \A b \in Blocks : pool.ref_cnt[b] = pool.ref_cnt[b]
                             + (IF b \in Elems(none) \cup Elems(none) THEN 1 ELSE 0)
    BY <1>2, <1>4
  <2> QED
    BY <1>2, <1>4, <2>1, <2>2 DEF AllocatedFrom
<1>8. cache \in Nat /\ cache \div BlockSize <= Len(table) /\ (~EnableCaching => cache = 0)
  <2>1. cache \in Nat /\ cache <= num_tokens /\ (~EnableCaching => cache = 0)
    BY <1>2
  <2> DEFINE len == Len(req_to_blocks[r])
  <2>2. len \in Nat /\ num_tokens <= BlockSize * len
    BY <1>1, <1>2
  <2> HIDE DEF cache, len
  <2>3. cache <= BlockSize * len
    <3>1. BlockSize * len \in Int
      BY <1>2, <2>2
    <3> QED
      BY <1>2, <2>1, <2>2, <3>1
  <2>4. cache \div BlockSize <= len
    BY <1>2, <2>1, <2>2, <2>3, FullBlocksOfTable, Zenon
  <2> QED
    BY <1>3, <2>1, <2>4 DEF len
<1>9. Len(table) <= MaxBlocks
  BY <1>2, <1>3
<1>10. none = <<>> /\ table = req_to_blocks[r] \o none \o none
  BY DEF none
<1> HIDE DEF cache, table
<1>11. Growth(r, none, none, pool, table, cache)
  BY <1>5, <1>6, <1>7, <1>8, <1>9, <1>10, Zenon DEF Growth
<1> QED
  BY <1>11, Zenon

----------------------------------------------------------------------------
(* Tables and keys shrink                                                  *)

\* Forgetting tables and taking keys away keeps what is said of the keys.
LEMMA ShrinkInv ==
  ASSUME IInv, \A b \in Blocks : KeysOf(pool', b) \subseteq KeysOf(pool, b),
         \A r \in Requests : \/ /\ req_to_blocks'[r] = req_to_blocks[r]
                                /\ num_cached_block'[r] = num_cached_block[r]
                             \/ req_to_blocks'[r] = <<>>
  PROVE  OneKey' /\ TableMatchesHashes' /\ UncachedUnshared'
<1>1. OneKey'
  BY DEF IInv, OneKey
<1>2. \A r \in Requests : \A i \in DOMAIN req_to_blocks'[r] :
        /\ req_to_blocks'[r] = req_to_blocks[r] /\ i \in DOMAIN req_to_blocks[r]
        /\ num_cached_block'[r] = num_cached_block[r]
        /\ req_to_blocks[r][i] \in Blocks
  <2> SUFFICES ASSUME NEW r \in Requests, NEW i \in DOMAIN req_to_blocks'[r]
               PROVE  /\ req_to_blocks'[r] = req_to_blocks[r] /\ i \in DOMAIN req_to_blocks[r]
                      /\ num_cached_block'[r] = num_cached_block[r]
                      /\ req_to_blocks[r][i] \in Blocks
    OBVIOUS
  <2>1. req_to_blocks'[r] # <<>>
    OBVIOUS
  <2>2. req_to_blocks[r] \in Seq(Blocks)
    BY DEF IInv, TablesTyped
  <2> QED
    BY <2>1, <2>2, LenProperties
<1>3. TableMatchesHashes'
  BY <1>2 DEF IInv, TableMatchesHashes
<1>4. UncachedUnshared'
  BY <1>2 DEF IInv, UncachedUnshared
<1> QED
  BY <1>1, <1>3, <1>4

\* The request that gives its blocks up is no longer among the holders.
LEMMA ForgetHolders ==
  ASSUME TablesTyped, NEW r \in Requests, ForgetBlocks(r), NEW b
  PROVE  /\ TableHolders(b)' = TableHolders(b) \ {r}
         /\ Cardinality(TableHolders(b)') =
              Cardinality(TableHolders(b)) - (IF b \in Elems(req_to_blocks[r]) THEN 1 ELSE 0)
<1>1. \A s \in Requests : req_to_blocks'[s] = IF s = r THEN <<>> ELSE req_to_blocks[s]
  BY DEF ForgetBlocks, TablesTyped
<1>2. TableHolders(b)' = TableHolders(b) \ {r}
  BY <1>1 DEF TableHolders, Elems
<1>3. r \in TableHolders(b) <=> b \in Elems(req_to_blocks[r])
  BY DEF TableHolders
<1>4. IsFiniteSet(TableHolders(b)) /\ Cardinality(TableHolders(b)) \in Nat
  BY HoldersFinite
<1> DEFINE H == TableHolders(b)
<1>5. Cardinality(H \ {r}) = IF r \in H THEN Cardinality(H) - 1 ELSE Cardinality(H)
  <2>1. IsFiniteSet(H)
    BY <1>4
  <2> HIDE DEF H
  <2> QED
    BY <2>1, FS_RemoveElement
<1> QED
  BY <1>2, <1>3, <1>4, <1>5

\* What Free and PopBlocksForFree keep of the types.
LEMMA ForgetTyped ==
  ASSUME TablesTyped, NEW r \in Requests, ForgetBlocks(r),
         popped' \in Seq(Seq(Blocks)), \A i \in DOMAIN popped' : NoDup(popped'[i])
  PROVE  TablesTyped'
<1>1. MaxBlocks \in Nat
  <2>1. 1 \in 1..MaxTokens
    BY ManagerAssumption
  <2> QED
    BY <2>1, BlocksNeeded
<1>2. <<>> \in Seq(Blocks) /\ NoDup(<<>>) /\ Len(<<>>) = 0
  BY DEF NoDup
<1>3. /\ req_to_blocks' \in [Requests -> Seq(Blocks)]
      /\ num_cached_block' \in [Requests -> Nat]
  BY <1>2 DEF TablesTyped, ForgetBlocks
<1>4. \A s \in Requests : /\ NoDup(req_to_blocks'[s])
                          /\ num_cached_block'[s] <= Len(req_to_blocks'[s])
                          /\ Len(req_to_blocks'[s]) <= MaxBlocks
  <2> SUFFICES ASSUME NEW s \in Requests
               PROVE  /\ NoDup(req_to_blocks'[s])
                      /\ num_cached_block'[s] <= Len(req_to_blocks'[s])
                      /\ Len(req_to_blocks'[s]) <= MaxBlocks
    OBVIOUS
  <2>1. CASE s = r
    <3>1. req_to_blocks'[s] = <<>> /\ num_cached_block'[s] = 0
      BY <2>1 DEF TablesTyped, ForgetBlocks
    <3> QED
      BY <1>1, <1>2, <3>1
  <2>2. CASE s # r
    BY <2>2 DEF TablesTyped, ForgetBlocks
  <2> QED
    BY <2>1, <2>2
<1> QED
  BY <1>3, <1>4 DEF TablesTyped

\* Free gives every block of the table up once.
LEMMA FreeInv ==
  ASSUME IInv, NEW r \in Requests, Free(r)
  PROVE  /\ IInv'
         /\ \A b \in Blocks : KeysOf(pool', b) = KeysOf(pool, b)
<1> DEFINE table == req_to_blocks[r]
           order == Reversed(table)
<1>1. pool' = free_blocks(pool, order) /\ ForgetBlocks(r) /\ popped' = popped
  BY DEF Free, free
<1>2. /\ PoolInv(pool) /\ pool.ref_cnt \in [Blocks -> Nat] /\ TablesTyped
      /\ table \in Seq(Blocks) /\ NoDup(table)
  BY DEF IInv, PoolConsistent, PoolInv, PoolType, TablesTyped
<1>3. order \in Seq(Blocks) /\ NoDup(order) /\ Elems(order) = Elems(table)
  BY <1>2, ReversedProperties
<1>4. \A b \in Elems(order) : pool.ref_cnt[b] > 0
  BY <1>3, HeldIsCounted DEF IInv
<1> HIDE DEF order
<1>5. /\ PoolInv(pool')
      /\ \A b \in Blocks : /\ KeysOf(pool', b) = KeysOf(pool, b)
                           /\ pool'.ref_cnt[b] = pool.ref_cnt[b] - (IF b \in Elems(order) THEN 1 ELSE 0)
  BY <1>1, <1>2, <1>3, <1>4, FreeBlocksInv
<1>6. TablesTyped'
  <2>1. popped' \in Seq(Seq(Blocks)) /\ \A i \in DOMAIN popped' : NoDup(popped'[i])
    BY <1>1 DEF IInv, TablesTyped
  <2> QED
    BY <1>1, <1>2, <2>1, ForgetTyped
<1>7. RefCntIsHolders'
  <2> SUFFICES ASSUME NEW b \in Blocks
               PROVE  pool'.ref_cnt[b] = Cardinality(TableHolders(b)') + Cardinality(PoppedHolders(b)')
    BY DEF RefCntIsHolders
  <2>1. pool.ref_cnt[b] = Cardinality(TableHolders(b)) + Cardinality(PoppedHolders(b))
    BY DEF IInv, RefCntIsHolders
  <2>2. PoppedHolders(b)' = PoppedHolders(b)
    BY <1>1 DEF PoppedHolders
  <2>3. /\ Cardinality(TableHolders(b)') =
             Cardinality(TableHolders(b)) - (IF b \in Elems(table) THEN 1 ELSE 0)
        /\ Cardinality(TableHolders(b)) \in Nat /\ Cardinality(PoppedHolders(b)) \in Nat
    BY <1>1, <1>2, ForgetHolders, HoldersFinite
  <2>4. pool'.ref_cnt[b] = pool.ref_cnt[b] - (IF b \in Elems(table) THEN 1 ELSE 0)
    BY <1>3, <1>5
  <2> QED
    BY <2>1, <2>2, <2>3, <2>4
<1>8. OneKey' /\ TableMatchesHashes' /\ UncachedUnshared'
  <2>1. \A s \in Requests : \/ /\ req_to_blocks'[s] = req_to_blocks[s]
                               /\ num_cached_block'[s] = num_cached_block[s]
                            \/ req_to_blocks'[s] = <<>>
    BY <1>1, <1>2 DEF ForgetBlocks, TablesTyped
  <2> QED
    BY <1>5, <2>1, ShrinkInv
<1> QED
  BY <1>5, <1>6, <1>7, <1>8 DEF IInv, PoolConsistent

\* A popped table has one holder in exchange for another.
LEMMA PopInv ==
  ASSUME IInv, NEW r \in Requests, PopBlocksForFree(r)
  PROVE  IInv' /\ pool' = pool
<1> DEFINE table == req_to_blocks[r]
           n     == Len(popped)
<1>1. /\ pool' = pool /\ ForgetBlocks(r) /\ popped' = Append(popped, table)
      /\ TablesTyped /\ popped \in Seq(Seq(Blocks)) /\ table \in Seq(Blocks) /\ NoDup(table)
  BY DEF PopBlocksForFree, pop_blocks_for_free, IInv, TablesTyped
<1>2. /\ popped' \in Seq(Seq(Blocks)) /\ n \in Nat
      /\ DOMAIN popped = 1..n /\ DOMAIN popped' = 1 .. n + 1
      /\ popped'[n + 1] = table /\ \A i \in 1..n : popped'[i] = popped[i]
  <2>1. /\ Append(popped, table) \in Seq(Seq(Blocks))
        /\ Len(Append(popped, table)) = n + 1
        /\ \A i \in 1..n : Append(popped, table)[i] = popped[i]
        /\ Append(popped, table)[n + 1] = table
    BY <1>1, AppendProperties
  <2>2. n \in Nat /\ DOMAIN popped = 1..n
    BY <1>1, LenProperties
  <2>3. DOMAIN Append(popped, table) = 1 .. n + 1
    BY <2>1, LenProperties
  <2> QED
    BY <1>1, <2>1, <2>2, <2>3
<1> HIDE DEF n
<1>3. TablesTyped'
  <2>1. \A i \in DOMAIN popped' : NoDup(popped'[i])
    BY <1>1, <1>2 DEF TablesTyped
  <2> QED
    BY <1>1, <1>2, <2>1, ForgetTyped
<1>4. RefCntIsHolders'
  <2> SUFFICES ASSUME NEW b \in Blocks
               PROVE  pool.ref_cnt[b] = Cardinality(TableHolders(b)') + Cardinality(PoppedHolders(b)')
    BY <1>1 DEF RefCntIsHolders
  <2> DEFINE P == PoppedHolders(b)
  <2>1. pool.ref_cnt[b] = Cardinality(TableHolders(b)) + Cardinality(P)
    BY DEF IInv, RefCntIsHolders
  <2>2. /\ Cardinality(TableHolders(b)) \in Nat /\ IsFiniteSet(P) /\ Cardinality(P) \in Nat
        /\ Cardinality(TableHolders(b)') =
             Cardinality(TableHolders(b)) - (IF b \in Elems(table) THEN 1 ELSE 0)
    BY <1>1, ForgetHolders, HoldersFinite
  <2>3. n + 1 \notin P
    BY <1>2 DEF PoppedHolders
  <2>4. P' = IF b \in Elems(table) THEN P \cup {n + 1} ELSE P
    BY <1>2 DEF PoppedHolders
  <2> HIDE DEF P
  <2>5. Cardinality(P \cup {n + 1}) = Cardinality(P) + 1
    BY <2>2, <2>3, FS_AddElement, Zenon
  <2> QED
    BY <2>1, <2>2, <2>4, <2>5 DEF P
<1>5. OneKey' /\ TableMatchesHashes' /\ UncachedUnshared'
  <2>1. \A s \in Requests : \/ /\ req_to_blocks'[s] = req_to_blocks[s]
                               /\ num_cached_block'[s] = num_cached_block[s]
                            \/ req_to_blocks'[s] = <<>>
    BY <1>1 DEF ForgetBlocks, TablesTyped
  <2>2. \A b \in Blocks : KeysOf(pool', b) \subseteq KeysOf(pool, b)
    BY <1>1
  <2> QED
    BY <2>1, <2>2, ShrinkInv
<1> QED
  BY <1>1, <1>3, <1>4, <1>5 DEF IInv, PoolConsistent

\* The oldest owed release is made once.
LEMMA FreePoppedInv ==
  ASSUME IInv, FreePopped
  PROVE  /\ IInv'
         /\ \A b \in Blocks : KeysOf(pool', b) = KeysOf(pool, b)
<1> DEFINE list  == Head(popped)
           order == Reversed(list)
           n     == Len(popped)
<1>1. /\ popped # <<>> /\ pool' = free_blocks(pool, order) /\ popped' = Tail(popped)
      /\ req_to_blocks' = req_to_blocks /\ num_cached_block' = num_cached_block
  BY DEF FreePopped
<1>2. PoolInv(pool) /\ pool.ref_cnt \in [Blocks -> Nat] /\ TablesTyped /\ popped \in Seq(Seq(Blocks))
  BY DEF IInv, PoolConsistent, PoolInv, PoolType, TablesTyped
<1>3. /\ n \in Nat \ {0} /\ DOMAIN popped = 1..n /\ list = popped[1]
      /\ popped' \in Seq(Seq(Blocks)) /\ DOMAIN popped' = 1 .. n - 1
      /\ \A i \in 1 .. n - 1 : popped'[i] = popped[i + 1]
  <2>1. n \in Nat /\ DOMAIN popped = 1..n /\ n # 0
    BY <1>1, <1>2, LenProperties, EmptySeq
  <2>2. /\ Tail(popped) \in Seq(Seq(Blocks)) /\ Len(Tail(popped)) = n - 1
        /\ \A i \in 1 .. Len(Tail(popped)) : Tail(popped)[i] = popped[i + 1]
        /\ list = popped[1]
    BY <1>1, <1>2, HeadTailProperties
  <2>3. DOMAIN Tail(popped) = 1 .. n - 1
    BY <2>2, LenProperties
  <2> QED
    BY <1>1, <2>1, <2>2, <2>3
<1> HIDE DEF n
<1>4. list \in Seq(Blocks) /\ NoDup(list) /\ 1 \in DOMAIN popped
  <2>1. 1 \in DOMAIN popped
    BY <1>3
  <2>2. popped[1] \in Seq(Blocks)
    BY <1>2, <2>1, LenProperties
  <2> QED
    BY <1>2, <1>3, <2>1, <2>2, ZenonT(30) DEF TablesTyped
<1>5. order \in Seq(Blocks) /\ NoDup(order) /\ Elems(order) = Elems(list)
  BY <1>4, ReversedProperties
<1>6. \A b \in Elems(order) : pool.ref_cnt[b] > 0
  BY <1>3, <1>4, <1>5, HeldIsCounted, ZenonT(30) DEF IInv
<1> HIDE DEF order, list
<1>7. /\ PoolInv(pool')
      /\ \A b \in Blocks : /\ KeysOf(pool', b) = KeysOf(pool, b)
                           /\ pool'.ref_cnt[b] = pool.ref_cnt[b] - (IF b \in Elems(order) THEN 1 ELSE 0)
  BY <1>1, <1>2, <1>5, <1>6, FreeBlocksInv
<1>8. TablesTyped'
  <2>1. \A i \in DOMAIN popped' : NoDup(popped'[i])
    <3> SUFFICES ASSUME NEW i \in 1 .. n - 1 PROVE NoDup(popped[i + 1])
      BY <1>3
    <3>1. i + 1 \in DOMAIN popped
      BY <1>3
    <3> QED
      BY <1>2, <3>1 DEF TablesTyped
  <2> QED
    BY <1>1, <1>2, <1>3, <2>1 DEF TablesTyped
<1>9. RefCntIsHolders'
  <2> SUFFICES ASSUME NEW b \in Blocks
               PROVE  pool'.ref_cnt[b] = Cardinality(TableHolders(b)') + Cardinality(PoppedHolders(b)')
    BY DEF RefCntIsHolders
  <2> DEFINE P == {i \in 1..n : b \in Elems(popped[i])}
             Q == {i \in 1 .. n - 1 : b \in Elems(popped[i + 1])}
             f == [i \in Q |-> i + 1]
  <2>1. PoppedHolders(b) = P /\ PoppedHolders(b)' = Q /\ TableHolders(b)' = TableHolders(b)
    BY <1>1, <1>3 DEF PoppedHolders, TableHolders
  <2>2. /\ pool.ref_cnt[b] = Cardinality(TableHolders(b)) + Cardinality(P)
        /\ Cardinality(TableHolders(b)) \in Nat /\ IsFiniteSet(P) /\ Cardinality(P) \in Nat
    BY <1>2, <2>1, HoldersFinite, Zenon DEF IInv, RefCntIsHolders
  <2>3. f \in Bijection(Q, P \ {1})
    <3>1. f \in [Q -> P \ {1}]
      BY <1>3
    <3>2. \A i, j \in Q : f[i] = f[j] => i = j
      BY <1>3
    <3>3. \A j \in P \ {1} : \E i \in Q : f[i] = j
      <4> SUFFICES ASSUME NEW j \in P \ {1} PROVE \E i \in Q : f[i] = j
        OBVIOUS
      <4>1. j - 1 \in Q /\ f[j - 1] = j
        BY <1>3
      <4> QED
        BY <4>1
    <3> QED
      BY <3>1, <3>2, <3>3 DEF Bijection, Injection, Surjection, IsInjective
  <2>4. IsFiniteSet(Q)
    <3>1. IsFiniteSet(1 .. n - 1) /\ Q \in SUBSET (1 .. n - 1)
      BY <1>3, FS_Interval
    <3> QED
      BY <3>1, FS_Subset, Zenon
  <2>5. 1 \in P <=> b \in Elems(list)
    BY <1>3
  <2> HIDE DEF P, Q, f
  <2>6. Cardinality(P \ {1}) = Cardinality(Q)
    BY <2>3, <2>4, FS_Bijection DEF ExistsBijection
  <2>7. Cardinality(P \ {1}) = IF 1 \in P THEN Cardinality(P) - 1 ELSE Cardinality(P)
    BY <2>2, FS_RemoveElement, Zenon
  <2>8. pool'.ref_cnt[b] = pool.ref_cnt[b] - (IF 1 \in P THEN 1 ELSE 0)
    BY <1>5, <1>7, <2>5
  <2> QED
    BY <2>1, <2>2, <2>6, <2>7, <2>8
<1>10. OneKey' /\ TableMatchesHashes' /\ UncachedUnshared'
  BY <1>1, <1>7, ShrinkInv
<1> QED
  BY <1>7, <1>8, <1>9, <1>10 DEF IInv, PoolConsistent

\* A reset is accepted only when every block is free.
LEMMA ResetHoldsNothing ==
  ASSUME PoolInv(pool), CanResetPrefixCache(pool)
  PROVE  \A b \in Blocks : pool.ref_cnt[b] = 0
<1> DEFINE F == {b \in Blocks : pool.ref_cnt[b] = 0}
<1>1. pool.free \in Seq(Blocks) /\ NoDup(pool.free) /\ Elems(pool.free) = F
  BY DEF PoolInv, PoolType, FreeQueueInv
<1>2. Len(pool.free) = Cardinality(F)
  BY <1>1, LenIsCardinality, Zenon
<1>3. Cardinality(Blocks) = Cardinality(F) /\ IsFiniteSet(Blocks) /\ F \in SUBSET Blocks
  BY <1>2, PoolAssumption DEF CanResetPrefixCache, get_num_free_blocks
<1>4. F = Blocks
  BY <1>3, FS_Subset
<1> QED
  BY <1>4

\* Eviction and reset take keys and leave counts and tables alone.
LEMMA EvictInv ==
  ASSUME IInv, PoolInv(pool'), pool'.ref_cnt = pool.ref_cnt,
         \A b \in Blocks : KeysOf(pool', b) \subseteq KeysOf(pool, b),
         req_to_blocks' = req_to_blocks, num_cached_block' = num_cached_block, popped' = popped
  PROVE  IInv'
<1>1. TablesTyped' /\ RefCntIsHolders'
  BY DEF IInv, TablesTyped, RefCntIsHolders, TableHolders, PoppedHolders
<1>2. OneKey' /\ TableMatchesHashes' /\ UncachedUnshared'
  BY ShrinkInv
<1> QED
  BY <1>1, <1>2 DEF IInv, PoolConsistent

----------------------------------------------------------------------------
(* Theorems                                                                *)

\* The initial tables are empty and every block is free.
LEMMA InitIInv == Init => IInv
<1> SUFFICES ASSUME Init PROVE IInv
  OBVIOUS
<1>1. /\ pool = InitialPool /\ popped = <<>>
      /\ req_to_blocks = [r \in Requests |-> <<>>] /\ num_cached_block = [r \in Requests |-> 0]
  BY DEF Init, InitManager
<1>2. PoolConsistent
  BY <1>1, InitialPoolInv DEF PoolConsistent
<1>3. TablesTyped
  <2>1. MaxBlocks \in Nat
    <3>1. 1 \in 1..MaxTokens
      BY ManagerAssumption
    <3> QED
      BY <3>1, BlocksNeeded
  <2>2. <<>> \in Seq(Blocks) /\ <<>> \in Seq(Seq(Blocks)) /\ NoDup(<<>>) /\ Len(<<>>) = 0
    BY DEF NoDup
  <2> QED
    BY <1>1, <2>1, <2>2 DEF TablesTyped
<1>4. RefCntIsHolders
  <2>1. \A b \in Blocks : TableHolders(b) = {} /\ PoppedHolders(b) = {}
    BY <1>1 DEF TableHolders, PoppedHolders, Elems
  <2>2. \A b \in Blocks : pool.ref_cnt[b] = 0
    BY <1>1 DEF InitialPool
  <2> QED
    BY <2>1, <2>2, FS_EmptySet DEF RefCntIsHolders
<1>5. \A b \in Blocks : KeysOf(pool, b) = {}
  BY <1>1 DEF InitialPool, KeysOf
<1>6. OneKey /\ TableMatchesHashes /\ UncachedUnshared
  BY <1>1, <1>5 DEF OneKey, TableMatchesHashes, UncachedUnshared
<1> QED
  BY <1>2, <1>3, <1>4, <1>6 DEF IInv

\* Every call keeps the invariant and, while loads succeed, leaves the keys of
\* a block that is held before and after it.
LEMMA NextIInv ==
  ASSUME IInv, [Next]_clientVars
  PROVE  /\ IInv'
         /\ ~loads_failed' => \A b \in Blocks : pool.ref_cnt[b] > 0 /\ pool'.ref_cnt[b] > 0
                                => KeysOf(pool, b) \subseteq KeysOf(pool', b)
<1> USE DEF PoolConsistent
<1>1. CASE \E r \in Requests : AllocateSlots(r)
  BY <1>1, AllocateSlotsGrows, GrowInv
<1>2. CASE \E r \in Requests : CacheBlocks(r)
  BY <1>2, CacheBlocksGrows, GrowInv
<1>3. CASE \E r \in Requests : Free(r)
  BY <1>3, FreeInv
<1>4. CASE \E r \in Requests : PopBlocksForFree(r)
  BY <1>4, PopInv
<1>5. CASE FreePopped
  BY <1>5, FreePoppedInv
<1>6. CASE ResetPrefixCache
  <2>1. PoolInv(pool) /\ CanResetPrefixCache(pool) /\ pool' = reset_prefix_cache(pool)
    BY <1>6 DEF IInv, ResetPrefixCache
  <2>2. /\ PoolInv(pool') /\ pool'.ref_cnt = pool.ref_cnt
        /\ \A b \in Blocks : KeysOf(pool', b) \subseteq KeysOf(pool, b)
    BY <2>1, ResetInv
  <2>3. IInv'
    BY <1>6, <2>2, EvictInv DEF ResetPrefixCache
  <2>4. \A b \in Blocks : pool.ref_cnt[b] = 0
    BY <2>1, ResetHoldsNothing
  <2> QED
    BY <2>3, <2>4
<1>7. CASE EvictBlocks
  <2>1. PICK S : pool' = _remove_cached_block_hashes(pool, S)
    BY <1>7, Zenon DEF EvictBlocks, EvictTails, evict_blocks
  <2>2. /\ PoolInv(pool') /\ pool'.ref_cnt = pool.ref_cnt
        /\ \A b \in Blocks : KeysOf(pool', b) \subseteq KeysOf(pool, b)
    BY <2>1, RemoveHashesInv DEF IInv
  <2>3. IInv'
    BY <1>7, <2>2, EvictInv DEF EvictBlocks, EvictTails
  <2> QED
    BY <1>7, <2>3 DEF EvictBlocks
<1>8. CASE UNCHANGED clientVars
  <2>1. /\ pool' = pool /\ req_to_blocks' = req_to_blocks
        /\ num_cached_block' = num_cached_block /\ popped' = popped
    BY <1>8 DEF clientVars, kvVars
  <2>2. IInv'
    BY <2>1, EvictInv DEF IInv
  <2> QED
    BY <2>1, <2>2
<1> QED
  BY <1>1, <1>2, <1>3, <1>4, <1>5, <1>6, <1>7, <1>8 DEF Next, NextLoadsSucceed, RequestStep

\* ref_cnt counts the tables and the owed releases that contain a block, for any
\* legal sequence of calls of KVCacheManager: no block leaks, and none is freed
\* while it is in use.
THEOREM HoldersAreCounted == Spec => []RefCntIsHolders
<1>1. IInv => RefCntIsHolders
  BY DEF IInv
<1> QED
  BY <1>1, InitIInv, NextIInv, PTL DEF Spec

\* A block that a request holds at position i can be found under the request's
\* i-th hash only, and only once the request has cached it.
THEOREM TablesMatchHashes == Spec => []TableMatchesHashes
<1>1. IInv => TableMatchesHashes
  BY DEF IInv
<1> QED
  BY <1>1, InitIInv, NextIInv, PTL DEF Spec

\* The pool under the manager stays consistent: the manager respects the
\* preconditions of every method of BlockPool that it calls.
THEOREM ManagerKeepsPoolConsistent == Spec => []PoolConsistent
<1>1. IInv => PoolConsistent
  BY DEF IInv
<1> QED
  BY <1>1, InitIInv, NextIInv, PTL DEF Spec

\* While loads succeed no call takes a key from a block that is held before and
\* after it.
THEOREM HeldBlocksKeepKeys == Spec => HeldBlocksStayCached
<1>1. IInv /\ [Next]_clientVars
        => (~loads_failed' => \A b \in Blocks : pool.ref_cnt[b] > 0 /\ pool'.ref_cnt[b] > 0
              => KeysOf(pool, b) \subseteq KeysOf(pool', b))
  BY NextIInv
<1> QED
  BY <1>1, InitIInv, NextIInv, PTL DEF Spec, HeldBlocksStayCached
=============================================================================
