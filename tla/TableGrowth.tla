----------------------------- MODULE TableGrowth -----------------------------
(***************************************************************************)
(* The inductive invariant of KVCacheManager under any legal sequence of   *)
(* calls, and what a growing table does to it: the step that allocate_slots*)
(* and cache_blocks have in common.                                        *)
(***************************************************************************)
EXTENDS KVCacheClient, TableLemmas

----------------------------------------------------------------------------
(* The inductive invariant                                                 *)

\* Tables and owed releases are lists of different blocks; what is cached of a
\* table is a prefix of it.
TablesTyped ==
  /\ req_to_blocks \in [Requests -> Seq(Blocks)]
  /\ num_cached_block \in [Requests -> Nat]
  /\ popped \in Seq(Seq(Blocks))
  /\ \A r \in Requests : /\ NoDup(req_to_blocks[r])
                         /\ num_cached_block[r] <= Len(req_to_blocks[r])
                         /\ Len(req_to_blocks[r]) <= MaxBlocks
  /\ \A i \in DOMAIN popped : NoDup(popped[i])

\* A block is cached under one key at most, and under none without caching.
OneKey ==
  /\ \A b \in Blocks : \A k, l \in KeysOf(pool, b) : k = l
  /\ ~EnableCaching => \A b \in Blocks : KeysOf(pool, b) = {}

\* A block beyond the cached part of a table is in no other table.
UncachedUnshared ==
  \A r, s \in Requests : \A i \in DOMAIN req_to_blocks[r] : \A j \in DOMAIN req_to_blocks[s] :
    i > num_cached_block[r] /\ req_to_blocks[r][i] = req_to_blocks[s][j] => r = s

IInv ==
  /\ PoolConsistent
  /\ TablesTyped
  /\ RefCntIsHolders
  /\ OneKey
  /\ TableMatchesHashes
  /\ UncachedUnshared

----------------------------------------------------------------------------
(* Holders                                                                 *)

\* The holders of a block are finitely many.
LEMMA HoldersFinite ==
  ASSUME TablesTyped, NEW b
  PROVE  /\ IsFiniteSet(TableHolders(b)) /\ Cardinality(TableHolders(b)) \in Nat
         /\ IsFiniteSet(PoppedHolders(b)) /\ Cardinality(PoppedHolders(b)) \in Nat
<1>1. IsFiniteSet(TableHolders(b))
  <2>1. TableHolders(b) \in SUBSET Requests /\ IsFiniteSet(Requests)
    BY ManagerAssumption DEF TableHolders
  <2> QED
    BY <2>1, FS_Subset
<1>2. IsFiniteSet(PoppedHolders(b))
  <2>1. Len(popped) \in Nat /\ DOMAIN popped = 1..Len(popped)
    BY LenProperties DEF TablesTyped
  <2>2. IsFiniteSet(DOMAIN popped)
    BY <2>1, FS_Interval
  <2>3. PoppedHolders(b) \in SUBSET DOMAIN popped
    BY DEF PoppedHolders
  <2> QED
    BY <2>2, <2>3, FS_Subset
<1> QED
  BY <1>1, <1>2, FS_CardinalityType

\* A block of a table or of an owed release is not free.
LEMMA HeldIsCounted ==
  ASSUME PoolConsistent, TablesTyped, RefCntIsHolders
  PROVE  /\ \A r \in Requests : \A b \in Elems(req_to_blocks[r]) :
              b \in Blocks /\ pool.ref_cnt[b] > 0
         /\ \A i \in DOMAIN popped : \A b \in Elems(popped[i]) :
              b \in Blocks /\ pool.ref_cnt[b] > 0
<1>1. \A b \in Blocks : TableHolders(b) # {} \/ PoppedHolders(b) # {} => pool.ref_cnt[b] > 0
  <2> SUFFICES ASSUME NEW b \in Blocks, TableHolders(b) # {} \/ PoppedHolders(b) # {}
               PROVE  pool.ref_cnt[b] > 0
    OBVIOUS
  <2>1. pool.ref_cnt[b] = Cardinality(TableHolders(b)) + Cardinality(PoppedHolders(b))
    BY DEF RefCntIsHolders
  <2>2. /\ IsFiniteSet(TableHolders(b)) /\ Cardinality(TableHolders(b)) \in Nat
        /\ IsFiniteSet(PoppedHolders(b)) /\ Cardinality(PoppedHolders(b)) \in Nat
    BY HoldersFinite
  <2>3. Cardinality(TableHolders(b)) # 0 \/ Cardinality(PoppedHolders(b)) # 0
    BY <2>2, FS_EmptySet
  <2> QED
    BY <2>1, <2>2, <2>3
<1>2. \A r \in Requests : Elems(req_to_blocks[r]) \subseteq Blocks
  <2> SUFFICES ASSUME NEW r \in Requests PROVE Elems(req_to_blocks[r]) \subseteq Blocks
    OBVIOUS
  <2>1. req_to_blocks[r] \in Seq(Blocks)
    BY DEF TablesTyped
  <2> QED
    BY <2>1, LenProperties DEF Elems
<1>3. \A i \in DOMAIN popped : Elems(popped[i]) \subseteq Blocks
  <2> SUFFICES ASSUME NEW i \in DOMAIN popped PROVE Elems(popped[i]) \subseteq Blocks
    OBVIOUS
  <2>1. popped[i] \in Seq(Blocks)
    BY LenProperties DEF TablesTyped
  <2> QED
    BY <2>1, LenProperties DEF Elems
<1> QED
  BY <1>1, <1>2, <1>3 DEF TableHolders, PoppedHolders

----------------------------------------------------------------------------
(* Caching                                                                 *)

\* p is the pool q once positions first + 1 .. c of the table are cached.
CachedTo(p, q, r, table, first, c) ==
  /\ PoolInv(p) /\ p.ref_cnt = q.ref_cnt
  /\ \A i \in first + 1 .. c : KeysOf(p, table[i]) = {BlockHashes[r][i]}
  /\ \A b \in Blocks : (\A i \in first + 1 .. c : table[i] # b) => KeysOf(p, b) = KeysOf(q, b)

\* CacheUpTo registers positions num_cached + 1 .. c of the table under the
\* request's hashes, for some c of the table, and changes no other block.
LEMMA CacheUpToInv ==
  ASSUME NEW r \in Requests, NEW p, PoolInv(p), NEW table \in Seq(Blocks), NoDup(table),
         Len(table) <= MaxBlocks, NEW num_cached \in Nat, num_cached <= Len(table),
         NEW num_tokens \in Nat, num_tokens \div BlockSize <= Len(table),
         CacheUpTo(r, p, table, num_cached, num_tokens)
  PROVE  \E c \in Nat :
           /\ num_cached <= c /\ c <= Len(table)
           /\ num_tokens = 0 => c = num_cached
           /\ num_cached_block' = [num_cached_block EXCEPT ![r] = c]
           /\ CachedTo(pool', p, r, table, num_cached, c)
<1> DEFINE full == num_tokens \div BlockSize
<1>0. BlockSize \in Nat \ {0} /\ Len(table) \in Nat
  BY ManagerAssumption, LenProperties
<1>1. full \in Nat /\ (num_tokens = 0 => full = 0)
  <2>1. full \in Nat /\ BlockSize * full <= num_tokens
    BY <1>0, DivBounds
  <2>2. num_tokens = 0 => full = 0
    BY <1>0
  <2> QED
    BY <2>1, <2>2
<1>2. CASE full > num_cached
  <2> HIDE DEF full
  <2>1. /\ pool' = cache_full_blocks(p, table, BlockHashes[r], num_cached, full)
        /\ num_cached_block' = [num_cached_block EXCEPT ![r] = full]
    BY <1>2 DEF CacheUpTo, full
  <2>2. full <= Len(table) /\ num_cached + 1 .. full \subseteq 1..MaxBlocks
    <3>1. full <= Len(table)
      BY DEF full
    <3>2. MaxBlocks \in Int
      BY <1>0, ManagerAssumption DEF MaxBlocks
    <3> QED
      BY <1>0, <1>1, <3>1, <3>2
  <2>3. /\ \A i \in num_cached + 1 .. full : BlockHashes[r][i] \in Keys
        /\ \A i, j \in num_cached + 1 .. full : BlockHashes[r][i] = BlockHashes[r][j] => i = j
    <3>1. /\ BlockHashes[r] \in [1..MaxBlocks -> Keys]
          /\ \A i, j \in 1..MaxBlocks : BlockHashes[r][i] = BlockHashes[r][j] => i = j
      BY ManagerAssumption
    <3> QED
      BY <2>2, <3>1, Zenon
  <2>4. /\ PoolInv(pool') /\ pool'.ref_cnt = p.ref_cnt
        /\ \A i \in num_cached + 1 .. full : KeysOf(pool', table[i]) = {BlockHashes[r][i]}
        /\ \A b \in Blocks : (\A i \in num_cached + 1 .. full : table[i] # b)
                               => KeysOf(pool', b) = KeysOf(p, b)
    <3> DEFINE hashes == BlockHashes[r]
    <3>0. /\ \A i \in num_cached + 1 .. full : hashes[i] \in Keys
          /\ \A i, j \in num_cached + 1 .. full : hashes[i] = hashes[j] => i = j
      BY <2>3
    <3> HIDE DEF hashes
    <3> DEFINE q == cache_full_blocks(p, table, hashes, num_cached, full)
    <3>1. full \in Nat /\ full <= Len(table)
      BY <1>1, <2>2
    <3>2. PoolInv(q)
      BY <3>0, <3>1, CacheFullInv
    <3>3. q.ref_cnt = p.ref_cnt
      BY <3>0, <3>1, CacheFullInv
    <3>4. \A i \in num_cached + 1 .. full : KeysOf(q, table[i]) = {hashes[i]}
      <4>1. FoundUnder(q, table, hashes, num_cached + 1, full)
        BY <3>0, <3>1, CacheFullInv
      <4> QED
        BY <4>1, Zenon DEF FoundUnder
    <3>5. \A b \in Blocks : (\A i \in num_cached + 1 .. full : table[i] # b)
                               => KeysOf(q, b) = KeysOf(p, b)
      BY <3>0, <3>1, CacheFullInv
    <3> QED
      BY <2>1, <3>2, <3>3, <3>4, <3>5, Zenon DEF hashes
  <2>5. num_tokens # 0
    BY <1>1, <1>2
  <2>6. num_cached <= full /\ full <= Len(table) /\ (num_tokens = 0 => full = num_cached)
    BY <1>1, <1>2, <2>2, <2>5
  <2>7. full \in Nat /\ CachedTo(pool', p, r, table, num_cached, full)
    BY <1>1, <2>4, Zenon DEF CachedTo
  <2> QED
    BY <2>1, <2>6, <2>7, Zenon
<1>3. CASE ~(full > num_cached)
  <2>1. pool' = p /\ num_cached_block' = [num_cached_block EXCEPT ![r] = num_cached]
    BY <1>3 DEF CacheUpTo
  <2>2. \A i \in num_cached + 1 .. num_cached : FALSE
    OBVIOUS
  <2>3. CachedTo(pool', p, r, table, num_cached, num_cached)
    BY <2>1, <2>2 DEF CachedTo
  <2>4. num_cached <= num_cached
    OBVIOUS
  <2> HIDE DEF full
  <2> QED
    BY <2>1, <2>3, <2>4, Zenon
<1> QED
  BY <1>2, <1>3
----------------------------------------------------------------------------
(* A table grows                                                           *)

\* A list that allocate_slots may be given as the hit of r: empty unless the
\* table is, and each block cached under the request's hash for its position.
IsHit(r, hit) ==
  /\ hit \in Seq(Blocks) /\ NoDup(hit)
  /\ hit # <<>> => req_to_blocks[r] = <<>>
  /\ \A i \in DOMAIN hit : KeysOf(pool, hit[i]) = {BlockHashes[r][i]}

\* The cached part of r's table once it starts with the hit.
CachedPart(r, hit) == IF hit = <<>> THEN num_cached_block[r] ELSE Len(hit)

\* `old' can be the table of r, cached up to `first': its blocks have no foreign
\* keys, and no table shares a block that one of the two has not cached.
FitsTable(r, old, first) ==
  /\ old \in Seq(Blocks) /\ NoDup(old) /\ first \in Nat /\ first <= Len(old)
  /\ \A i \in DOMAIN old :
       KeysOf(pool, old[i]) \subseteq IF i <= first THEN {BlockHashes[r][i]} ELSE {}
  /\ \A i \in DOMAIN old, s \in Requests : \A j \in DOMAIN req_to_blocks[s] :
       req_to_blocks[s][j] = old[i] /\ (i > first \/ j > num_cached_block[s]) => s = r

\* The table of r and a hit, one of which is empty, make such a table.
LEMMA HitFits ==
  ASSUME IInv, NEW r \in Requests, NEW hit, IsHit(r, hit)
  PROVE  /\ FitsTable(r, req_to_blocks[r] \o hit, CachedPart(r, hit))
         /\ Elems(req_to_blocks[r] \o hit) = Elems(req_to_blocks[r]) \cup Elems(hit)
         /\ Elems(req_to_blocks[r]) \cap Elems(hit) = {}
<1> DEFINE T     == req_to_blocks
           cur   == req_to_blocks[r]
           old   == cur \o hit
           first == CachedPart(r, hit)
<1>1. /\ T \in [Requests -> Seq(Blocks)] /\ cur \in Seq(Blocks) /\ NoDup(cur)
      /\ num_cached_block \in [Requests -> Nat] /\ num_cached_block[r] <= Len(cur)
      /\ hit \in Seq(Blocks) /\ NoDup(hit) /\ Len(hit) \in Nat /\ DOMAIN hit = 1..Len(hit)
  BY LenProperties DEF IInv, TablesTyped, IsHit
<1>2. Elems(cur) \cap Elems(hit) = {}
  BY DEF Elems, IsHit
<1>3. Elems(old) = Elems(cur) \cup Elems(hit)
  BY <1>1, <1>2, ConcatElems
<1>4. CASE hit = <<>>
  <2>1. old = cur /\ first = num_cached_block[r]
    BY <1>1, <1>4, ConcatEmptySeq DEF CachedPart
  <2>2. \A i \in DOMAIN cur :
          KeysOf(pool, cur[i]) \subseteq IF i <= num_cached_block[r] THEN {BlockHashes[r][i]} ELSE {}
    BY DEF IInv, TableMatchesHashes
  <2>3. \A i \in DOMAIN cur, s \in Requests : \A j \in DOMAIN T[s] :
          T[s][j] = cur[i] /\ (i > num_cached_block[r] \/ j > num_cached_block[s]) => s = r
    BY DEF IInv, UncachedUnshared
  <2>4. FitsTable(r, cur, num_cached_block[r])
    BY <1>1, <2>2, <2>3 DEF FitsTable
  <2> QED
    BY <1>2, <1>3, <2>1, <2>4
<1>5. CASE hit # <<>>
  <2>1. old = hit /\ first = Len(hit)
    BY <1>1, <1>5, ConcatEmptySeq DEF CachedPart, IsHit
  <2>2. \A i \in DOMAIN hit : i <= Len(hit) /\ ~(i > Len(hit)) /\ KeysOf(pool, hit[i]) = {BlockHashes[r][i]}
    BY <1>1 DEF IsHit
  <2>3. ASSUME NEW s \in Requests, NEW j \in DOMAIN T[s], j > num_cached_block[s]
        PROVE  KeysOf(pool, T[s][j]) = {}
    <3>1. T[s] \in Seq(Blocks) /\ num_cached_block[s] \in Nat
      BY <1>1
    <3>2. j \in Nat
      BY <3>1, LenProperties
    <3>3. ~(j <= num_cached_block[s])
      BY <2>3, <3>1, <3>2
    <3> QED
      BY <3>3 DEF IInv, TableMatchesHashes
  <2>4. ASSUME NEW i \in DOMAIN hit, NEW s \in Requests, NEW j \in DOMAIN T[s], T[s][j] = hit[i],
               i > Len(hit) \/ j > num_cached_block[s]
        PROVE  s = r
    <3>1. KeysOf(pool, T[s][j]) # {}
      BY <2>2, <2>4, Zenon
    <3> QED
      BY <2>2, <2>3, <2>4, <3>1, Zenon
  <2>5. \A i \in DOMAIN hit :
          KeysOf(pool, hit[i]) \subseteq IF i <= Len(hit) THEN {BlockHashes[r][i]} ELSE {}
    BY <2>2
  <2>6. FitsTable(r, hit, Len(hit))
    BY <1>1, <2>4, <2>5 DEF FitsTable
  <2> QED
    BY <1>2, <1>3, <2>1, <2>6
<1> QED
  BY <1>4, <1>5
\* q is the pool once the hit is touched and the blocks `ret' are taken.
AllocatedFrom(q, hit, ret) ==
  /\ PoolInv(q)
  /\ ret \in Seq(Blocks) /\ NoDup(ret) /\ Elems(ret) \cap Elems(hit) = {}
  /\ \A b \in Elems(ret) : b \in Blocks /\ pool.ref_cnt[b] = 0
  /\ \A b \in Blocks : q.ref_cnt[b] = pool.ref_cnt[b]
                         + (IF b \in Elems(hit) \cup Elems(ret) THEN 1 ELSE 0)
  /\ \A b \in Blocks \ Elems(ret) : KeysOf(q, b) = KeysOf(pool, b)
  /\ EnableCaching => \A b \in Elems(ret) : KeysOf(q, b) = {}
  /\ ~EnableCaching => \A b \in Blocks : KeysOf(q, b) = KeysOf(pool, b)

\* The counts still match when r, which had none of them, gains the blocks of
\* the hit and the new ones.
LEMMA GrowCounts ==
  ASSUME PoolConsistent, TablesTyped, RefCntIsHolders, NEW r \in Requests,
         NEW gained, \A b \in gained : b \notin Elems(req_to_blocks[r]),
         NEW table, Elems(table) = Elems(req_to_blocks[r]) \cup gained,
         req_to_blocks' = [req_to_blocks EXCEPT ![r] = table], popped' = popped,
         \A b \in Blocks : pool'.ref_cnt[b] = pool.ref_cnt[b] + (IF b \in gained THEN 1 ELSE 0)
  PROVE  RefCntIsHolders'
<1> SUFFICES ASSUME NEW b \in Blocks
             PROVE  pool'.ref_cnt[b] = Cardinality(TableHolders(b)') + Cardinality(PoppedHolders(b)')
  BY DEF RefCntIsHolders
<1>1. /\ pool.ref_cnt[b] = Cardinality(TableHolders(b)) + Cardinality(PoppedHolders(b))
      /\ IsFiniteSet(TableHolders(b)) /\ Cardinality(TableHolders(b)) \in Nat
      /\ Cardinality(PoppedHolders(b)) \in Nat
  BY HoldersFinite DEF RefCntIsHolders
<1>2. PoppedHolders(b)' = PoppedHolders(b)
  BY DEF PoppedHolders
<1>3. req_to_blocks \in [Requests -> Seq(Blocks)]
  BY DEF TablesTyped
<1>4. \A s \in Requests : req_to_blocks'[s] = IF s = r THEN table ELSE req_to_blocks[s]
  BY <1>3
<1>5. CASE b \in gained
  <2>1. TableHolders(b)' = TableHolders(b) \cup {r} /\ r \notin TableHolders(b)
    BY <1>4, <1>5 DEF TableHolders
  <2>2. Cardinality(TableHolders(b) \cup {r}) = Cardinality(TableHolders(b)) + 1
    BY <1>1, <2>1, FS_AddElement, Zenon
  <2>3. pool'.ref_cnt[b] = pool.ref_cnt[b] + 1
    BY <1>5
  <2> QED
    BY <1>1, <1>2, <2>1, <2>2, <2>3
<1>6. CASE b \notin gained
  <2>1. TableHolders(b)' = TableHolders(b)
    BY <1>4, <1>6 DEF TableHolders
  <2>2. pool'.ref_cnt[b] = pool.ref_cnt[b] + 0
    BY <1>6
  <2> QED
    BY <1>1, <1>2, <2>1, <2>2
<1> QED
  BY <1>5, <1>6
\* In p the blocks of r's table have none but r's own hashes up to c, those of
\* `old' at least the keys they had, and the same if they were cached, and any
\* other block the same keys.
KeysGrown(p, r, old, first, table, c) ==
  /\ \A i \in DOMAIN table :
       KeysOf(p, table[i]) \subseteq IF i <= c THEN {BlockHashes[r][i]} ELSE {}
  /\ \A i \in DOMAIN old : KeysOf(pool, old[i]) \subseteq KeysOf(p, old[i])
  /\ \A i \in DOMAIN old : i <= first => KeysOf(p, old[i]) = KeysOf(pool, old[i])
  /\ \A b \in Blocks \ Elems(table) : KeysOf(p, b) = KeysOf(pool, b)

\* The keys of the blocks after r's table has grown from `old' by `ret' and has
\* been cached up to c.
LEMMA GrownKeys ==
  ASSUME IInv, NEW r \in Requests, NEW hit, NEW ret, NEW q, AllocatedFrom(q, hit, ret),
         NEW old, NEW first, FitsTable(r, old, first), Elems(old) \cap Elems(ret) = {},
         NEW table, table = old \o ret, NEW c \in Nat, first <= c, c <= Len(table),
         ~EnableCaching => c = first, NEW p, CachedTo(p, q, r, table, first, c)
  PROVE  KeysGrown(p, r, old, first, table, c)
<1>1. /\ old \in Seq(Blocks) /\ ret \in Seq(Blocks) /\ first \in Nat
      /\ NoDup(old) /\ NoDup(ret) /\ first <= Len(old)
  BY DEF AllocatedFrom, FitsTable
<1>2. /\ Len(old) \in Nat /\ DOMAIN old = 1..Len(old)
      /\ Len(table) \in Nat /\ DOMAIN table = 1..Len(table)
      /\ Len(old) <= Len(table) /\ \A i \in DOMAIN table : table[i] \in Blocks
      /\ \A i \in DOMAIN old : i \in DOMAIN table /\ table[i] = old[i]
      /\ \A i \in DOMAIN table \ DOMAIN old : table[i] \in Elems(ret)
  <2>1. /\ Len(old) \in Nat /\ DOMAIN old = 1..Len(old)
        /\ Len(table) \in Nat /\ DOMAIN table = 1..Len(table)
        /\ Len(old) <= Len(table)
    BY <1>1, ConcatPositions
  <2>2. \A i \in DOMAIN table : table[i] \in Blocks
    BY <1>1, ConcatPositions
  <2>3. \A i \in DOMAIN old : i \in DOMAIN table /\ table[i] = old[i]
    BY <1>1, ConcatPositions
  <2>4. \A i \in DOMAIN table \ DOMAIN old : table[i] \in Elems(ret)
    BY <1>1, ConcatPositions, Zenon
  <2> QED
    BY <2>1, <2>2, <2>3, <2>4
<1>3. NoDup(table) /\ Elems(table) = Elems(old) \cup Elems(ret)
  <2> DEFINE t == old \o ret
  <2>1. NoDup(t) /\ Elems(t) = Elems(old) \cup Elems(ret)
    BY <1>1, ConcatElems
  <2> QED
    BY <2>1
<1>4. first + 1 .. c \subseteq DOMAIN table
  BY <1>1, <1>2
<1>5. \A i \in DOMAIN table : i \notin first + 1 .. c => KeysOf(p, table[i]) = KeysOf(q, table[i])
  <2> SUFFICES ASSUME NEW i \in DOMAIN table, i \notin first + 1 .. c
               PROVE  KeysOf(p, table[i]) = KeysOf(q, table[i])
    OBVIOUS
  <2>1. \A j \in first + 1 .. c : table[j] # table[i]
    BY <1>3, <1>4, Zenon DEF NoDup
  <2> QED
    BY <1>2, <2>1, Zenon DEF CachedTo
<1>6. \A i \in DOMAIN old : /\ KeysOf(q, old[i]) = KeysOf(pool, old[i])
                            /\ KeysOf(pool, old[i]) \subseteq
                                 IF i <= first THEN {BlockHashes[r][i]} ELSE {}
  <2>1. \A i \in DOMAIN old : old[i] \in Blocks \ Elems(ret)
    <3>1. \A i \in DOMAIN old : old[i] \in Blocks /\ old[i] \in Elems(old)
      BY <1>1, LenProperties DEF Elems
    <3> QED
      BY <3>1
  <2> QED
    BY <2>1 DEF AllocatedFrom, FitsTable
<1>7. \A i \in DOMAIN table \ DOMAIN old : KeysOf(q, table[i]) = {}
  <2>1. CASE EnableCaching
    BY <1>2, <2>1 DEF AllocatedFrom
  <2>2. CASE ~EnableCaching
    BY <1>2, <2>2 DEF AllocatedFrom, IInv, OneKey
  <2> QED
    BY <2>1, <2>2, Zenon
<1>8. \A i \in DOMAIN table :
         KeysOf(p, table[i]) \subseteq IF i <= c THEN {BlockHashes[r][i]} ELSE {}
  <2> SUFFICES ASSUME NEW i \in DOMAIN table
               PROVE  KeysOf(p, table[i]) \subseteq IF i <= c THEN {BlockHashes[r][i]} ELSE {}
    BY Zenon
  <2>1. CASE i \in first + 1 .. c
    <3>1. i <= c
      BY <1>1, <2>1
    <3>2. KeysOf(p, table[i]) = {BlockHashes[r][i]}
      BY <2>1, Zenon DEF CachedTo
    <3> QED
      BY <3>1, <3>2
  <2>2. CASE i \notin first + 1 .. c /\ i \in DOMAIN old
    <3>1. KeysOf(p, table[i]) \subseteq IF i <= first THEN {BlockHashes[r][i]} ELSE {}
      BY <1>2, <1>5, <1>6, <2>2
    <3>2. i <= first => i <= c
      BY <1>1, <1>2
    <3> QED
      BY <3>1, <3>2
  <2>3. CASE i \notin first + 1 .. c /\ i \notin DOMAIN old
    BY <1>5, <1>7, <2>3, Zenon
  <2> QED
    BY <2>1, <2>2, <2>3, Zenon
<1>9. \A i \in DOMAIN old : KeysOf(pool, old[i]) \subseteq KeysOf(p, old[i])
  <2> SUFFICES ASSUME NEW i \in DOMAIN old PROVE KeysOf(pool, old[i]) \subseteq KeysOf(p, old[i])
    OBVIOUS
  <2>1. CASE i \in first + 1 .. c
    <3>1. ~(i <= first)
      BY <1>1, <2>1
    <3> QED
      BY <1>6, <3>1
  <2>2. CASE i \notin first + 1 .. c
    BY <1>2, <1>5, <1>6, <2>2
  <2> QED
    BY <2>1, <2>2
<1>10. \A b \in Blocks \ Elems(table) : KeysOf(p, b) = KeysOf(pool, b)
  <2> SUFFICES ASSUME NEW b \in Blocks, b \notin Elems(table) PROVE KeysOf(p, b) = KeysOf(pool, b)
    OBVIOUS
  <2>1. \A i \in first + 1 .. c : table[i] # b
    BY <1>4 DEF Elems
  <2>2. KeysOf(p, b) = KeysOf(q, b)
    BY <2>1, Zenon DEF CachedTo
  <2>3. KeysOf(q, b) = KeysOf(pool, b)
    BY <1>3 DEF AllocatedFrom
  <2> QED
    BY <2>2, <2>3
<1>11. \A i \in DOMAIN old : i <= first => KeysOf(p, old[i]) = KeysOf(pool, old[i])
  <2> SUFFICES ASSUME NEW i \in DOMAIN old, i <= first PROVE KeysOf(p, old[i]) = KeysOf(pool, old[i])
    OBVIOUS
  <2>1. i \notin first + 1 .. c
    BY <1>1, <1>2
  <2> QED
    BY <1>2, <1>5, <1>6, <2>1
<1> QED
  BY <1>8, <1>9, <1>10, <1>11, Zenon DEF KeysGrown
\* What allocate_slots and cache_blocks have in common: the table of r grows by
\* a hit and by blocks nobody held, and is cached further, up to num_tokens. The
\* pool q in between is the old one, or what touch and get_new_blocks make of it.
Growth(r, hit, ret, q, table, num_tokens) ==
  /\ IsHit(r, hit) /\ AllocatedFrom(q, hit, ret)
  /\ \/ q = pool /\ hit = <<>>
     \/ \E n \in Nat : /\ n + NumEvictable(hit) <= get_num_free_blocks(pool)
                       /\ q = get_new_blocks(touch(pool, hit), n)
  /\ table = req_to_blocks[r] \o hit \o ret /\ Len(table) <= MaxBlocks
  /\ num_tokens \in Nat /\ num_tokens \div BlockSize <= Len(table)
  /\ ~EnableCaching => num_tokens = 0
  /\ req_to_blocks' = [req_to_blocks EXCEPT ![r] = table]
  /\ CacheUpTo(r, q, table, CachedPart(r, hit), num_tokens)
  /\ popped' = popped

\* What a growth does to the keys, with c blocks of the table cached after it.
Grown(r, hit, q, table, c) ==
  LET old   == req_to_blocks[r] \o hit
      first == CachedPart(r, hit)
  IN /\ first <= c /\ c <= Len(table)
     /\ num_cached_block' = [num_cached_block EXCEPT ![r] = c]
     /\ CachedTo(pool', q, r, table, first, c)
     /\ KeysGrown(pool', r, old, first, table, c)

\* The invariant survives a growth, and no block that was held loses a key.
LEMMA GrowInv ==
  ASSUME IInv, NEW r \in Requests, NEW hit, NEW ret, NEW q, NEW table, NEW num_tokens,
         Growth(r, hit, ret, q, table, num_tokens)
  PROVE  /\ IInv'
         /\ \A b \in Blocks : pool.ref_cnt[b] > 0 => KeysOf(pool, b) \subseteq KeysOf(pool', b)
         /\ \E c \in Nat : Grown(r, hit, q, table, c)
<1>0. /\ IsHit(r, hit) /\ AllocatedFrom(q, hit, ret)
      /\ table = req_to_blocks[r] \o hit \o ret /\ Len(table) <= MaxBlocks
      /\ num_tokens \in Nat /\ num_tokens \div BlockSize <= Len(table)
      /\ ~EnableCaching => num_tokens = 0
      /\ req_to_blocks' = [req_to_blocks EXCEPT ![r] = table]
      /\ CacheUpTo(r, q, table, CachedPart(r, hit), num_tokens)
      /\ popped' = popped
  BY DEF Growth
<1> USE <1>0
<1> DEFINE T     == req_to_blocks
           old   == req_to_blocks[r] \o hit
           first == CachedPart(r, hit)
<1>1. /\ FitsTable(r, old, first)
      /\ Elems(old) = Elems(T[r]) \cup Elems(hit) /\ Elems(T[r]) \cap Elems(hit) = {}
  BY HitFits
<1>2. table = old \o ret
  OBVIOUS
<1> HIDE DEF old, first
<1>3. /\ T \in [Requests -> Seq(Blocks)] /\ num_cached_block \in [Requests -> Nat]
      /\ popped \in Seq(Seq(Blocks)) /\ pool.ref_cnt \in [Blocks -> Nat]
      /\ \A s \in Requests : T'[s] = IF s = r THEN table ELSE T[s]
  BY DEF IInv, TablesTyped, PoolConsistent, PoolInv, PoolType
<1>4. /\ \A s \in Requests : \A b \in Elems(T[s]) :
           b \in Blocks /\ pool.ref_cnt[b] > 0 /\ b \notin Elems(ret)
      /\ Elems(old) \cap Elems(ret) = {}
  <2>1. \A s \in Requests : \A b \in Elems(T[s]) : b \in Blocks /\ pool.ref_cnt[b] > 0
    BY HeldIsCounted DEF IInv
  <2>2. \A b \in Elems(ret) : pool.ref_cnt[b] = 0 /\ b \notin Elems(hit)
    BY DEF AllocatedFrom
  <2>3. \A s \in Requests : \A b \in Elems(T[s]) : b \notin Elems(ret)
    <3> SUFFICES ASSUME NEW s \in Requests, NEW b \in Elems(T[s]), b \in Elems(ret) PROVE FALSE
      OBVIOUS
    <3>1. pool.ref_cnt[b] > 0 /\ pool.ref_cnt[b] = 0
      BY <2>1, <2>2
    <3> QED
      BY <3>1
  <2> QED
    BY <1>1, <2>1, <2>2, <2>3
<1>5. /\ old \in Seq(Blocks) /\ ret \in Seq(Blocks) /\ NoDup(old) /\ NoDup(ret)
      /\ first \in Nat /\ first <= Len(old)
  BY <1>1 DEF FitsTable, AllocatedFrom
<1>6. table \in Seq(Blocks) /\ NoDup(table) /\ Elems(table) = Elems(old) \cup Elems(ret)
  <2> DEFINE t == old \o ret
  <2>1. t \in Seq(Blocks) /\ NoDup(t) /\ Elems(t) = Elems(old) \cup Elems(ret)
    BY <1>4, <1>5, ConcatElems
  <2> QED
    BY <1>2, <2>1
<1>7. /\ Len(old) \in Nat /\ DOMAIN old = 1..Len(old) /\ Len(old) <= Len(table)
      /\ Len(table) \in Nat /\ DOMAIN table = 1..Len(table)
  BY <1>2, <1>5, ConcatPositions
<1>8. \A i \in DOMAIN table : /\ i \in DOMAIN old => table[i] = old[i]
                              /\ i \notin DOMAIN old => table[i] \in Elems(ret)
  <2>1. \A i \in DOMAIN old : table[i] = old[i]
    BY <1>2, <1>5, ConcatPositions
  <2>2. \A i \in DOMAIN table \ DOMAIN old : table[i] \in Elems(ret)
    BY <1>2, <1>5, ConcatPositions, Zenon
  <2> QED
    BY <2>1, <2>2
<1>9. PICK c \in Nat : /\ first <= c /\ c <= Len(table) /\ (num_tokens = 0 => c = first)
                       /\ num_cached_block' = [num_cached_block EXCEPT ![r] = c]
                       /\ CachedTo(pool', q, r, table, first, c)
  <2>1. first <= Len(table) /\ CacheUpTo(r, q, table, first, num_tokens) /\ PoolInv(q)
    BY <1>5, <1>7 DEF first, AllocatedFrom
  <2> QED
    BY <1>5, <1>6, <2>1, CacheUpToInv, ZenonT(30)
<1>10. /\ \A i \in DOMAIN table :
            KeysOf(pool', table[i]) \subseteq IF i <= c THEN {BlockHashes[r][i]} ELSE {}
       /\ \A i \in DOMAIN old : KeysOf(pool, old[i]) \subseteq KeysOf(pool', old[i])
       /\ \A i \in DOMAIN old : i <= first => KeysOf(pool', old[i]) = KeysOf(pool, old[i])
       /\ \A b \in Blocks \ Elems(table) : KeysOf(pool', b) = KeysOf(pool, b)
  <2>1. ~EnableCaching => c = first
    BY <1>9
  <2> DEFINE p == pool'
  <2>2. CachedTo(p, q, r, table, first, c)
    BY <1>9
  <2> HIDE DEF p
  <2>3. KeysGrown(p, r, old, first, table, c)
    BY <1>1, <1>2, <1>4, <1>9, <2>1, <2>2, GrownKeys, ZenonT(30)
  <2> QED
    BY <2>3, Zenon DEF p, KeysGrown
<1>20. Grown(r, hit, q, table, c)
  BY <1>9, <1>10 DEF Grown, KeysGrown, old, first
<1>11. PoolConsistent'
  BY <1>9 DEF PoolConsistent, CachedTo
<1>12. TablesTyped'
  <2>1. T' \in [Requests -> Seq(Blocks)] /\ num_cached_block' \in [Requests -> Nat]
    BY <1>3, <1>6, <1>9
  <2>2. \A s \in Requests : /\ NoDup(T'[s]) /\ num_cached_block'[s] <= Len(T'[s])
                            /\ Len(T'[s]) <= MaxBlocks
    BY <1>3, <1>6, <1>9 DEF IInv, TablesTyped
  <2> QED
    BY <1>3, <2>1, <2>2 DEF IInv, TablesTyped
<1>13. RefCntIsHolders'
  <2> DEFINE gained == Elems(hit) \cup Elems(ret)
  <2>1. \A b \in gained : b \notin Elems(T[r])
    BY <1>1, <1>4
  <2>2. Elems(table) = Elems(T[r]) \cup gained
    BY <1>1, <1>6
  <2>3. \A b \in Blocks : pool'.ref_cnt[b] = pool.ref_cnt[b] + (IF b \in gained THEN 1 ELSE 0)
    BY <1>9 DEF CachedTo, AllocatedFrom
  <2> HIDE DEF gained
  <2> QED
    BY <2>1, <2>2, <2>3, GrowCounts, ZenonT(30) DEF IInv
<1>14. OneKey'
  <2>1. ASSUME NEW b \in Blocks, NEW k \in KeysOf(pool', b), NEW l \in KeysOf(pool', b)
        PROVE  k = l
    <3>1. CASE b \in Elems(table)
      <4>1. PICK i \in DOMAIN table : b = table[i]
        BY <3>1 DEF Elems
      <4> QED
        BY <1>10, <2>1, <4>1, Zenon
    <3>2. CASE b \notin Elems(table)
      BY <1>10, <2>1, <3>2 DEF IInv, OneKey
    <3> QED
      BY <3>1, <3>2
  <2>2. ASSUME ~EnableCaching, NEW b \in Blocks PROVE KeysOf(pool', b) = {}
    <3>1. c = first
      BY <1>9, <2>2
    <3>2. \A i \in first + 1 .. c : table[i] # b
      BY <1>5, <3>1
    <3>3. KeysOf(pool', b) = KeysOf(q, b)
      BY <1>9, <3>2, Zenon DEF CachedTo
    <3> QED
      BY <2>2, <3>3 DEF AllocatedFrom, IInv, OneKey
  <2> QED
    BY <2>1, <2>2 DEF OneKey
\* A block of another table is in none of the new parts of r's table.
<1>15. ASSUME NEW s \in Requests, s # r, NEW j \in DOMAIN T[s], NEW i \in DOMAIN table,
              T[s][j] = table[i]
       PROVE  i \in DOMAIN old /\ T[s][j] = old[i] /\ i <= first /\ j <= num_cached_block[s]
  <2>1. T[s][j] \in Elems(T[s])
    BY DEF Elems
  <2>2. i \in DOMAIN old /\ T[s][j] = old[i]
    BY <1>4, <1>8, <1>15, <2>1
  <2>3. ~(i > first) /\ ~(j > num_cached_block[s])
    BY <1>1, <1>15, <2>2 DEF FitsTable
  <2>4. i \in Nat /\ j \in Nat /\ num_cached_block[s] \in Nat
    <3>1. T[s] \in Seq(Blocks)
      BY <1>3
    <3> QED
      BY <1>3, <1>7, <3>1, LenProperties
  <2> QED
    BY <1>5, <2>2, <2>3, <2>4
<1>16. \A s \in Requests : num_cached_block'[s] = IF s = r THEN c ELSE num_cached_block[s]
  BY <1>3, <1>9
<1>17. TableMatchesHashes'
  <2> SUFFICES ASSUME NEW s \in Requests, NEW j \in DOMAIN T'[s]
               PROVE  KeysOf(pool', T'[s][j])
                        \subseteq IF j <= num_cached_block'[s] THEN {BlockHashes[s][j]} ELSE {}
    BY Zenon DEF TableMatchesHashes
  <2>1. CASE s = r
    <3>1. T'[s] = table /\ num_cached_block'[s] = c
      BY <1>3, <1>16, <2>1
    <3> QED
      BY <1>10, <2>1, <3>1, ZenonT(30)
  <2>2. CASE s # r
    <3>1. T'[s] = T[s] /\ num_cached_block'[s] = num_cached_block[s] /\ j \in DOMAIN T[s]
      BY <1>3, <1>16, <2>2
    <3>2. KeysOf(pool, T[s][j])
            \subseteq IF j <= num_cached_block[s] THEN {BlockHashes[s][j]} ELSE {}
      BY <3>1, Zenon DEF IInv, TableMatchesHashes
    <3>3. CASE T[s][j] \notin Elems(table)
      <4>1. T[s][j] \in Blocks
        BY <1>4, <3>1 DEF Elems
      <4> QED
        BY <1>10, <3>1, <3>2, <3>3, <4>1
    <3>4. CASE T[s][j] \in Elems(table)
      <4>1. PICK i \in DOMAIN table : T[s][j] = table[i]
        BY <3>4 DEF Elems
      <4>2. i \in DOMAIN old /\ T[s][j] = old[i] /\ i <= first
        BY <1>15, <2>2, <3>1, <4>1, Zenon
      <4>3. KeysOf(pool', T[s][j]) = KeysOf(pool, T[s][j])
        BY <1>10, <4>2
      <4> QED
        BY <3>1, <3>2, <4>3
    <3> QED
      BY <3>3, <3>4, ZenonT(30)
  <2> QED
    BY <2>1, <2>2, Zenon
<1>18. UncachedUnshared'
  <2> SUFFICES ASSUME NEW s \in Requests, NEW t \in Requests, s # t,
                      NEW i \in DOMAIN T'[s], NEW j \in DOMAIN T'[t],
                      i > num_cached_block'[s], T'[s][i] = T'[t][j]
               PROVE  FALSE
    BY DEF UncachedUnshared
  <2>1. CASE s = r
    <3>1. /\ T'[s] = table /\ T'[t] = T[t] /\ num_cached_block'[s] = c
      BY <1>3, <1>16, <2>1, Zenon
    <3>2. i <= first
      BY <1>15, <2>1, <3>1
    <3>3. i \in Nat /\ i > c
      BY <1>7, <3>1
    <3> QED
      BY <1>5, <1>9, <3>2, <3>3
  <2>2. CASE t = r
    <3>1. T'[t] = table /\ T'[s] = T[s] /\ num_cached_block'[s] = num_cached_block[s]
      BY <1>3, <1>16, <2>2, Zenon
    <3>2. i <= num_cached_block[s] /\ i > num_cached_block[s]
      BY <1>15, <2>2, <3>1, Zenon
    <3>3. i \in Nat /\ num_cached_block[s] \in Nat
      <4>1. T[s] \in Seq(Blocks)
        BY <1>3
      <4> QED
        BY <1>3, <3>1, <4>1, LenProperties
    <3> QED
      BY <3>2, <3>3
  <2>3. CASE s # r /\ t # r
    <3>1. T'[s] = T[s] /\ T'[t] = T[t] /\ num_cached_block'[s] = num_cached_block[s]
      BY <1>3, <1>16, <2>3
    <3> QED
      BY <3>1, Zenon DEF IInv, UncachedUnshared
  <2> QED
    BY <2>1, <2>2, <2>3
<1>19. ASSUME NEW b \in Blocks, pool.ref_cnt[b] > 0
       PROVE  KeysOf(pool, b) \subseteq KeysOf(pool', b)
  <2>1. CASE b \notin Elems(table)
    BY <1>10, <2>1
  <2>2. CASE b \in Elems(table)
    <3>1. PICK i \in DOMAIN table : b = table[i]
      BY <2>2 DEF Elems
    <3>2. b \notin Elems(ret)
      BY <1>19 DEF AllocatedFrom
    <3>3. i \in DOMAIN old /\ b = old[i]
      BY <1>8, <3>1, <3>2
    <3> QED
      BY <1>10, <3>3, ZenonT(30)
  <2> QED
    BY <2>1, <2>2
<1> QED
  BY <1>11, <1>12, <1>13, <1>14, <1>17, <1>18, <1>19, <1>20 DEF IInv
=============================================================================
