---------------------------- MODULE TableLemmas -----------------------------
(***************************************************************************)
(* What an allocation of KVCacheManager rests on: the arithmetic of whole  *)
(* and partial blocks, the list that a prefix-cache lookup returns, the    *)
(* pool after the hit is touched and new blocks are taken, and the order   *)
(* of its queue after that and after a release.                            *)
(***************************************************************************)
EXTENDS KVCacheManager, PoolLemmas

----------------------------------------------------------------------------
(* Whole and partial blocks                                                *)

\* a \div b is the number of whole blocks of b tokens in a tokens.
LEMMA DivBounds ==
  ASSUME NEW a \in Nat, NEW b \in Nat \ {0}
  PROVE  /\ a \div b \in Nat
         /\ b * (a \div b) <= a
         /\ a < b * (a \div b) + b
  OBVIOUS

\* Multiples of b that are less than b apart are in order.
LEMMA MultipleOrder ==
  ASSUME NEW b \in Nat \ {0}, NEW x \in Int, NEW y \in Int, b * x < b * y + b
  PROVE  x <= y
<1>1. b * (y + 1) = b * y + b
  OBVIOUS
<1>2. x >= y + 1 => b * x >= b * (y + 1)
  OBVIOUS
<1> QED
  BY <1>1, <1>2

\* m tokens out of at most n fill no more whole blocks than n tokens need.
LEMMA FullBlocksFit ==
  ASSUME NEW n \in Nat, NEW m \in 0..n, NEW b \in Nat \ {0}
  PROVE  /\ m \div b \in Nat /\ cdiv(n, b) \in Nat
         /\ m \div b <= cdiv(n, b)
<1> DEFINE c == n + b - 1
<1>1. c \in Nat /\ m <= c
  OBVIOUS
<1>2. m \div b \in Nat /\ b * (m \div b) <= m
  BY DivBounds
<1>3. c \div b \in Nat /\ c < b * (c \div b) + b
  BY <1>1, DivBounds
<1> HIDE DEF c
<1>4. m \div b <= c \div b
  <2> DEFINE x == m \div b
             y == c \div b
  <2>1. x \in Int /\ y \in Int /\ b * x <= m /\ c < b * y + b
    BY <1>2, <1>3
  <2> HIDE DEF x, y
  <2>2. b * x \in Int /\ b * y \in Int
    BY <2>1
  <2>3. b * x < b * y + b
    BY <1>1, <2>1, <2>2
  <2>4. x <= y
    BY <2>1, <2>3, MultipleOrder
  <2> QED
    BY <2>4 DEF x, y
<1> QED
  BY <1>2, <1>3, <1>4 DEF c, cdiv

\* The blocks that n tokens need grow with n, and never exceed MaxBlocks.
LEMMA BlocksNeeded ==
  ASSUME NEW n \in 1..MaxTokens
  PROVE  /\ MaxBlocks \in Nat
         /\ cdiv(n, BlockSize) \in Nat
         /\ cdiv(n, BlockSize) <= MaxBlocks
<1>0. BlockSize \in Nat \ {0} /\ MaxTokens \in Nat
  BY ManagerAssumption
<1> DEFINE c == n + BlockSize - 1
           M == MaxTokens + BlockSize - 1
           x == c \div BlockSize
           y == M \div BlockSize
<1>1. c \in Nat /\ M \in Nat /\ c <= M
  BY <1>0
<1> HIDE DEF c, M
<1>2. /\ x \in Nat /\ BlockSize * x <= c
      /\ y \in Nat /\ M < BlockSize * y + BlockSize
  BY <1>0, <1>1, DivBounds
<1>3. x \in Int /\ y \in Int
  BY <1>2
<1> HIDE DEF x, y
<1>4. BlockSize * x \in Int /\ BlockSize * y \in Int
  BY <1>0, <1>3
<1>5. BlockSize * x < BlockSize * y + BlockSize
  BY <1>0, <1>1, <1>2, <1>4
<1>6. x <= y
  BY <1>0, <1>3, <1>5, MultipleOrder
<1> QED
  BY <1>2, <1>6 DEF c, M, x, y, cdiv, MaxBlocks

\* Tokens that fit into len blocks fill at most len of them.
LEMMA FullBlocksOfTable ==
  ASSUME NEW b \in Nat \ {0}, NEW len \in Nat, NEW n \in Nat, n <= b * len
  PROVE  n \div b \in Nat /\ n \div b <= len
<1> DEFINE x == n \div b
<1>1. x \in Nat /\ b * x <= n
  BY DivBounds
<1> HIDE DEF x
<1>2. b * x \in Int /\ b * len \in Int
  BY <1>1
<1>3. b * x < b * len + b
  BY <1>1, <1>2
<1>4. x <= len
  BY <1>1, <1>3, MultipleOrder
<1> QED
  BY <1>1, <1>4 DEF x

----------------------------------------------------------------------------
(* Lists without repetition                                                *)

\* A list without repetition has as many positions with an element of S as it
\* has elements in S.
LEMMA CountPositions ==
  ASSUME NEW A, NEW s \in Seq(A), NoDup(s), NEW S
  PROVE  /\ IsFiniteSet(Elems(s) \cap S)
         /\ Cardinality({i \in DOMAIN s : s[i] \in S}) = Cardinality(Elems(s) \cap S)
<1> DEFINE I == {i \in DOMAIN s : s[i] \in S}
           E == Elems(s) \cap S
           f == [i \in I |-> s[i]]
<1>1. IsFiniteSet(I)
  <2>1. Len(s) \in Nat /\ DOMAIN s = 1..Len(s)
    BY LenProperties
  <2>2. IsFiniteSet(DOMAIN s)
    BY <2>1, FS_Interval
  <2> QED
    BY <2>2, FS_Subset
<1>2. f \in Bijection(I, E)
  <2>1. f \in [I -> E]
    BY DEF Elems
  <2>2. \A i, j \in I : f[i] = f[j] => i = j
    BY DEF NoDup
  <2>3. \A e \in E : \E i \in I : f[i] = e
    BY DEF Elems
  <2> QED
    BY <2>1, <2>2, <2>3 DEF Bijection, Injection, Surjection, IsInjective
<1> QED
  BY <1>1, <1>2, FS_Bijection DEF ExistsBijection

\* The length of a list without repetition is the number of its elements.
LEMMA LenIsCardinality ==
  ASSUME NEW A, NEW s \in Seq(A), NoDup(s)
  PROVE  IsFiniteSet(Elems(s)) /\ Len(s) = Cardinality(Elems(s))
<1>1. Len(s) \in Nat /\ DOMAIN s = 1..Len(s) /\ \A i \in DOMAIN s : s[i] \in A
  BY LenProperties
<1>2. {i \in DOMAIN s : s[i] \in A} = 1..Len(s) /\ Elems(s) \cap A = Elems(s)
  BY <1>1 DEF Elems
<1>3. Cardinality(1..Len(s)) = Len(s)
  BY <1>1, FS_Interval
<1> QED
  BY <1>2, <1>3, CountPositions, Zenon

\* Where the elements of a concatenation come from.
LEMMA ConcatPositions ==
  ASSUME NEW A, NEW s \in Seq(A), NEW t \in Seq(A), NEW c, c = s \o t
  PROVE  /\ Len(s) \in Nat /\ DOMAIN s = 1..Len(s)
         /\ Len(c) \in Nat /\ DOMAIN c = 1..Len(c) /\ Len(c) = Len(s) + Len(t)
         /\ Len(s) <= Len(c) /\ \A i \in DOMAIN c : c[i] \in A
         /\ \A i \in DOMAIN s : i \in DOMAIN c /\ c[i] = s[i]
         /\ \A i \in DOMAIN c \ DOMAIN s : c[i] \in Elems(t)
<1>1. /\ Len(s) \in Nat /\ DOMAIN s = 1..Len(s)
      /\ Len(t) \in Nat /\ DOMAIN t = 1..Len(t)
  BY LenProperties
<1>2. /\ c \in Seq(A) /\ Len(c) = Len(s) + Len(t)
      /\ \A i \in 1 .. Len(s) + Len(t) :
           c[i] = IF i <= Len(s) THEN s[i] ELSE t[i - Len(s)]
  BY ConcatProperties
<1>3. Len(c) \in Nat /\ DOMAIN c = 1..Len(c) /\ \A i \in DOMAIN c : c[i] \in A
  BY <1>2, LenProperties
<1>4. \A i \in DOMAIN s : i \in DOMAIN c /\ c[i] = s[i]
  BY <1>1, <1>2, <1>3
<1>5. ASSUME NEW i \in DOMAIN c \ DOMAIN s PROVE c[i] \in Elems(t)
  <2>1. i - Len(s) \in DOMAIN t /\ c[i] = t[i - Len(s)]
    BY <1>1, <1>2, <1>3
  <2> QED
    BY <2>1 DEF Elems
<1> QED
  BY <1>1, <1>2, <1>3, <1>4, <1>5

----------------------------------------------------------------------------
(* The hit                                                                 *)

\* A set of naturals that contains 0, is bounded and has no gaps has a maximum.
LEMMA LongestExists ==
  ASSUME NEW L, NEW m \in Nat, L \subseteq 0..m, 0 \in L,
         \A n \in L : 0..n \subseteq L
  PROVE  \E n \in L : \A l \in L : l <= n
<1> DEFINE c == Cardinality(L) - 1
<1>1. IsFiniteSet(L) /\ Cardinality(L) \in Nat
  <2>1. IsFiniteSet(0..m)
    BY FS_Interval
  <2>2. IsFiniteSet(L)
    BY <2>1, FS_Subset, Zenon
  <2> QED
    BY <2>2, FS_CardinalityType
<1>2. \A n \in L : n <= c
  <2> SUFFICES ASSUME NEW n \in L PROVE n <= c
    OBVIOUS
  <2>1. n \in Nat /\ 0..n \in SUBSET L
    OBVIOUS
  <2>2. Cardinality(0..n) = n + 1
    BY <2>1, FS_Interval
  <2>3. Cardinality(0..n) <= Cardinality(L)
    BY <1>1, <2>1, FS_Subset
  <2> QED
    BY <1>1, <2>1, <2>2, <2>3
<1>3. c \in L
  <2> SUFFICES ASSUME c \notin L PROVE FALSE
    OBVIOUS
  <2>1. c \in Nat /\ c # 0
    BY <1>1, <1>2
  <2>2. L \in SUBSET (0 .. c - 1)
    BY <1>2, <2>1
  <2>3. IsFiniteSet(0 .. c - 1) /\ Cardinality(0 .. c - 1) = c
    BY <2>1, FS_Interval
  <2>4. Cardinality(L) <= c
    <3> DEFINE U == 0 .. c - 1
    <3>1. IsFiniteSet(U) /\ Cardinality(U) = c /\ L \in SUBSET U
      BY <2>2, <2>3
    <3> HIDE DEF U, c
    <3> QED
      BY <3>1, FS_Subset, Zenon
  <2> QED
    BY <1>1, <2>4
<1> QED
  BY <1>2, <1>3, Zenon

\* A lookup in a consistent pool whose blocks have at most one key each returns
\* different blocks, and the i-th is cached under the request's i-th hash.
LEMMA HitProperties ==
  ASSUME PoolInv(pool), \A b \in Blocks : \A k, l \in KeysOf(pool, b) : k = l,
         NEW r \in Requests, NEW num_tokens \in 1..MaxTokens
  PROVE  LET hit == get_computed_blocks(r, num_tokens)
         IN /\ hit \in Seq(Blocks) /\ NoDup(hit)
            /\ Len(hit) \in Nat /\ Len(hit) <= MaxBlocks /\ DOMAIN hit = 1..Len(hit)
            /\ \A i \in 1..Len(hit) : KeysOf(pool, hit[i]) = {BlockHashes[r][i]}
<1> DEFINE hit  == get_computed_blocks(r, num_tokens)
           len  == num_tokens - 1
           most == len \div BlockSize
           L    == HitLengths(r, len)
           n    == CHOOSE n \in L : \A m \in L : m <= n
           hash(i) == BlockHashes[r][i]
<1>0. BlockSize \in Nat \ {0} /\ MaxTokens \in Nat /\ len \in 0..num_tokens
  BY ManagerAssumption
<1>1. most \in Nat /\ most <= MaxBlocks /\ MaxBlocks \in Nat
  <2>1. num_tokens \in Nat
    BY <1>0
  <2>2. most \in Nat /\ most <= cdiv(num_tokens, BlockSize) /\ cdiv(num_tokens, BlockSize) \in Nat
    BY <1>0, <2>1, FullBlocksFit, Zenon
  <2>3. cdiv(num_tokens, BlockSize) <= MaxBlocks /\ MaxBlocks \in Nat
    BY BlocksNeeded
  <2> HIDE DEF most
  <2> QED
    BY <2>2, <2>3
<1>2. CASE ~EnableCaching
  <2>1. hit = <<>>
    BY <1>2 DEF get_computed_blocks
  <2> QED
    BY <1>1, <2>1 DEF NoDup
<1>3. CASE EnableCaching
  <2>1. n \in L
    <3>1. L \subseteq 0..most /\ 0 \in L /\ \A l \in L : 0..l \subseteq L
      <4> HIDE DEF most
      <4>1. L = {l \in 0..most : \A i \in 1..l : get_one_block(pool, BlockHashes[r][i]) # NullBlock}
        BY DEF HitLengths, most
      <4> QED
        BY <1>1, <4>1
    <3> HIDE DEF L, most
    <3>2. \E l \in L : \A m \in L : m <= l
      BY <1>1, <3>1, LongestExists, Zenon
    <3> QED
      BY <3>2
  <2>2. n \in 0..most /\ \A i \in 1..n : get_one_block(pool, hash(i)) # NullBlock
    BY <2>1 DEF HitLengths
  <2>3. hit = [i \in 1..n |-> get_one_block(pool, hash(i))]
    BY <1>3 DEF get_computed_blocks, find_longest_cache_hit
  <2> HIDE DEF n, most, hit
  <2>4. n \in Nat /\ n <= MaxBlocks /\ 1..n \subseteq 1..MaxBlocks
    BY <1>1, <2>2
  <2>5. \A i \in 1..n : hash(i) \in Keys
    <3>1. BlockHashes[r] \in [1..MaxBlocks -> Keys]
      BY ManagerAssumption
    <3> QED
      BY <2>4, <3>1, Zenon
  <2>6. \A i \in 1..n : hit[i] \in Blocks /\ KeysOf(pool, hit[i]) = {hash(i)}
    <3> SUFFICES ASSUME NEW i \in 1..n
                 PROVE  hit[i] \in Blocks /\ KeysOf(pool, hit[i]) = {hash(i)}
      OBVIOUS
    <3> DEFINE k == hash(i)
    <3>1. k \in Keys
      BY <2>5
    <3> HIDE DEF k
    <3>2. hit[i] = get_one_block(pool, k) /\ get_one_block(pool, k) # NullBlock
      BY <2>2, <2>3 DEF k
    <3>3. pool.cached[k] \in Seq(Blocks) /\ pool.cached[k] # <<>>
      BY <3>1, <3>2 DEF PoolInv, PoolType, get_one_block
    <3>4. 1 \in DOMAIN pool.cached[k] /\ hit[i] = pool.cached[k][1]
      BY <3>2, <3>3, EmptySeq, LenProperties DEF get_one_block
    <3>5. hit[i] \in Elems(pool.cached[k])
      BY <3>4 DEF Elems
    <3>6. hit[i] \in Blocks /\ k \in KeysOf(pool, hit[i])
      BY <3>1, <3>5 DEF PoolInv, HashMapInv
    <3>7. KeysOf(pool, hit[i]) = {k}
      BY <3>6
    <3> QED
      BY <3>6, <3>7 DEF k
  <2>7. hit \in Seq(Blocks) /\ Len(hit) = n /\ DOMAIN hit = 1..n
    <3>1. hit \in [1..n -> Blocks]
      BY <2>3, <2>6
    <3>2. hit \in Seq(Blocks)
      BY <2>4, <3>1, SeqDef
    <3> QED
      BY <2>4, <3>1, <3>2, LenProperties
  <2>8. NoDup(hit)
    <3> SUFFICES ASSUME NEW i \in 1..n, NEW j \in 1..n, hit[i] = hit[j] PROVE i = j
      BY <2>7 DEF NoDup
    <3>1. hash(i) = hash(j)
      BY <2>6
    <3>2. i \in 1..MaxBlocks /\ j \in 1..MaxBlocks
      BY <2>4
    <3> QED
      BY <3>1, <3>2, ManagerAssumption
  <2> QED
    BY <2>4, <2>6, <2>7, <2>8 DEF hit
<1> QED
  BY <1>2, <1>3, Zenon

----------------------------------------------------------------------------
(* The pool after an allocation                                            *)

\* Once the hit is touched, a free list that held enough blocks for the hit and
\* for n more still holds n: the capacity check of allocate_slots is exact.
LEMMA EnoughAfterTouch ==
  ASSUME PoolInv(pool), NEW hit \in Seq(Blocks), NoDup(hit), NEW n \in Nat,
         n + NumEvictable(hit) <= get_num_free_blocks(pool)
  PROVE  n \in 0..Len(touch(pool, hit).free)
<1> DEFINE t == touch(pool, hit)
           Free == {b \in Blocks : pool.ref_cnt[b] = 0}
           Idle == Elems(hit) \cap Free
<1>1. /\ PoolInv(t)
      /\ t.free = Filter(pool.free, {b \in Blocks : b \notin Elems(hit) \/ pool.ref_cnt[b] # 0})
  BY TouchInv, Zenon
<1>2. /\ pool.free \in Seq(Blocks) /\ NoDup(pool.free) /\ Elems(pool.free) = Free
      /\ t.free \in Seq(Blocks) /\ NoDup(t.free)
  BY <1>1 DEF PoolInv, PoolType, FreeQueueInv
<1>3. Elems(t.free) = Free \ Idle
  <2> DEFINE keep == {b \in Blocks : b \notin Elems(hit) \/ pool.ref_cnt[b] # 0}
  <2>1. Elems(t.free) = Elems(pool.free) \cap keep
    BY <1>1, <1>2, FilterProperties
  <2> QED
    BY <1>2, <2>1
<1>4. NumEvictable(hit) = Cardinality(Idle)
  <2>1. \A i \in DOMAIN hit : hit[i] \in Blocks
    BY LenProperties
  <2>2. {i \in DOMAIN hit : pool.ref_cnt[hit[i]] = 0} = {i \in DOMAIN hit : hit[i] \in Free}
    BY <2>1
  <2> QED
    BY <2>2, CountPositions, Zenon DEF NumEvictable
<1> HIDE DEF t, Free, Idle
<1>5. /\ IsFiniteSet(Free) /\ Len(pool.free) = Cardinality(Free)
      /\ Len(t.free) = Cardinality(Free \ Idle)
  BY <1>2, <1>3, LenIsCardinality, Zenon
<1>6. Cardinality(Free \ Idle) = Cardinality(Free) - Cardinality(Idle)
  <2>1. Free \cap Idle = Idle
    BY DEF Idle
  <2>2. Cardinality(Free \ Idle) = Cardinality(Free) - Cardinality(Free \cap Idle)
    BY <1>5, FS_Difference, Zenon
  <2> QED
    BY <2>1, <2>2, Zenon
<1>7. Len(pool.free) \in Nat /\ Len(t.free) \in Nat /\ Cardinality(Idle) \in Nat
  <2>1. Idle \in SUBSET Free
    BY DEF Idle
  <2> QED
    <3>1. IsFiniteSet(Idle)
      BY <1>5, <2>1, FS_Subset
    <3> QED
      BY <1>2, <3>1, LenProperties, FS_CardinalityType
<1>8. n <= Len(t.free)
  BY <1>4, <1>5, <1>6, <1>7 DEF get_num_free_blocks
<1> QED
  BY <1>7, <1>8 DEF t

\* After the hit is touched and n blocks are taken, the blocks of the hit and the
\* new ones, which had no holder and are not in the hit, have one holder more;
\* only the new ones have lost their keys.
LEMMA AllocatedPool ==
  ASSUME PoolInv(pool), NEW hit \in Seq(Blocks), NoDup(hit), NEW n \in Nat,
         n + NumEvictable(hit) <= get_num_free_blocks(pool)
  PROVE  LET ret == NewBlocks(touch(pool, hit), n)
             q   == get_new_blocks(touch(pool, hit), n)
         IN /\ PoolInv(q)
            /\ ret \in Seq(Blocks) /\ NoDup(ret) /\ Len(ret) = n
            /\ Elems(ret) \cap Elems(hit) = {}
            /\ \A b \in Elems(ret) : b \in Blocks /\ pool.ref_cnt[b] = 0
            /\ \A b \in Blocks : q.ref_cnt[b] = pool.ref_cnt[b]
                                   + (IF b \in Elems(hit) \cup Elems(ret) THEN 1 ELSE 0)
            /\ \A b \in Blocks \ Elems(ret) : KeysOf(q, b) = KeysOf(pool, b)
            /\ EnableCaching => \A b \in Elems(ret) : KeysOf(q, b) = {}
            /\ ~EnableCaching => \A b \in Blocks : KeysOf(q, b) = KeysOf(pool, b)
<1> DEFINE t   == touch(pool, hit)
           ret == NewBlocks(t, n)
           q   == get_new_blocks(t, n)
<1>1. /\ PoolInv(t)
      /\ \A b \in Blocks : /\ KeysOf(t, b) = KeysOf(pool, b)
                           /\ t.ref_cnt[b] = pool.ref_cnt[b] + (IF b \in Elems(hit) THEN 1 ELSE 0)
  BY TouchInv, Zenon
<1>2. n \in 0..Len(t.free)
  BY EnoughAfterTouch
<1>3. pool.ref_cnt \in [Blocks -> Nat]
  BY DEF PoolInv, PoolType
<1> HIDE DEF t
<1>4. /\ PoolInv(q)
      /\ ret \in Seq(Blocks) /\ NoDup(ret) /\ Len(ret) = n
      /\ \A b \in Elems(ret) : b \in Blocks /\ t.ref_cnt[b] = 0 /\ q.ref_cnt[b] = 1
      /\ \A b \in Blocks \ Elems(ret) : q.ref_cnt[b] = t.ref_cnt[b] /\ KeysOf(q, b) = KeysOf(t, b)
      /\ EnableCaching => \A b \in Elems(ret) : KeysOf(q, b) = {}
  BY <1>1, <1>2, GetNewBlocksInv
<1>5. ~EnableCaching => \A b \in Blocks : KeysOf(q, b) = KeysOf(t, b)
  <2> SUFFICES ASSUME ~EnableCaching PROVE \A b \in Blocks : KeysOf(q, b) = KeysOf(t, b)
    OBVIOUS
  <2>1. q.block_hash = t.block_hash /\ q.more = t.more
    <3> DEFINE cnt == [b \in Blocks |-> IF b \in Elems(NewBlocks(t, n)) THEN t.ref_cnt[b] + 1 ELSE t.ref_cnt[b]]
               fr  == SubSeq(t.free, n + 1, Len(t.free))
    <3>1. q = [t EXCEPT !.ref_cnt = cnt, !.free = fr]
      BY DEF get_new_blocks
    <3> HIDE DEF cnt, fr, q
    <3> QED
      BY <1>1, <3>1 DEF PoolInv, PoolType
  <2> HIDE DEF q
  <2> QED
    BY <2>1 DEF KeysOf
<1> HIDE DEF ret, q
<1>6. \A b \in Elems(ret) : b \notin Elems(hit) /\ pool.ref_cnt[b] = 0
  BY <1>1, <1>3, <1>4
<1>7. \A b \in Blocks : q.ref_cnt[b] = pool.ref_cnt[b]
                           + (IF b \in Elems(hit) \cup Elems(ret) THEN 1 ELSE 0)
  <2> SUFFICES ASSUME NEW b \in Blocks
               PROVE  q.ref_cnt[b] = pool.ref_cnt[b]
                                       + (IF b \in Elems(hit) \cup Elems(ret) THEN 1 ELSE 0)
    OBVIOUS
  <2>1. pool.ref_cnt[b] \in Nat
    BY <1>3
  <2>2. CASE b \in Elems(ret)
    BY <1>4, <1>6, <2>2
  <2>3. CASE b \notin Elems(ret)
    BY <1>1, <1>4, <2>1, <2>3
  <2> QED
    BY <2>2, <2>3
<1> QED
  BY <1>1, <1>4, <1>5, <1>6, <1>7 DEF t, ret, q

----------------------------------------------------------------------------
(* The order of a list                                                     *)

\* b comes before c in the list.
Before(s, b, c) == \E i, j \in DOMAIN s : i < j /\ s[i] = b /\ s[j] = c

\* A filter keeps the order of what it keeps.
LEMMA FilterBefore ==
  ASSUME NEW A, NEW s \in Seq(A), NEW S, NEW b, NEW c
  PROVE  Before(Filter(s, S), b, c) <=> Before(s, b, c) /\ b \in S /\ c \in S
<1> DEFINE K == Kept(s, S)
           N == Cardinality(K)
           F == Filter(s, S)
           rank(i) == Rank(s, S, i)
<1>1. PICK at \in [1..N -> K] :
        /\ \A k \in 1..N : F[k] = s[at[k]] /\ rank(at[k]) = k
        /\ \A i \in K : at[rank(i)] = i
  BY FilterIndex
<1>2. N \in Nat /\ \A i \in K : rank(i) \in 1..N
  BY KeptFinite
<1>3. DOMAIN s = 1..Len(s) /\ Len(s) \in Nat /\ K = {i \in DOMAIN s : s[i] \in S}
  BY LenProperties DEF Kept
<1>4. DOMAIN F = 1..N
  BY DEF Filter
<1>5. \A i, j \in K : i < j => rank(i) < rank(j)
  BY RankIncreases
<1> HIDE DEF K, N, F, rank
<1>6. ASSUME Before(F, b, c) PROVE Before(s, b, c) /\ b \in S /\ c \in S
  <2>1. PICK k, m \in 1..N : k < m /\ F[k] = b /\ F[m] = c
    BY <1>4, <1>6 DEF Before
  <2>2. /\ at[k] \in K /\ at[m] \in K /\ s[at[k]] = b /\ s[at[m]] = c
        /\ rank(at[k]) = k /\ rank(at[m]) = m
    BY <1>1, <2>1
  <2>3. at[k] \in Int /\ at[m] \in Int /\ ~(m < k) /\ m # k
    BY <1>2, <1>3, <2>1, <2>2
  <2>4. at[k] < at[m]
    BY <1>5, <2>2, <2>3
  <2> QED
    BY <1>3, <2>2, <2>4 DEF Before
<1>7. ASSUME Before(s, b, c), b \in S, c \in S PROVE Before(F, b, c)
  <2>1. PICK i, j \in DOMAIN s : i < j /\ s[i] = b /\ s[j] = c
    BY <1>7 DEF Before
  <2>2. i \in K /\ j \in K
    BY <1>3, <1>7, <2>1
  <2>3. rank(i) < rank(j) /\ rank(i) \in 1..N /\ rank(j) \in 1..N
    BY <1>2, <1>5, <2>1, <2>2
  <2>4. F[rank(i)] = b /\ F[rank(j)] = c
    BY <1>1, <2>1, <2>2, <2>3
  <2> QED
    BY <1>4, <2>3, <2>4 DEF Before
<1> QED
  BY <1>6, <1>7 DEF F

\* What is left of a list after its first elements keeps its order, and nothing
\* that comes after one of its elements is lost.
LEMMA RestBefore ==
  ASSUME NEW A, NEW s \in Seq(A), NEW n \in 0..Len(s), NoDup(s), NEW b, NEW c
  PROVE  LET rest == SubSeq(s, n + 1, Len(s))
         IN Before(rest, b, c) <=> Before(s, b, c) /\ b \in Elems(rest)
<1> DEFINE rest == SubSeq(s, n + 1, Len(s))
           m    == Len(s)
<1>1. m \in Nat /\ n \in Nat /\ n <= m /\ DOMAIN s = 1..m /\ \A i \in 1..m : s[i] \in A
  BY LenProperties
<1>2. rest \in Seq(A) /\ Len(rest) = m - n /\ \A i \in 1..(m - n) : rest[i] = s[n + i]
  <2>1. \A i \in (n + 1)..m : s[i] \in A
    BY <1>1
  <2>2. /\ rest \in Seq(A)
        /\ Len(rest) = IF n + 1 <= m THEN m - (n + 1) + 1 ELSE 0
        /\ \A i \in 1..(m - (n + 1) + 1) : rest[i] = s[(n + 1) + i - 1]
    <3> n + 1 \in Int /\ m \in Int
      BY <1>1
    <3> QED
      BY <2>1, SubSeqProperties
  <2>3. m - (n + 1) + 1 = m - n /\ \A i \in Int : (n + 1) + i - 1 = n + i
    BY <1>1
  <2> HIDE DEF rest, m
  <2> QED
    BY <1>1, <2>2, <2>3
<1>3. DOMAIN rest = 1..(m - n)
  BY <1>2, LenProperties
<1> HIDE DEF rest, m
<1>4. ASSUME Before(rest, b, c) PROVE Before(s, b, c) /\ b \in Elems(rest)
  <2>1. PICK i, j \in 1..(m - n) : i < j /\ rest[i] = b /\ rest[j] = c
    BY <1>3, <1>4 DEF Before
  <2>2. n + i \in 1..m /\ n + j \in 1..m /\ n + i < n + j /\ s[n + i] = b /\ s[n + j] = c
    BY <1>1, <1>2, <2>1
  <2> QED
    BY <1>1, <1>3, <2>1, <2>2 DEF Before, Elems
<1>5. ASSUME Before(s, b, c), b \in Elems(rest) PROVE Before(rest, b, c)
  <2>1. PICK i, j \in 1..m : i < j /\ s[i] = b /\ s[j] = c
    BY <1>1, <1>5 DEF Before
  <2>2. PICK k \in 1..(m - n) : rest[k] = b
    BY <1>3, <1>5 DEF Elems
  <2>3. n + k \in 1..m /\ s[n + k] = b
    BY <1>1, <1>2, <2>2
  <2>4. i = n + k
    BY <1>1, <2>1, <2>3 DEF NoDup
  <2>5. j - n \in 1..(m - n) /\ k < j - n /\ n + (j - n) = j
    BY <1>1, <2>1, <2>2, <2>4
  <2>6. rest[j - n] = c
    BY <1>2, <2>1, <2>5
  <2> QED
    BY <1>3, <2>2, <2>5, <2>6 DEF Before
<1> QED
  BY <1>4, <1>5 DEF rest, m

\* The order of a concatenation.
LEMMA ConcatBefore ==
  ASSUME NEW A, NEW s \in Seq(A), NEW t \in Seq(A), NEW b, NEW c
  PROVE  Before(s \o t, b, c) <=> \/ Before(s, b, c)
                                  \/ b \in Elems(s) /\ c \in Elems(t)
                                  \/ Before(t, b, c)
<1> DEFINE m == Len(s)
           n == Len(t)
           u == s \o t
<1>1. /\ m \in Nat /\ n \in Nat /\ DOMAIN s = 1..m /\ DOMAIN t = 1..n
      /\ u \in Seq(A) /\ DOMAIN u = 1..(m + n)
      /\ \A i \in 1..(m + n) : u[i] = IF i <= m THEN s[i] ELSE t[i - m]
  BY LenProperties, ConcatProperties
<1> HIDE DEF m, n, u
<1>2. /\ \A i \in 1..m : i \in 1..(m + n) /\ u[i] = s[i]
      /\ \A i \in 1..n : m + i \in 1..(m + n) /\ m + i > m /\ u[m + i] = t[i]
  <2>1. \A i \in 1..m : i \in 1..(m + n) /\ u[i] = s[i]
    BY <1>1
  <2>2. ASSUME NEW i \in 1..n PROVE m + i \in 1..(m + n) /\ m + i > m /\ u[m + i] = t[i]
    <3>1. m + i \in 1..(m + n) /\ m + i > m /\ ~(m + i <= m) /\ (m + i) - m = i
      BY <1>1
    <3> QED
      BY <1>1, <3>1
  <2> QED
    BY <2>1, <2>2
<1>3. ASSUME Before(u, b, c)
      PROVE  Before(s, b, c) \/ (b \in Elems(s) /\ c \in Elems(t)) \/ Before(t, b, c)
  <2>1. PICK i, j \in 1..(m + n) : i < j /\ u[i] = b /\ u[j] = c
    BY <1>1, <1>3 DEF Before
  <2>2. CASE j <= m
    <3>1. i \in 1..m /\ j \in 1..m
      BY <1>1, <2>1, <2>2
    <3> QED
      BY <1>1, <1>2, <2>1, <3>1, Zenon DEF Before
  <2>3. CASE i <= m /\ ~(j <= m)
    <3>1. i \in 1..m /\ j - m \in 1..n
      BY <1>1, <2>1, <2>3
    <3>2. s[i] = b /\ t[j - m] = c
      BY <1>1, <2>1, <2>3
    <3> QED
      BY <1>1, <3>1, <3>2 DEF Elems
  <2>4. CASE ~(i <= m)
    <3>1. i - m \in 1..n /\ j - m \in 1..n /\ i - m < j - m /\ ~(j <= m)
      BY <1>1, <2>1, <2>4
    <3>2. t[i - m] = b /\ t[j - m] = c
      BY <1>1, <2>1, <2>4, <3>1
    <3> QED
      BY <1>1, <3>1, <3>2, Zenon DEF Before
  <2> QED
    BY <2>2, <2>3, <2>4
<1>4. ASSUME Before(s, b, c) PROVE Before(u, b, c)
  BY <1>1, <1>2, <1>4 DEF Before
<1>5. ASSUME b \in Elems(s), c \in Elems(t) PROVE Before(u, b, c)
  <2>1. PICK i \in 1..m, j \in 1..n : s[i] = b /\ t[j] = c
    BY <1>1, <1>5 DEF Elems
  <2>2. i < m + j
    BY <1>1
  <2> QED
    BY <1>1, <1>2, <2>1, <2>2, Zenon DEF Before
<1>6. ASSUME Before(t, b, c) PROVE Before(u, b, c)
  <2>1. PICK i, j \in 1..n : i < j /\ t[i] = b /\ t[j] = c
    BY <1>1, <1>6 DEF Before
  <2>2. m + i < m + j
    BY <1>1, <2>1
  <2> QED
    BY <1>1, <1>2, <2>1, <2>2, Zenon DEF Before
<1> QED
  BY <1>3, <1>4, <1>5, <1>6 DEF u

\* Backwards.
LEMMA ReversedBefore ==
  ASSUME NEW A, NEW s \in Seq(A), NEW b, NEW c, Before(s, c, b)
  PROVE  Before(Reversed(s), b, c)
<1> DEFINE n == Len(s)
           R == Reversed(s)
<1>1. n \in Nat /\ DOMAIN s = 1..n
  BY LenProperties
<1>2. DOMAIN R = 1..n /\ \A i \in 1..n : R[i] = s[n + 1 - i]
  BY <1>1 DEF Reversed
<1> HIDE DEF n, R
<1>3. PICK i, j \in 1..n : i < j /\ s[i] = c /\ s[j] = b
  BY <1>1 DEF Before
<1>4. /\ n + 1 - i \in 1..n /\ n + 1 - j \in 1..n /\ n + 1 - j < n + 1 - i
      /\ n + 1 - (n + 1 - i) = i /\ n + 1 - (n + 1 - j) = j
  BY <1>1, <1>3
<1>5. R[n + 1 - i] = c /\ R[n + 1 - j] = b
  BY <1>2, <1>3, <1>4
<1> QED
  BY <1>2, <1>4, <1>5 DEF Before, R

----------------------------------------------------------------------------
(* The order of the free queue after a call of the pool                    *)

\* Allocation takes the blocks of the hit out of the queue and then the first
\* ones: the rest keeps its order, and whatever came after one of the rest is
\* still there unless it was hit.
LEMMA AllocatedOrder ==
  ASSUME PoolInv(pool), NEW hit \in Seq(Blocks), NoDup(hit), NEW n \in Nat,
         n + NumEvictable(hit) <= get_num_free_blocks(pool), NEW b, NEW c
  PROVE  LET q == get_new_blocks(touch(pool, hit), n)
         IN /\ Before(q.free, b, c) => Before(pool.free, b, c)
            /\ b \in Elems(q.free) /\ Before(pool.free, b, c)
                 => c \in Elems(hit) \/ Before(q.free, b, c)
<1> DEFINE t    == touch(pool, hit)
           ret  == Elems(NewBlocks(t, n))
           u    == _remove_cached_block_hashes(t, ret)
           v    == IF EnableCaching THEN u ELSE t
           q    == get_new_blocks(t, n)
           keep == {d \in Blocks : d \notin Elems(hit) \/ pool.ref_cnt[d] # 0}
           rest == SubSeq(t.free, n + 1, Len(t.free))
<1>1. /\ PoolInv(t) /\ t.free = Filter(pool.free, keep)
      /\ pool.free \in Seq(Blocks) /\ t.free \in Seq(Blocks) /\ NoDup(t.free)
  <2>1. PoolInv(t) /\ t.free = Filter(pool.free, keep)
    BY TouchInv, Zenon
  <2> HIDE DEF t
  <2> QED
    BY <2>1 DEF PoolInv, PoolType, FreeQueueInv
<1>2. n \in 0..Len(t.free)
  BY EnoughAfterTouch
<1> HIDE DEF t
<1>3. v \in PoolType
  <2>1. PoolInv(u)
    BY <1>1, RemoveHashesInv
  <2> HIDE DEF u
  <2> QED
    BY <1>1, <2>1 DEF PoolInv
<1>4. q.free = rest
  <2> DEFINE cnt == [d \in Blocks |-> IF d \in ret THEN v.ref_cnt[d] + 1 ELSE v.ref_cnt[d]]
  <2>1. q = [v EXCEPT !.ref_cnt = cnt, !.free = rest]
    BY DEF get_new_blocks
  <2> HIDE DEF cnt, rest, q, v
  <2> QED
    BY <1>3, <2>1 DEF PoolType
<1> HIDE DEF q
<1>5. Before(rest, b, c) <=> Before(t.free, b, c) /\ b \in Elems(rest)
  BY <1>1, <1>2, RestBefore
<1>6. Before(t.free, b, c) <=> Before(pool.free, b, c) /\ b \in keep /\ c \in keep
  <2> HIDE DEF keep
  <2>1. Before(Filter(pool.free, keep), b, c) <=> Before(pool.free, b, c) /\ b \in keep /\ c \in keep
    BY <1>1, FilterBefore
  <2> QED
    BY <1>1, <2>1
<1>7. Elems(rest) \subseteq keep
  <2> HIDE DEF keep
  <2>1. Elems(rest) = Elems(t.free) \ Elems(SubSeq(t.free, 1, n))
    BY <1>1, <1>2, SplitElems
  <2>2. Elems(t.free) = Elems(pool.free) \cap keep
    BY <1>1, FilterProperties
  <2> QED
    BY <2>1, <2>2
<1>8. Before(pool.free, b, c) => c \in Blocks /\ pool.ref_cnt[c] = 0
  BY DEF Before, PoolInv, FreeQueueInv, Elems
<1> HIDE DEF rest
<1> QED
  BY <1>4, <1>5, <1>6, <1>7, <1>8 DEF q, t

\* free_blocks puts the keyless blocks it frees in front of the queue, and those
\* with a key behind it in the order of the list.
LEMMA FreedOrder ==
  ASSUME NEW p, PoolInv(p), NEW ordered \in Seq(Blocks),
         ~EnableCaching => \A b \in Blocks : KeysOf(p, b) = {},
         NEW b \in Blocks, NEW c \in Blocks
  PROVE  LET q == free_blocks(p, ordered)
             Freed(d) == d \in Elems(ordered) /\ p.ref_cnt[d] = 1
         IN /\ Before(p.free, b, c) => Before(q.free, b, c)
            /\ b \in Elems(p.free) /\ Freed(c) /\ KeysOf(p, c) # {} => Before(q.free, b, c)
            /\ /\ Before(ordered, b, c) /\ Freed(b) /\ Freed(c)
               /\ KeysOf(p, b) # {} /\ KeysOf(p, c) # {}
               => Before(q.free, b, c)
            /\ Before(q.free, b, c) /\ KeysOf(p, c) = {}
                 => KeysOf(p, b) = {} \/ Before(p.free, b, c)
<1> DEFINE freed == {d \in Elems(ordered) \ {NullBlock} : p.ref_cnt[d] = 1}
           early == {d \in freed : p.block_hash[d] = NoHash \/ ~EnableCaching}
           cnt   == [d \in Blocks |-> IF d \in Elems(ordered) THEN p.ref_cnt[d] - 1 ELSE p.ref_cnt[d]]
           front == Filter(ordered, early)
           back  == Filter(ordered, freed \ early)
           fr    == front \o p.free \o back
           q     == free_blocks(p, ordered)
<1>1. q.free = fr /\ p.free \in Seq(Blocks)
  <2>1. q = [p EXCEPT !.ref_cnt = cnt, !.free = fr]
    BY DEF free_blocks
  <2>2. p \in PoolType
    BY DEF PoolInv
  <2> HIDE DEF cnt, fr, q
  <2> QED
    BY <2>1, <2>2 DEF PoolType
<1>2. \A d \in Blocks : KeysOf(p, d) = {} <=> p.block_hash[d] = NoHash
  BY DEF PoolInv, HashMapInv, KeysOf
<1>3. /\ \A d \in early : d \in Blocks => KeysOf(p, d) = {}
      /\ \A d \in freed \ early : d \in Blocks => KeysOf(p, d) # {}
      /\ \A d \in Blocks : d \in freed <=> d \in Elems(ordered) /\ p.ref_cnt[d] = 1
      /\ \A d \in freed : d \in Elems(ordered)
  BY <1>2, PoolAssumption
<1>4. \A d \in Blocks : d \in freed /\ KeysOf(p, d) # {} => d \in freed \ early
  BY <1>3
<1> HIDE DEF freed, early, q
<1>5. /\ front \in Seq(Blocks) /\ Elems(front) = Elems(ordered) \cap early
      /\ back \in Seq(Blocks) /\ Elems(back) = Elems(ordered) \cap (freed \ early)
  BY FilterProperties
<1>6. Before(back, b, c) <=> Before(ordered, b, c) /\ b \in freed \ early /\ c \in freed \ early
  BY FilterBefore
<1>7. Before(front, b, c) => b \in early
  BY FilterBefore
<1> HIDE DEF front, back
<1> DEFINE fp == front \o p.free
<1>8. /\ fp \in Seq(Blocks) /\ Elems(fp) = Elems(front) \cup Elems(p.free)
      /\ Before(fp, b, c) <=> \/ Before(front, b, c)
                              \/ b \in Elems(front) /\ c \in Elems(p.free)
                              \/ Before(p.free, b, c)
  BY <1>1, <1>5, ConcatElems, ConcatBefore
<1> HIDE DEF fp
<1>9. Before(fp \o back, b, c) <=> \/ Before(fp, b, c)
                                   \/ b \in Elems(fp) /\ c \in Elems(back)
                                   \/ Before(back, b, c)
  BY <1>5, <1>8, ConcatBefore
<1>10. q.free = fp \o back
  BY <1>1 DEF fp
<1>11. Before(p.free, b, c) => Before(q.free, b, c)
  BY <1>8, <1>9, <1>10
<1>12. b \in Elems(p.free) /\ c \in Elems(ordered) /\ p.ref_cnt[c] = 1 /\ KeysOf(p, c) # {}
         => Before(q.free, b, c)
  BY <1>3, <1>4, <1>5, <1>8, <1>9, <1>10
<1>13. /\ Before(ordered, b, c) /\ b \in Elems(ordered) /\ p.ref_cnt[b] = 1
       /\ c \in Elems(ordered) /\ p.ref_cnt[c] = 1 /\ KeysOf(p, b) # {} /\ KeysOf(p, c) # {}
       => Before(q.free, b, c)
  BY <1>3, <1>4, <1>6, <1>9, <1>10
<1>14. Before(q.free, b, c) /\ KeysOf(p, c) = {} => KeysOf(p, b) = {} \/ Before(p.free, b, c)
  <2> SUFFICES ASSUME Before(q.free, b, c), KeysOf(p, c) = {}, KeysOf(p, b) # {}
               PROVE  Before(p.free, b, c)
    OBVIOUS
  <2>1. c \notin freed \ early /\ b \notin early
    BY <1>3
  <2> QED
    BY <1>5, <1>6, <1>7, <1>8, <1>9, <1>10, <2>1
<1> QED
  BY <1>11, <1>12, <1>13, <1>14 DEF q
=============================================================================
