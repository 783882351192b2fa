--------------------------- MODULE BlockPoolProofs ---------------------------
(***************************************************************************)
(* Any client that respects the preconditions of the pool's methods keeps  *)
(* the pool consistent.                                                    *)
(***************************************************************************)
EXTENDS BlockPoolClient, PoolLemmas

\* The pool stays consistent under any legal client: for every number of blocks
\* and keys, the free queue is exactly the set of blocks without holders, and
\* the hash map is exactly the relation that the blocks' hashes describe.
THEOREM PoolStaysConsistent == Spec => []PoolConsistent
<1>1. Init => PoolConsistent
  BY InitialPoolInv DEF Init, PoolConsistent
<1>2. PoolConsistent /\ [Next]_pool => PoolConsistent'
  <2> SUFFICES ASSUME PoolInv(pool), [Next]_pool PROVE PoolInv(pool')
    BY DEF PoolConsistent
  <2>1. \A S : \A s \in Lists(S) : s \in Seq(S) /\ NoDup(s) /\ Elems(s) \subseteq S
    <3> SUFFICES ASSUME NEW S, NEW n \in 1..MaxList, NEW s \in [1..n -> S], NoDup(s)
                 PROVE  s \in Seq(S) /\ Elems(s) \subseteq S
      BY DEF Lists
    <3>1. n \in Nat
      BY ClientAssumption
    <3> QED
      BY <3>1, SeqDef DEF Elems
  <2>2. Held \subseteq Blocks /\ pool.free \in Seq(Blocks) /\ pool.ref_cnt \in [Blocks -> Nat]
    BY DEF Held, PoolInv, PoolType
  <2>3. CASE GetNewBlocks
    <3>1. PICK n \in 1..MaxList : n <= Len(pool.free) /\ pool' = get_new_blocks(pool, n)
      BY <2>3 DEF GetNewBlocks, get_num_free_blocks
    <3>2. n \in 0..Len(pool.free)
      BY <2>2, <3>1, ClientAssumption, LenProperties
    <3> QED
      BY <3>1, <3>2, GetNewBlocksInv
  <2>4. CASE Touch
    <3>1. PICK s \in Lists({b \in Blocks : pool.ref_cnt[b] < MaxRef}) : pool' = touch(pool, s)
      BY <2>4 DEF Touch
    <3>2. s \in Seq(Blocks)
      BY <2>1, SeqMonotonic
    <3> QED
      BY <3>1, <3>2, TouchInv
  <2>5. CASE FreeBlocks
    <3>1. PICK s \in Lists(Held) : pool' = free_blocks(pool, s)
      BY <2>5 DEF FreeBlocks
    <3>2. s \in Seq(Blocks) /\ NoDup(s) /\ \A b \in Elems(s) : pool.ref_cnt[b] > 0
      <4>1. s \in Seq(Held) /\ NoDup(s) /\ Elems(s) \subseteq Held
        BY <2>1
      <4> QED
        BY <2>2, <4>1, SeqMonotonic DEF Held
    <3> QED
      BY <3>1, <3>2, FreeBlocksInv
  <2>6. CASE CacheFullBlocks
    <3>1. PICK s \in Lists(Held), ks \in Lists(Keys) :
            Len(ks) = Len(s) /\ pool' = cache_full_blocks(pool, s, ks, 0, Len(s))
      BY <2>6 DEF CacheFullBlocks
    <3>2. s \in Seq(Blocks) /\ NoDup(s) /\ ks \in Seq(Keys) /\ NoDup(ks)
      BY <2>1, <2>2, SeqMonotonic
    <3>3. /\ Len(s) \in Nat /\ DOMAIN ks = 1..Len(s)
          /\ \A i \in 0 + 1 .. Len(s) : ks[i] \in Keys
          /\ \A i, j \in 0 + 1 .. Len(s) : ks[i] = ks[j] => i = j
      BY <3>1, <3>2, LenProperties DEF NoDup
    <3> DEFINE n == Len(s)
    <3>4. n <= Len(s)
      BY <3>3
    <3> HIDE DEF n
    <3>5. PoolInv(cache_full_blocks(pool, s, ks, 0, n))
      BY <3>2, <3>3, <3>4, CacheFullInv DEF n
    <3> QED
      BY <3>1, <3>5 DEF n
  <2>7. CASE CachePartialBlock
    BY <2>2, <2>7, CachePartialInv DEF CachePartialBlock
  <2>8. CASE MoveBlockHashes
    BY <2>2, <2>8, MoveHashesInv DEF MoveBlockHashes
  <2>9. CASE EvictBlocks
    BY <2>9, RemoveHashesInv DEF EvictBlocks, evict_blocks
  <2>10. CASE ResetPrefixCache
    BY <2>10, ResetInv DEF ResetPrefixCache
  <2>11. CASE UNCHANGED pool
    BY <2>11
  <2> QED
    BY <2>3, <2>4, <2>5, <2>6, <2>7, <2>8, <2>9, <2>10, <2>11 DEF Next
<1> QED
  BY <1>1, <1>2, PTL DEF Spec
=============================================================================
