------------------------------ MODULE PoolLemmas ------------------------------
(***************************************************************************)
(* What filtering, reversing, concatenating and splitting a list do to its *)
(* elements and to the absence of duplicates; and how each method of the   *)
(* block pool preserves PoolInv, for any number of blocks and keys, and    *)
(* changes counts and keys as its callers expect.                          *)
(***************************************************************************)
EXTENDS BlockPool, FiniteSetTheorems, SequenceTheorems, TLAPS

----------------------------------------------------------------------------
(* Lists                                                                   *)

\* The positions that a filter keeps are finite in number.
LEMMA KeptFinite ==
  ASSUME NEW A, NEW s \in Seq(A), NEW S
  PROVE  /\ IsFiniteSet(Kept(s, S))
         /\ Cardinality(Kept(s, S)) \in Nat
         /\ \A i \in Kept(s, S) : Rank(s, S, i) \in 1..Cardinality(Kept(s, S))
<1> DEFINE K == Kept(s, S)
<1>1. Len(s) \in Nat /\ IsFiniteSet(1..Len(s))
  BY LenProperties, FS_Interval
<1>2. IsFiniteSet(K) /\ Cardinality(K) \in Nat
  <2>1. K \in SUBSET (1..Len(s))
    BY DEF Kept
  <2> QED
    BY <1>1, <2>1, FS_Subset, FS_CardinalityType
<1>3. ASSUME NEW i \in K
      PROVE  Rank(s, S, i) \in 1..Cardinality(K)
  <2> DEFINE U == {j \in K : j <= i}
  <2>1. U \in SUBSET K /\ i \in U
    BY <1>1 DEF Kept
  <2>2. IsFiniteSet(U) /\ Cardinality(U) \in Nat /\ Cardinality(U) <= Cardinality(K)
    BY <1>2, <2>1, FS_Subset, FS_CardinalityType
  <2>3. Cardinality(U) # 0
    BY <2>1, <2>2, FS_EmptySet, Zenon
  <2> QED
    BY <1>2, <2>2, <2>3 DEF Rank
<1> QED
  BY <1>2, <1>3

\* Later kept positions have greater ranks.
LEMMA RankIncreases ==
  ASSUME NEW A, NEW s \in Seq(A), NEW S,
         NEW i \in Kept(s, S), NEW j \in Kept(s, S), i < j
  PROVE  Rank(s, S, i) < Rank(s, S, j)
<1> DEFINE K == Kept(s, S)
           U == {m \in K : m <= i}
           V == {m \in K : m <= j}
<1>1. Len(s) \in Nat /\ K \subseteq 1..Len(s)
  BY LenProperties DEF Kept
<1>2. U \in SUBSET V /\ j \in V /\ j \notin U
  BY <1>1
<1>3. IsFiniteSet(K) /\ V \in SUBSET K
  BY KeptFinite
<1>4. IsFiniteSet(V) /\ IsFiniteSet(U)
  BY <1>2, <1>3, FS_Subset
<1>5. Cardinality(U) <= Cardinality(V) /\ Cardinality(V) # Cardinality(U)
  BY <1>2, <1>4, FS_Subset, Zenon
<1>6. Cardinality(U) \in Nat /\ Cardinality(V) \in Nat
  BY <1>4, FS_CardinalityType
<1> QED
  BY <1>5, <1>6 DEF Rank

\* Every rank up to the number of kept positions is taken, by one position.
LEMMA RankOnto ==
  ASSUME NEW A, NEW s \in Seq(A), NEW S,
         NEW k \in 1..Cardinality(Kept(s, S))
  PROVE  \E i \in Kept(s, S) : Rank(s, S, i) = k
<1> DEFINE K == Kept(s, S)
           R == 1..Cardinality(K)
           f == [i \in K |-> Rank(s, S, i)]
<1>1. IsFiniteSet(K) /\ Cardinality(K) \in Nat /\ f \in [K -> R]
  BY KeptFinite
<1>2. \A i, j \in K : f[i] = f[j] => i = j
  <2> SUFFICES ASSUME NEW i \in K, NEW j \in K, i # j PROVE f[i] # f[j]
    OBVIOUS
  <2>1. i \in Int /\ j \in Int
    BY LenProperties DEF Kept
  <2>2. Rank(s, S, i) \in Nat /\ Rank(s, S, j) \in Nat
    BY KeptFinite
  <2>3. CASE i < j
    BY <2>2, <2>3, RankIncreases
  <2>4. CASE j < i
    BY <2>2, <2>4, RankIncreases
  <2> QED
    BY <2>1, <2>3, <2>4
<1>3. f \in Injection(K, R)
  BY <1>1, <1>2 DEF Injection, IsInjective
<1>4. IsFiniteSet(R) /\ Cardinality(R) = Cardinality(K)
  BY <1>1, FS_Interval
<1>5. f \in Surjection(K, R)
  BY <1>3, <1>4, FS_Injection
<1> QED
  BY <1>5, Zenon DEF Surjection

\* The filter of a list is a list of the kept elements, in the original order:
\* its k-th element is the one at the kept position of rank k.
LEMMA FilterIndex ==
  ASSUME NEW A, NEW s \in Seq(A), NEW S
  PROVE  \E at \in [1..Cardinality(Kept(s, S)) -> Kept(s, S)] :
           /\ \A k \in 1..Cardinality(Kept(s, S)) :
                /\ Filter(s, S)[k] = s[at[k]]
                /\ Rank(s, S, at[k]) = k
           /\ \A i \in Kept(s, S) : at[Rank(s, S, i)] = i
<1> DEFINE K == Kept(s, S)
           N == Cardinality(K)
           at == [k \in 1..N |-> CHOOSE i \in K : Rank(s, S, i) = k]
<1>1. \A k \in 1..N : at[k] \in K /\ Rank(s, S, at[k]) = k
  BY RankOnto
<1>2. ASSUME NEW i \in K PROVE at[Rank(s, S, i)] = i
  <2>1. Rank(s, S, i) \in 1..N
    BY KeptFinite
  <2> DEFINE j == at[Rank(s, S, i)]
  <2>2. j \in K /\ Rank(s, S, j) = Rank(s, S, i)
    BY <1>1, <2>1
  <2>3. i \in Int /\ j \in Int /\ Rank(s, S, i) \in Int
    BY <2>1, <2>2, KeptFinite, LenProperties DEF Kept
  <2>4. ~(i < j) /\ ~(j < i)
    <3> HIDE DEF j
    <3> QED BY <2>2, <2>3, RankIncreases
  <2> HIDE DEF at
  <2> QED
    BY <2>3, <2>4
<1>3. \A k \in 1..N : Filter(s, S)[k] = s[at[k]]
  BY DEF Filter
<1>4. at \in [1..N -> K]
  BY <1>1
<1> HIDE DEF at
<1> QED
  BY <1>1, <1>2, <1>3, <1>4, Zenon

\* Filtering keeps the elements of S, adds none and duplicates none.
LEMMA FilterProperties ==
  ASSUME NEW A, NEW s \in Seq(A), NEW S
  PROVE  /\ Filter(s, S) \in Seq(A)
         /\ Elems(Filter(s, S)) = Elems(s) \cap S
         /\ NoDup(s) => NoDup(Filter(s, S))
<1> DEFINE K == Kept(s, S)
           N == Cardinality(K)
           F == Filter(s, S)
<1>1. PICK at \in [1..N -> K] :
        /\ \A k \in 1..N : F[k] = s[at[k]] /\ Rank(s, S, at[k]) = k
        /\ \A i \in K : at[Rank(s, S, i)] = i
  BY FilterIndex
<1>2. N \in Nat /\ \A i \in K : Rank(s, S, i) \in 1..N
  BY KeptFinite
<1>3. DOMAIN s = 1..Len(s) /\ K = {i \in DOMAIN s : s[i] \in S} /\ \A i \in K : s[i] \in A
  BY LenProperties DEF Kept
<1>4. DOMAIN F = 1..N /\ F = [k \in 1..N |-> F[k]]
  BY DEF Filter
<1>5. F \in Seq(A)
  <2>1. \A k \in 1..N : F[k] \in A
    BY <1>1, <1>3
  <2> HIDE DEF F, N, K
  <2>2. F \in [1..N -> A]
    BY <1>4, <2>1
  <2> QED
    BY <1>2, <2>2, SeqDef
<1>6. Elems(F) = Elems(s) \cap S
  <2>1. ASSUME NEW k \in 1..N PROVE F[k] \in Elems(s) \cap S
    BY <1>1, <1>3 DEF Elems
  <2>2. ASSUME NEW i \in DOMAIN s, s[i] \in S PROVE \E k \in 1..N : F[k] = s[i]
    <3> HIDE DEF F, N, K
    <3>1. i \in K
      BY <1>3, <2>2
    <3>2. Rank(s, S, i) \in 1..N /\ F[Rank(s, S, i)] = s[i]
      BY <1>1, <1>2, <3>1
    <3> QED
      BY <3>2
  <2> HIDE DEF F, N, K
  <2> QED
    BY <1>4, <2>1, <2>2 DEF Elems
<1>7. ASSUME NoDup(s) PROVE NoDup(F)
  <2> SUFFICES ASSUME NEW k \in 1..N, NEW m \in 1..N, F[k] = F[m] PROVE k = m
    BY <1>4 DEF NoDup
  <2>1. at[k] = at[m]
    BY <1>1, <1>3, <1>7 DEF NoDup
  <2> QED
    BY <1>1, <2>1
<1> QED
  BY <1>5, <1>6, <1>7

\* Reversing a list changes only the order of its elements.
LEMMA ReversedProperties ==
  ASSUME NEW A, NEW s \in Seq(A)
  PROVE  /\ Reversed(s) \in Seq(A)
         /\ Elems(Reversed(s)) = Elems(s)
         /\ NoDup(s) => NoDup(Reversed(s))
<1> DEFINE n == Len(s)
           R == Reversed(s)
<1>1. n \in Nat /\ DOMAIN s = 1..n /\ \A i \in 1..n : s[i] \in A
  BY LenProperties
<1>2. DOMAIN R = 1..n /\ \A i \in 1..n : n + 1 - i \in 1..n /\ R[i] = s[n + 1 - i]
  BY <1>1 DEF Reversed
<1>3. R \in Seq(A)
  <2>1. R \in [1..n -> A]
    BY <1>1, <1>2 DEF Reversed
  <2> HIDE DEF n, R
  <2> QED
    BY <1>1, <2>1, SeqDef
<1>4. Elems(R) = Elems(s)
  <2>1. ASSUME NEW i \in 1..n PROVE s[i] = R[n + 1 - i] /\ n + 1 - i \in 1..n
    BY <1>1, <1>2
  <2> HIDE DEF n, R
  <2> QED
    BY <1>1, <1>2, <2>1 DEF Elems
<1>5. ASSUME NoDup(s) PROVE NoDup(R)
  <2> HIDE DEF n, R
  <2> QED
  BY <1>1, <1>2, <1>5 DEF NoDup
<1> QED
  BY <1>3, <1>4, <1>5

\* Concatenation of lists joins their elements.
LEMMA ConcatElems ==
  ASSUME NEW A, NEW s \in Seq(A), NEW t \in Seq(A)
  PROVE  /\ s \o t \in Seq(A)
         /\ Elems(s \o t) = Elems(s) \cup Elems(t)
         /\ NoDup(s) /\ NoDup(t) /\ Elems(s) \cap Elems(t) = {} => NoDup(s \o t)
<1> DEFINE m == Len(s)
           n == Len(t)
           c == s \o t
<1>1. /\ m \in Nat /\ n \in Nat /\ DOMAIN s = 1..m /\ DOMAIN t = 1..n
      /\ c \in Seq(A) /\ DOMAIN c = 1..(m + n)
      /\ \A i \in 1..(m + n) : c[i] = IF i <= m THEN s[i] ELSE t[i - m]
  BY LenProperties, ConcatProperties
<1> HIDE DEF m, n, c
<1>2. \A i \in 1..m : c[i] = s[i] /\ i \in 1..(m + n)
  BY <1>1
<1>3. \A i \in 1..n : c[m + i] = t[i] /\ m + i \in 1..(m + n)
  BY <1>1
<1>4. \A i \in 1..(m + n) : (i \in 1..m /\ c[i] = s[i]) \/ (i - m \in 1..n /\ c[i] = t[i - m])
  BY <1>1
<1>5. Elems(c) = Elems(s) \cup Elems(t)
  <2>1. ASSUME NEW i \in DOMAIN c PROVE c[i] \in Elems(s) \cup Elems(t)
    BY <1>1, <1>4, Zenon DEF Elems
  <2>2. ASSUME NEW i \in DOMAIN s PROVE s[i] \in Elems(c)
    BY <1>1, <1>2 DEF Elems
  <2>3. ASSUME NEW i \in DOMAIN t PROVE t[i] \in Elems(c)
    BY <1>1, <1>3, Zenon DEF Elems
  <2>4. Elems(s) \subseteq Elems(c) /\ Elems(t) \subseteq Elems(c)
    BY <2>2, <2>3 DEF Elems
  <2> QED
    BY <2>1, <2>4, Zenon DEF Elems
<1>6. ASSUME NoDup(s), NoDup(t), Elems(s) \cap Elems(t) = {} PROVE NoDup(c)
  <2> SUFFICES ASSUME NEW i \in 1..(m + n), NEW j \in 1..(m + n), c[i] = c[j] PROVE i = j
    BY <1>1 DEF NoDup
  <2>1. CASE i \in 1..m /\ c[i] = s[i] /\ j \in 1..m /\ c[j] = s[j]
    BY <1>1, <1>6, <2>1, Zenon DEF NoDup
  <2>2. CASE i - m \in 1..n /\ c[i] = t[i - m] /\ j - m \in 1..n /\ c[j] = t[j - m]
    <3>1. i - m = j - m
      BY <1>1, <1>6, <2>2, Zenon DEF NoDup
    <3> QED
      BY <1>1, <3>1
  <2>3. CASE i \in 1..m /\ c[i] = s[i] /\ j - m \in 1..n /\ c[j] = t[j - m]
    BY <1>1, <1>6, <2>3, Zenon DEF Elems
  <2>4. CASE j \in 1..m /\ c[j] = s[j] /\ i - m \in 1..n /\ c[i] = t[i - m]
    BY <1>1, <1>6, <2>4, Zenon DEF Elems
  <2> QED
    BY <1>4, <2>1, <2>2, <2>3, <2>4
<1> QED
  BY <1>1, <1>5, <1>6 DEF c

\* Appending a new element to a list.
LEMMA AppendElems ==
  ASSUME NEW A, NEW s \in Seq(A), NEW e \in A
  PROVE  /\ Append(s, e) \in Seq(A)
         /\ Elems(Append(s, e)) = Elems(s) \cup {e}
         /\ NoDup(s) /\ e \notin Elems(s) => NoDup(Append(s, e))
<1>1. <<e>> \in Seq(A) /\ Elems(<<e>>) = {e} /\ NoDup(<<e>>)
  BY DEF Elems, NoDup
<1> DEFINE t == <<e>>
<1>2. Append(s, e) = s \o t
  BY AppendIsConcat
<1> HIDE DEF t
<1>3. /\ s \o t \in Seq(A)
      /\ Elems(s \o t) = Elems(s) \cup Elems(t)
      /\ NoDup(s) /\ NoDup(t) /\ Elems(s) \cap Elems(t) = {} => NoDup(s \o t)
  BY <1>1, ConcatElems, Zenon DEF t
<1> QED
  BY <1>1, <1>2, <1>3 DEF t

\* The first n elements of a duplicate-free list and the rest partition it.
LEMMA SplitElems ==
  ASSUME NEW A, NEW s \in Seq(A), NEW n \in 0..Len(s), NoDup(s)
  PROVE  LET first == SubSeq(s, 1, n)
             rest  == SubSeq(s, n + 1, Len(s))
         IN /\ first \in Seq(A) /\ rest \in Seq(A)
            /\ Len(first) = n
            /\ NoDup(first) /\ NoDup(rest)
            /\ Elems(first) \subseteq Elems(s)
            /\ Elems(rest) = Elems(s) \ Elems(first)
<1> DEFINE first == SubSeq(s, 1, n)
           rest  == SubSeq(s, n + 1, Len(s))
           m     == Len(s)
<1>1. m \in Nat /\ n \in Nat /\ n <= m /\ DOMAIN s = 1..m /\ \A i \in 1..m : s[i] \in A
  BY LenProperties
<1>2. first \in Seq(A) /\ Len(first) = n /\ \A i \in 1..n : first[i] = s[i]
  BY <1>1, SubSeqProperties
<1>3. rest \in Seq(A) /\ Len(rest) = m - n /\ \A i \in 1..(m - n) : rest[i] = s[n + i]
  <2>1. \A i \in (n + 1)..m : s[i] \in A
    BY <1>1
  <2>2. /\ rest \in Seq(A)
        /\ Len(rest) = IF n + 1 <= m THEN m - (n + 1) + 1 ELSE 0
        /\ \A i \in 1..(m - (n + 1) + 1) : rest[i] = s[(n + 1) + i - 1]
    <3> n + 1 \in Int /\ m \in Int
      BY <1>1
    <3> QED
      BY <2>1, SubSeqProperties
  <2>3. m - (n + 1) + 1 = m - n /\ \A i \in Int : (n + 1) + i - 1 = n + i
    BY <1>1
  <2> HIDE DEF rest, m
  <2> QED
    BY <1>1, <2>2, <2>3
<1>4. DOMAIN first = 1..n /\ DOMAIN rest = 1..(m - n)
  BY <1>2, <1>3, LenProperties
<1> HIDE DEF first, rest, m
<1>5. NoDup(first) /\ NoDup(rest) /\ Elems(first) \subseteq Elems(s)
  <2>1. NoDup(first)
    BY <1>1, <1>2, <1>4 DEF NoDup
  <2>2. NoDup(rest)
    <3> SUFFICES ASSUME NEW i \in 1..(m - n), NEW j \in 1..(m - n), rest[i] = rest[j] PROVE i = j
      BY <1>4 DEF NoDup
    <3>1. n + i \in 1..m /\ n + j \in 1..m /\ s[n + i] = s[n + j]
      BY <1>1, <1>3
    <3>2. n + i = n + j
      BY <1>1, <3>1 DEF NoDup
    <3> QED
      BY <1>1, <3>2
  <2>3. Elems(first) \subseteq Elems(s)
    BY <1>1, <1>2, <1>4 DEF Elems
  <2> QED
    BY <2>1, <2>2, <2>3
<1>6. Elems(rest) = Elems(s) \ Elems(first)
  <2>1. ASSUME NEW i \in 1..(m - n) PROVE rest[i] \in Elems(s) /\ rest[i] \notin Elems(first)
    <3>1. n + i \in 1..m /\ n + i \notin 1..n
      BY <1>1
    <3>2. rest[i] = s[n + i]
      BY <1>3
    <3>3. rest[i] \in Elems(s)
      BY <1>1, <3>1, <3>2 DEF Elems
    <3>4. ASSUME NEW j \in 1..n PROVE first[j] # rest[i]
      <4>1. j \in 1..m /\ j # n + i
        BY <1>1, <3>1
      <4>2. s[j] # s[n + i]
        BY <1>1, <3>1, <4>1 DEF NoDup
      <4> QED
        BY <1>2, <3>2, <4>2
    <3> QED
      BY <1>4, <3>3, <3>4 DEF Elems
  <2>2. ASSUME NEW i \in 1..m, s[i] \notin Elems(first) PROVE s[i] \in Elems(rest)
    <3>1. i \notin 1..n
      BY <1>1, <1>2, <1>4, <2>2 DEF Elems
    <3>2. i - n \in 1..(m - n) /\ n + (i - n) = i
      BY <1>1, <3>1
    <3>3. rest[i - n] = s[i]
      BY <1>3, <3>2
    <3> QED
      BY <1>4, <3>2, <3>3 DEF Elems
  <2> QED
    BY <1>1, <1>4, <2>1, <2>2 DEF Elems
<1> QED
  BY <1>2, <1>3, <1>5, <1>6 DEF first, rest, m

----------------------------------------------------------------------------
(* The methods of the pool                                                 *)

\* The fields of a pool whose hashes, or whose counts and queue, are replaced.
LEMMA ExceptFields ==
  ASSUME NEW p \in PoolType
  PROVE  /\ \A c, h, m : [p EXCEPT !.cached = c, !.block_hash = h, !.more = m]
                  = [ref_cnt |-> p.ref_cnt, block_hash |-> h, more |-> m,
                     cached |-> c, free |-> p.free]
         /\ \A r, f : [p EXCEPT !.ref_cnt = r, !.free = f]
                  = [ref_cnt |-> r, block_hash |-> p.block_hash, more |-> p.more,
                     cached |-> p.cached, free |-> f]
<1>1. ASSUME NEW c, NEW h, NEW m, NEW q, q = [p EXCEPT !.cached = c, !.block_hash = h, !.more = m]
      PROVE  q = [ref_cnt |-> p.ref_cnt, block_hash |-> h, more |-> m,
                  cached |-> c, free |-> p.free]
  BY <1>1, Zenon DEF PoolType
<1>2. ASSUME NEW r, NEW f, NEW q, q = [p EXCEPT !.ref_cnt = r, !.free = f]
      PROVE  q = [ref_cnt |-> r, block_hash |-> p.block_hash, more |-> p.more,
                  cached |-> p.cached, free |-> f]
  BY <1>2, Zenon DEF PoolType
<1> QED
  BY <1>1, <1>2

\* A freshly built pool is consistent.
LEMMA InitialPoolInv == PoolInv(InitialPool)
<1> DEFINE n == Cardinality(Blocks)
           p == InitialPool
           order == BlockOrder
<1>0. order \in [1..n -> Blocks] /\ NoDup(order)
  <2>1. PICK f \in Bijection(1..n, Blocks) : TRUE
    BY PoolAssumption, FS_CardinalityType DEF ExistsBijection
  <2>2. f \in [1..n -> Blocks] /\ NoDup(f)
    BY <2>1 DEF Bijection, Injection, Surjection, IsInjective, NoDup
  <2> QED
    BY <2>2 DEF BlockOrder
<1>1. n \in Nat /\ IsFiniteSet(Blocks) /\ IsFiniteSet(1..n) /\ Cardinality(1..n) = n
  BY PoolAssumption, FS_CardinalityType, FS_Interval
<1>2. order \in Seq(Blocks) /\ DOMAIN order = 1..n
  BY <1>0, <1>1, SeqDef
<1>3. Elems(order) = Blocks
  <2>1. order \in Injection(1..n, Blocks)
    BY <1>0, <1>2 DEF NoDup, Injection, IsInjective
  <2>2. order \in Surjection(1..n, Blocks)
    BY <1>1, <2>1, FS_Injection
  <2> QED
    BY <1>2, <2>2 DEF Surjection, Elems
<1>4. p \in PoolType
  <2> HIDE DEF order
  <2>1. \A k \in Keys : <<>> \in Seq(Blocks)
    OBVIOUS
  <2> QED
    BY <1>2, <2>1 DEF InitialPool, PoolType, order
<1>5. FreeQueueInv(p)
  BY <1>0, <1>3 DEF InitialPool, FreeQueueInv
<1>6. HashMapInv(p)
  <2>1. \A b \in Blocks : KeysOf(p, b) = {}
    BY DEF InitialPool, KeysOf
  <2>2. \A k \in Keys : p.cached[k] = <<>>
    BY DEF InitialPool
  <2>3. NoDup(<<>>) /\ Elems(<<>>) = {}
    BY DEF NoDup, Elems
  <2>4. \A b \in Blocks : p.more[b] = {}
    BY DEF InitialPool
  <2> HIDE DEF p
  <2> QED
    BY <2>1, <2>2, <2>3, <2>4 DEF HashMapInv
<1> QED
  BY <1>4, <1>5, <1>6 DEF PoolInv

\* Removing all the keys of some blocks keeps the pool consistent and does not
\* touch the reference counts or the free queue.
LEMMA RemoveHashesInv ==
  ASSUME NEW p, PoolInv(p), NEW S
  PROVE  LET q == _remove_cached_block_hashes(p, S)
         IN /\ PoolInv(q)
            /\ q.ref_cnt = p.ref_cnt /\ q.free = p.free
            /\ \A b \in Blocks : KeysOf(q, b) = IF b \in S THEN {} ELSE KeysOf(p, b)
            /\ \A b \in Blocks : q.block_hash[b] = IF b \in S THEN NoHash ELSE p.block_hash[b]
            /\ \A b \in Blocks : q.more[b] = IF b \in S THEN {} ELSE p.more[b]
<1> DEFINE q == _remove_cached_block_hashes(p, S)
           T(k) == {b \in Blocks : b \notin S \/ k \notin KeysOf(p, b)}
<1>1. p \in PoolType /\ FreeQueueInv(p) /\ HashMapInv(p)
  BY DEF PoolInv
<1>2. /\ q.ref_cnt = p.ref_cnt /\ q.free = p.free
      /\ q.block_hash = [b \in Blocks |-> IF b \in S THEN NoHash ELSE p.block_hash[b]]
      /\ q.more = [b \in Blocks |-> IF b \in S THEN {} ELSE p.more[b]]
      /\ q.cached = [k \in Keys |-> Filter(p.cached[k], T(k))]
      /\ q = [ref_cnt |-> q.ref_cnt, block_hash |-> q.block_hash, more |-> q.more,
              cached |-> q.cached, free |-> q.free]
  <2> DEFINE c == [k \in Keys |-> Filter(p.cached[k], T(k))]
             h == [b \in Blocks |-> IF b \in S THEN NoHash ELSE p.block_hash[b]]
             m == [b \in Blocks |-> IF b \in S THEN {} ELSE p.more[b]]
  <2>1. q = [p EXCEPT !.cached = c, !.block_hash = h, !.more = m]
    BY DEF _remove_cached_block_hashes
  <2> HIDE DEF c, h, m, q
  <2>2. q = [ref_cnt |-> p.ref_cnt, block_hash |-> h, more |-> m, cached |-> c, free |-> p.free]
    BY <1>1, <2>1, ExceptFields
  <2>3. q.ref_cnt = p.ref_cnt /\ q.free = p.free /\ q.block_hash = h /\ q.more = m /\ q.cached = c
    BY <2>2
  <2> QED
    BY <2>2, <2>3 DEF c, h, m
<1>3. \A b \in Blocks : KeysOf(q, b) = IF b \in S THEN {} ELSE KeysOf(p, b)
  <2> HIDE DEF q
  <2> QED
    BY <1>2 DEF KeysOf
<1>4. \A k \in Keys : /\ q.cached[k] \in Seq(Blocks)
                      /\ Elems(q.cached[k]) = Elems(p.cached[k]) \cap T(k)
                      /\ NoDup(q.cached[k])
  <2> HIDE DEF q, T
  <2> TAKE k \in Keys
  <2>1. p.cached[k] \in Seq(Blocks) /\ NoDup(p.cached[k])
    BY <1>1 DEF PoolType, HashMapInv
  <2> QED
    BY <1>2, <2>1, FilterProperties
<1> HIDE DEF q
<1>5. q \in PoolType
  <2>1. /\ q.ref_cnt \in [Blocks -> Nat] /\ q.free \in Seq(Blocks)
        /\ q.block_hash \in [Blocks -> Keys \cup {NoHash}]
        /\ q.more \in [Blocks -> SUBSET Keys]
    BY <1>1, <1>2 DEF PoolType
  <2>2. q.cached \in [Keys -> Seq(Blocks)]
    BY <1>2, <1>4, Zenon
  <2> QED
    BY <1>2, <2>1, <2>2, Zenon DEF PoolType
<1>6. FreeQueueInv(q)
  BY <1>1, <1>2 DEF FreeQueueInv
<1>7. HashMapInv(q)
  <2>1. ASSUME NEW k \in Keys PROVE Elems(q.cached[k]) = {b \in Blocks : k \in KeysOf(q, b)}
    <3>1. Elems(p.cached[k]) = {b \in Blocks : k \in KeysOf(p, b)}
      BY <1>1 DEF HashMapInv
    <3> QED
      BY <1>3, <1>4, <3>1
  <2>2. \A b \in Blocks : q.block_hash[b] = NoHash => q.more[b] = {}
    BY <1>1, <1>2 DEF HashMapInv
  <2> QED
    BY <1>4, <2>1, <2>2 DEF HashMapInv
<1> QED
  BY <1>2, <1>3, <1>5, <1>6, <1>7 DEF PoolInv, q

\* Changing only counts and queue leaves the hash map consistent.
LEMMA SameHashes ==
  ASSUME NEW p, PoolInv(p), NEW q \in PoolType,
         q.block_hash = p.block_hash, q.more = p.more, q.cached = p.cached,
         FreeQueueInv(q)
  PROVE  /\ PoolInv(q)
         /\ \A b \in Blocks : KeysOf(q, b) = KeysOf(p, b)
<1>1. HashMapInv(p)
  BY DEF PoolInv
<1>2. \A b \in Blocks : KeysOf(q, b) = KeysOf(p, b)
  BY DEF KeysOf
<1>3. HashMapInv(q)
  BY <1>1, <1>2 DEF HashMapInv
<1> QED
  BY <1>2, <1>3 DEF PoolInv

\* A pool with other counts and another queue.
WithCounts(p, cnt, fr) == [p EXCEPT !.ref_cnt = cnt, !.free = fr]

\* Replacing counts and queue by ones that fit each other.
LEMMA NewCounts ==
  ASSUME NEW p, PoolInv(p),
         NEW cnt \in [Blocks -> Nat], NEW fr \in Seq(Blocks),
         NoDup(fr), Elems(fr) = {b \in Blocks : cnt[b] = 0}
  PROVE  /\ PoolInv(WithCounts(p, cnt, fr))
         /\ WithCounts(p, cnt, fr).ref_cnt = cnt
         /\ WithCounts(p, cnt, fr).free = fr
         /\ \A b \in Blocks : KeysOf(WithCounts(p, cnt, fr), b) = KeysOf(p, b)
<1> DEFINE q == WithCounts(p, cnt, fr)
<1>1. p \in PoolType
  BY DEF PoolInv
<1>2. q = [ref_cnt |-> cnt, block_hash |-> p.block_hash, more |-> p.more,
           cached |-> p.cached, free |-> fr]
  BY <1>1, ExceptFields DEF WithCounts
<1> HIDE DEF q
<1>3. /\ q.block_hash = p.block_hash /\ q.more = p.more /\ q.cached = p.cached
      /\ q.ref_cnt = cnt /\ q.free = fr
  BY <1>2
<1>4. q \in PoolType
  BY <1>1, <1>2 DEF PoolType
<1>5. FreeQueueInv(q)
  BY <1>3 DEF FreeQueueInv
<1> QED
  BY <1>1, <1>3, <1>4, <1>5, SameHashes DEF q

\* Taking n blocks from the front of the queue: they get their first holder and
\* lose their keys, all others keep count and keys.
LEMMA GetNewBlocksInv ==
  ASSUME NEW p, PoolInv(p), NEW n \in 0..Len(p.free)
  PROVE  LET q   == get_new_blocks(p, n)
             ret == NewBlocks(p, n)
         IN /\ PoolInv(q)
            /\ ret \in Seq(Blocks) /\ NoDup(ret) /\ Len(ret) = n
            /\ \A b \in Elems(ret) : b \in Blocks /\ p.ref_cnt[b] = 0 /\ q.ref_cnt[b] = 1
            /\ \A b \in Blocks \ Elems(ret) :
                 q.ref_cnt[b] = p.ref_cnt[b] /\ KeysOf(q, b) = KeysOf(p, b)
            /\ EnableCaching => \A b \in Elems(ret) : KeysOf(q, b) = {}
<1> DEFINE ret == NewBlocks(p, n)
           u == _remove_cached_block_hashes(p, Elems(ret))
           v == IF EnableCaching THEN u ELSE p
           cnt == [b \in Blocks |-> IF b \in Elems(ret) THEN v.ref_cnt[b] + 1 ELSE v.ref_cnt[b]]
           rest == SubSeq(p.free, n + 1, Len(p.free))
           q == [v EXCEPT !.ref_cnt = cnt, !.free = rest]
<1>1. /\ p.ref_cnt \in [Blocks -> Nat] /\ p.free \in Seq(Blocks) /\ NoDup(p.free)
      /\ Elems(p.free) = {b \in Blocks : p.ref_cnt[b] = 0}
  BY DEF PoolInv, PoolType, FreeQueueInv
<1>2. /\ ret \in Seq(Blocks) /\ rest \in Seq(Blocks) /\ Len(ret) = n
      /\ NoDup(ret) /\ NoDup(rest)
      /\ Elems(ret) \subseteq Elems(p.free)
      /\ Elems(rest) = Elems(p.free) \ Elems(ret)
  BY <1>1, SplitElems DEF NewBlocks
<1>3. /\ PoolInv(v) /\ v.ref_cnt = p.ref_cnt
      /\ \A b \in Blocks \ Elems(ret) : KeysOf(v, b) = KeysOf(p, b)
      /\ EnableCaching => \A b \in Blocks : b \in Elems(ret) => KeysOf(v, b) = {}
  <2> HIDE DEF ret
  <2>1. CASE EnableCaching
    BY <2>1, RemoveHashesInv
  <2>2. CASE ~EnableCaching
    BY <2>2
  <2> QED
    BY <2>1, <2>2
<1> HIDE DEF v, rest, ret
<1>4. cnt \in [Blocks -> Nat] /\ Elems(rest) = {b \in Blocks : cnt[b] = 0}
  BY <1>1, <1>2, <1>3
<1>5. q.ref_cnt = cnt /\ PoolInv(q) /\ \A b \in Blocks : KeysOf(q, b) = KeysOf(v, b)
  <2>1. q = WithCounts(v, cnt, rest)
    BY DEF WithCounts
  <2> HIDE DEF cnt, q
  <2> QED
    BY <1>2, <1>3, <1>4, <2>1, NewCounts, SMTT(40)
<1>6. get_new_blocks(p, n) = q
  BY DEF get_new_blocks, v, rest, ret
<1> HIDE DEF q
<1> QED
  BY <1>1, <1>2, <1>3, <1>5, <1>6 DEF ret

\* Touching blocks adds one holder to each and takes the free ones out of the
\* queue.
LEMMA TouchInv ==
  ASSUME NEW p, PoolInv(p), NEW blocks \in Seq(Blocks)
  PROVE  LET q == touch(p, blocks)
         IN /\ PoolInv(q)
            /\ \A b \in Blocks : /\ KeysOf(q, b) = KeysOf(p, b)
                                 /\ q.ref_cnt[b] = p.ref_cnt[b] + (IF b \in Elems(blocks) THEN 1 ELSE 0)
            /\ q.free = Filter(p.free, {b \in Blocks : b \notin Elems(blocks) \/ p.ref_cnt[b] # 0})
<1> DEFINE hit  == Elems(blocks) \ {NullBlock}
           keep == {b \in Blocks : b \notin hit \/ p.ref_cnt[b] # 0}
           cnt  == [b \in Blocks |-> IF b \in hit THEN p.ref_cnt[b] + 1 ELSE p.ref_cnt[b]]
           fr   == Filter(p.free, keep)
           q    == [p EXCEPT !.ref_cnt = cnt, !.free = fr]
<1>1. /\ p.ref_cnt \in [Blocks -> Nat] /\ p.free \in Seq(Blocks) /\ NoDup(p.free)
      /\ Elems(p.free) = {b \in Blocks : p.ref_cnt[b] = 0}
  BY DEF PoolInv, PoolType, FreeQueueInv
<1>2. hit = Elems(blocks)
  <2>1. Elems(blocks) \subseteq Blocks
    BY LenProperties DEF Elems
  <2> QED
    BY <2>1, PoolAssumption
<1> HIDE DEF hit
<1>3. fr \in Seq(Blocks) /\ NoDup(fr) /\ Elems(fr) = Elems(p.free) \cap keep
  <2> HIDE DEF keep
  <2> QED
    BY <1>1, FilterProperties
<1> HIDE DEF fr
<1>4. cnt \in [Blocks -> Nat] /\ Elems(fr) = {b \in Blocks : cnt[b] = 0}
  BY <1>1, <1>3
<1>5. q.ref_cnt = cnt /\ q.free = fr /\ PoolInv(q) /\ \A b \in Blocks : KeysOf(q, b) = KeysOf(p, b)
  <2>1. q = WithCounts(p, cnt, fr)
    BY DEF WithCounts
  <2> HIDE DEF cnt, q
  <2> QED
    BY <1>3, <1>4, <2>1, NewCounts, SMTT(40)
<1>6. touch(p, blocks) = q
  BY DEF touch, hit, fr
<1> HIDE DEF q
<1> QED
  BY <1>1, <1>2, <1>5, <1>6 DEF fr

\* Freeing a duplicate-free list of held blocks takes one holder from each and
\* queues the ones that have none left.
LEMMA FreeBlocksInv ==
  ASSUME NEW p, PoolInv(p), NEW ordered \in Seq(Blocks), NoDup(ordered),
         \A b \in Elems(ordered) : p.ref_cnt[b] > 0
  PROVE  LET q == free_blocks(p, ordered)
         IN /\ PoolInv(q)
            /\ \A b \in Blocks : /\ KeysOf(q, b) = KeysOf(p, b)
                                 /\ q.ref_cnt[b] = p.ref_cnt[b] - (IF b \in Elems(ordered) THEN 1 ELSE 0)
<1> DEFINE freed == {b \in Elems(ordered) \ {NullBlock} : p.ref_cnt[b] = 1}
           early == {b \in freed : p.block_hash[b] = NoHash \/ ~EnableCaching}
           cnt   == [b \in Blocks |-> IF b \in Elems(ordered) THEN p.ref_cnt[b] - 1 ELSE p.ref_cnt[b]]
           front == Filter(ordered, early)
           back  == Filter(ordered, freed \ early)
           fr    == front \o p.free \o back
           q     == [p EXCEPT !.ref_cnt = cnt, !.free = fr]
<1>1. /\ p.ref_cnt \in [Blocks -> Nat] /\ p.free \in Seq(Blocks) /\ NoDup(p.free)
      /\ Elems(p.free) = {b \in Blocks : p.ref_cnt[b] = 0}
  BY DEF PoolInv, PoolType, FreeQueueInv
<1>2. Elems(ordered) \subseteq Blocks /\ NullBlock \notin Elems(ordered)
  <2>1. Elems(ordered) \subseteq Blocks
    BY LenProperties DEF Elems
  <2> QED
    BY <2>1, PoolAssumption
<1>3. early \subseteq freed /\ freed = {b \in Elems(ordered) : p.ref_cnt[b] = 1}
  BY <1>2
<1> HIDE DEF early, freed
<1>4. /\ front \in Seq(Blocks) /\ NoDup(front) /\ Elems(front) = early
      /\ back \in Seq(Blocks) /\ NoDup(back) /\ Elems(back) = freed \ early
  <2>1. front \in Seq(Blocks) /\ NoDup(front) /\ Elems(front) = Elems(ordered) \cap early
    BY FilterProperties
  <2>2. back \in Seq(Blocks) /\ NoDup(back) /\ Elems(back) = Elems(ordered) \cap (freed \ early)
    BY FilterProperties
  <2> HIDE DEF front, back
  <2> QED
    BY <1>3, <2>1, <2>2
<1> HIDE DEF front, back
<1>5. front \o p.free \in Seq(Blocks) /\ NoDup(front \o p.free) /\ Elems(front \o p.free) = early \cup Elems(p.free)
  <2>1. Elems(front) \cap Elems(p.free) = {}
    BY <1>1, <1>3, <1>4
  <2> QED
    BY <1>1, <1>4, <2>1, ConcatElems
<1>6. fr \in Seq(Blocks) /\ NoDup(fr) /\ Elems(fr) = freed \cup Elems(p.free)
  <2> DEFINE fp == front \o p.free
  <2>1. (early \cup Elems(p.free)) \cap (freed \ early) = {}
    BY <1>1, <1>3
  <2>3. fp \in Seq(Blocks) /\ NoDup(fp) /\ Elems(fp) = early \cup Elems(p.free)
    BY <1>5
  <2> HIDE DEF fp
  <2>2. fp \o back \in Seq(Blocks) /\ NoDup(fp \o back) /\ Elems(fp \o back) = Elems(fp) \cup Elems(back)
    BY <1>4, <2>1, <2>3, ConcatElems
  <2> QED
    BY <1>3, <1>4, <1>5, <2>2 DEF fp
<1> HIDE DEF fr
<1>7. cnt \in [Blocks -> Nat] /\ Elems(fr) = {b \in Blocks : cnt[b] = 0}
  <2>1. ASSUME NEW b \in Blocks
        PROVE  cnt[b] \in Nat /\ (cnt[b] = 0 <=> p.ref_cnt[b] = 0 \/ (b \in Elems(ordered) /\ p.ref_cnt[b] = 1))
    BY <1>1
  <2>2. cnt \in [Blocks -> Nat]
    BY <2>1
  <2> HIDE DEF cnt
  <2> QED
    BY <1>1, <1>2, <1>3, <1>6, <2>1, <2>2
<1>8. q.ref_cnt = cnt /\ PoolInv(q) /\ \A b \in Blocks : KeysOf(q, b) = KeysOf(p, b)
  <2>1. q = WithCounts(p, cnt, fr)
    BY DEF WithCounts
  <2> HIDE DEF cnt, q
  <2> QED
    BY <1>6, <1>7, <2>1, NewCounts
<1>9. free_blocks(p, ordered) = q
  BY DEF free_blocks, fr, front, back, early, freed
<1> HIDE DEF q
<1> QED
  BY <1>1, <1>8, <1>9

\* Dropping every hash of an idle pool.
LEMMA ResetInv ==
  ASSUME NEW p, PoolInv(p)
  PROVE  LET q == reset_prefix_cache(p)
         IN /\ PoolInv(q) /\ q.ref_cnt = p.ref_cnt
            /\ \A b \in Blocks : KeysOf(q, b) \subseteq KeysOf(p, b)
<1> SUFFICES ASSUME CanResetPrefixCache(p)
             PROVE  LET q == reset_prefix_cache(p)
                    IN /\ PoolInv(q) /\ q.ref_cnt = p.ref_cnt
                       /\ \A b \in Blocks : KeysOf(q, b) \subseteq KeysOf(p, b)
  BY DEF reset_prefix_cache
<1> DEFINE c == [k \in Keys |-> <<>>]
           h == [b \in Blocks |-> NoHash]
           m == [b \in Blocks |-> {}]
           q == reset_prefix_cache(p)
<1>1. p \in PoolType /\ FreeQueueInv(p)
  BY DEF PoolInv
<1>2. q = [p EXCEPT !.cached = c, !.block_hash = h, !.more = m]
  BY DEF reset_prefix_cache
<1>3. c \in [Keys -> Seq(Blocks)] /\ h \in [Blocks -> Keys \cup {NoHash}] /\ m \in [Blocks -> SUBSET Keys]
  OBVIOUS
<1> HIDE DEF q
<1>4. q = [ref_cnt |-> p.ref_cnt, block_hash |-> h, more |-> m, cached |-> c, free |-> p.free]
  <2> HIDE DEF c, h, m
  <2> QED
    BY <1>1, <1>2, ExceptFields
<1>5. q \in PoolType
  <2> HIDE DEF c, h, m
  <2> QED
    BY <1>1, <1>3, <1>4 DEF PoolType
<1>6. q.ref_cnt = p.ref_cnt /\ q.free = p.free /\ q.block_hash = h /\ q.more = m /\ q.cached = c
  <2> HIDE DEF c, h, m
  <2> QED
    BY <1>4
<1>7. FreeQueueInv(q)
  BY <1>1, <1>6 DEF FreeQueueInv
<1>8. \A b \in Blocks : KeysOf(q, b) = {}
  BY <1>6 DEF KeysOf
<1>9. HashMapInv(q)
  <2>1. NoDup(<<>>) /\ Elems(<<>>) = {}
    BY DEF NoDup, Elems
  <2> QED
    BY <1>6, <1>8, <2>1 DEF HashMapInv
<1> QED
  BY <1>5, <1>6, <1>7, <1>8, <1>9 DEF PoolInv, q

\* A pool with other hashes.
WithHashes(p, c, h, m) ==
  [ref_cnt |-> p.ref_cnt, block_hash |-> h, more |-> m, cached |-> c, free |-> p.free]

\* The keys a primary hash and a set of further keys make up.
KeySet(hash, others) == others \cup (IF hash = NoHash THEN {} ELSE {hash})

\* A hash map and the hashes of the blocks that fit each other.
HashesFit(c, h, m) ==
  /\ c \in [Keys -> Seq(Blocks)]
  /\ h \in [Blocks -> Keys \cup {NoHash}]
  /\ m \in [Blocks -> SUBSET Keys]
  /\ \A k \in Keys : NoDup(c[k]) /\ Elems(c[k]) = {b \in Blocks : k \in KeySet(h[b], m[b])}
  /\ \A b \in Blocks : h[b] = NoHash => m[b] = {}

\* Replacing the hashes by ones that fit each other.
LEMMA NewHashes ==
  ASSUME NEW p, PoolInv(p), NEW c, NEW h, NEW m, HashesFit(c, h, m)
  PROVE  /\ PoolInv(WithHashes(p, c, h, m))
         /\ WithHashes(p, c, h, m).ref_cnt = p.ref_cnt
         /\ WithHashes(p, c, h, m).block_hash = h
         /\ WithHashes(p, c, h, m).more = m
         /\ \A b \in Blocks : KeysOf(WithHashes(p, c, h, m), b) = KeySet(h[b], m[b])
<1> DEFINE q == WithHashes(p, c, h, m)
<1>1. p \in PoolType /\ FreeQueueInv(p)
  BY DEF PoolInv
<1>2. /\ q.ref_cnt = p.ref_cnt /\ q.free = p.free
      /\ q.block_hash = h /\ q.more = m /\ q.cached = c
  BY DEF WithHashes
<1>3. q \in PoolType
  BY <1>1 DEF PoolType, WithHashes, HashesFit
<1> HIDE DEF q
<1>4. FreeQueueInv(q)
  BY <1>1, <1>2 DEF FreeQueueInv
<1>5. \A b \in Blocks : KeysOf(q, b) = KeySet(h[b], m[b])
  BY <1>2 DEF KeysOf, KeySet
<1>6. HashMapInv(q)
  BY <1>2, <1>5 DEF HashMapInv, HashesFit
<1> QED
  BY <1>2, <1>3, <1>4, <1>5, <1>6 DEF PoolInv, q

\* Giving a block one more key.
LEMMA InsertHashInv ==
  ASSUME NEW p, PoolInv(p), NEW b \in Blocks, NEW k \in Keys
  PROVE  /\ PoolInv(_insert_block_hash(p, k, b))
         /\ _insert_block_hash(p, k, b).ref_cnt = p.ref_cnt
<1> DEFINE here == p.block_hash[b] = k \/ b \in Elems(p.cached[k])
           h1 == IF p.block_hash[b] = NoHash THEN k ELSE p.block_hash[b]
           m1 == IF p.block_hash[b] = NoHash THEN p.more[b] ELSE p.more[b] \cup {k}
           c1 == Append(p.cached[k], b)
           h  == [p.block_hash EXCEPT ![b] = h1]
           m  == [p.more EXCEPT ![b] = m1]
           c  == [p.cached EXCEPT ![k] = c1]
           q  == _insert_block_hash(p, k, b)
<1>1. CASE here
  BY <1>1 DEF _insert_block_hash
<1>2. CASE ~here
  <2>1. /\ p \in PoolType /\ HashMapInv(p)
        /\ p.block_hash \in [Blocks -> Keys \cup {NoHash}] /\ p.more \in [Blocks -> SUBSET Keys]
        /\ p.cached \in [Keys -> Seq(Blocks)]
    BY DEF PoolInv, PoolType
  <2>2. q = WithHashes(p, c, h, m)
    <3>1. q = [p EXCEPT !.block_hash[b] = h1, !.more[b] = m1, !.cached[k] = c1]
      BY <1>2 DEF _insert_block_hash
    <3> HIDE DEF q, h1, m1, c1
    <3> QED
      BY <2>1, <3>1, Zenon DEF WithHashes, PoolType
  <2>3. c1 \in Seq(Blocks) /\ NoDup(c1) /\ Elems(c1) = Elems(p.cached[k]) \cup {b}
    <3>1. p.cached[k] \in Seq(Blocks) /\ NoDup(p.cached[k]) /\ b \notin Elems(p.cached[k])
      BY <1>2, <2>1 DEF HashMapInv
    <3> HIDE DEF here
    <3> QED
      BY <3>1, AppendElems
  <2> HIDE DEF c1, q
  <2>4. c \in [Keys -> Seq(Blocks)] /\ h \in [Blocks -> Keys \cup {NoHash}] /\ m \in [Blocks -> SUBSET Keys]
    BY <2>1, <2>3
  <2>5. ASSUME NEW a \in Blocks, h[a] = NoHash PROVE m[a] = {}
    <3>1. CASE a = b
      BY <2>1, <2>5, <3>1, PoolAssumption
    <3>2. CASE a # b
      BY <2>1, <2>5, <3>2 DEF HashMapInv
    <3> QED
      BY <3>1, <3>2
  <2>6. ASSUME NEW j \in Keys, NEW a \in Blocks
        PROVE  j \in KeySet(h[a], m[a]) <=> (j \in KeysOf(p, a) \/ (a = b /\ j = k))
    <3>1. CASE a = b
      <4>1. h[a] = h1 /\ m[a] = m1
        BY <2>1, <3>1
      <4>2. p.block_hash[b] = NoHash => p.more[b] = {}
        BY <2>1 DEF HashMapInv
      <4> QED
        BY <3>1, <4>1, <4>2, PoolAssumption DEF KeysOf, KeySet
    <3>2. CASE a # b
      BY <2>1, <3>2 DEF KeysOf, KeySet
    <3> QED
      BY <3>1, <3>2
  <2>7. ASSUME NEW j \in Keys
        PROVE  NoDup(c[j]) /\ Elems(c[j]) = {a \in Blocks : j \in KeySet(h[a], m[a])}
    <3> HIDE DEF h, m
    <3>1. NoDup(p.cached[j]) /\ Elems(p.cached[j]) = {a \in Blocks : j \in KeysOf(p, a)}
      BY <2>1 DEF HashMapInv
    <3>2. CASE j = k
      <4>1. c[j] = c1
        BY <2>1, <3>2
      <4> QED
        BY <2>3, <2>6, <3>1, <3>2, <4>1
    <3>3. CASE j # k
      <4>1. c[j] = p.cached[j]
        BY <2>1, <3>3
      <4> QED
        BY <2>6, <3>1, <3>3, <4>1
    <3> QED
      BY <3>2, <3>3
  <2> HIDE DEF c, h, m
  <2>8. HashesFit(c, h, m)
    BY <2>4, <2>5, <2>7 DEF HashesFit
  <2> QED
    BY <2>2, <2>8, NewHashes DEF q
<1> QED
  BY <1>1, <1>2

\* Registering a partly filled block.
LEMMA CachePartialInv ==
  ASSUME NEW p, PoolInv(p), NEW b \in Blocks, NEW k \in Keys
  PROVE  /\ PoolInv(cache_partial_block(p, b, k))
         /\ cache_partial_block(p, b, k).ref_cnt = p.ref_cnt
<1> DEFINE u == _remove_cached_block_hashes(p, {b})
<1>1. PoolInv(u) /\ u.ref_cnt = p.ref_cnt
  BY RemoveHashesInv
<1>2. \/ cache_partial_block(p, b, k) = _insert_block_hash(u, k, b)
      \/ cache_partial_block(p, b, k) = _insert_block_hash(p, k, b)
  BY DEF cache_partial_block
<1> HIDE DEF u
<1> QED
  BY <1>1, <1>2, InsertHashInv

\* Moving the keys of one block to another that has none.
LEMMA MoveHashesInv ==
  ASSUME NEW p, PoolInv(p), NEW src \in Blocks, NEW dst \in Blocks,
         src # dst, KeysOf(p, dst) = {}
  PROVE  /\ PoolInv(move_block_hashes(p, src, dst))
         /\ move_block_hashes(p, src, dst).ref_cnt = p.ref_cnt
<1> DEFINE u == _remove_cached_block_hashes(p, {src})
           h == [u.block_hash EXCEPT ![dst] = p.block_hash[src]]
           m == [u.more EXCEPT ![dst] = p.more[src]]
           c == [k \in Keys |-> IF k \in KeysOf(p, src) THEN Append(u.cached[k], dst) ELSE u.cached[k]]
           q == move_block_hashes(p, src, dst)
<1>1. /\ PoolInv(u) /\ u.ref_cnt = p.ref_cnt
      /\ \A b \in Blocks : KeysOf(u, b) = IF b = src THEN {} ELSE KeysOf(p, b)
  BY RemoveHashesInv
<1>2. q = [u EXCEPT !.block_hash[dst] = p.block_hash[src], !.more[dst] = p.more[src], !.cached = c]
  BY DEF move_block_hashes
<1> HIDE DEF u, q
<1>3. /\ u \in PoolType /\ HashMapInv(u)
      /\ u.block_hash \in [Blocks -> Keys \cup {NoHash}] /\ u.more \in [Blocks -> SUBSET Keys]
      /\ u.cached \in [Keys -> Seq(Blocks)]
  BY <1>1 DEF PoolInv, PoolType
<1>4. /\ p.block_hash[src] \in Keys \cup {NoHash} /\ p.more[src] \in SUBSET Keys
      /\ p.block_hash[src] = NoHash => p.more[src] = {}
  BY DEF PoolInv, PoolType, HashMapInv
<1>5. q = WithHashes(u, c, h, m)
  <2> HIDE DEF c
  <2> QED
    BY <1>2, <1>3, Zenon DEF WithHashes, PoolType
<1>6. ASSUME NEW k \in Keys
      PROVE  /\ c[k] \in Seq(Blocks) /\ NoDup(c[k])
             /\ Elems(c[k]) = Elems(u.cached[k]) \cup (IF k \in KeysOf(p, src) THEN {dst} ELSE {})
  <2>1. u.cached[k] \in Seq(Blocks) /\ NoDup(u.cached[k]) /\ dst \notin Elems(u.cached[k])
    BY <1>1, <1>3 DEF HashMapInv
  <2>2. CASE k \in KeysOf(p, src)
    <3>1. c[k] = Append(u.cached[k], dst)
      BY <2>2
    <3> HIDE DEF c
    <3> QED
      BY <2>1, <2>2, <3>1, AppendElems
  <2>3. CASE k \notin KeysOf(p, src)
    BY <2>1, <2>3
  <2> QED
    BY <2>2, <2>3
<1>7. /\ c \in [Keys -> Seq(Blocks)] /\ h \in [Blocks -> Keys \cup {NoHash}]
      /\ m \in [Blocks -> SUBSET Keys]
  <2>1. c \in [Keys -> Seq(Blocks)]
    BY <1>6
  <2> QED
    BY <1>3, <1>4, <2>1
<1> HIDE DEF c
<1>8. ASSUME NEW b \in Blocks
      PROVE  /\ KeySet(h[b], m[b]) = IF b = dst THEN KeysOf(p, src) ELSE KeysOf(u, b)
             /\ h[b] = NoHash => m[b] = {}
  <2>1. CASE b = dst
    BY <1>3, <1>4, <2>1 DEF KeysOf, KeySet
  <2>2. CASE b # dst
    BY <1>3, <2>2 DEF KeysOf, KeySet, HashMapInv
  <2> QED
    BY <2>1, <2>2
<1> HIDE DEF h, m
<1>9. ASSUME NEW k \in Keys PROVE Elems(c[k]) = {b \in Blocks : k \in KeySet(h[b], m[b])}
  <2>1. Elems(u.cached[k]) = {b \in Blocks : k \in KeysOf(u, b)} /\ KeysOf(u, dst) = {}
    BY <1>1, <1>3 DEF HashMapInv
  <2> QED
    BY <1>6, <1>8, <2>1
<1>10. HashesFit(c, h, m)
  BY <1>6, <1>7, <1>8, <1>9 DEF HashesFit
<1> QED
  BY <1>1, <1>5, <1>10, NewHashes DEF q

\* The blocks at positions first..last are found under their own keys only.
FoundUnder(p, blocks, keys, first, last) ==
  \A i \in first..last : KeysOf(p, blocks[i]) = {keys[i]}

\* Registering full blocks num_cached+1..num_full of a duplicate-free list,
\* each under a key of its own.
LEMMA CacheFullInv ==
  ASSUME NEW p, PoolInv(p), NEW blocks \in Seq(Blocks), NoDup(blocks),
         NEW num_cached \in Nat, NEW num_full \in Nat, num_full <= Len(blocks),
         NEW keys, \A i \in num_cached + 1 .. num_full : keys[i] \in Keys,
         \A i, j \in num_cached + 1 .. num_full : keys[i] = keys[j] => i = j
  PROVE  LET q == cache_full_blocks(p, blocks, keys, num_cached, num_full)
         IN /\ PoolInv(q)
            /\ q.ref_cnt = p.ref_cnt
            /\ FoundUnder(q, blocks, keys, num_cached + 1, num_full)
            /\ \A b \in Blocks : (\A i \in num_cached + 1 .. num_full : blocks[i] # b)
                                  => KeysOf(q, b) = KeysOf(p, b)
<1> DEFINE new == {i \in num_cached + 1 .. num_full : blocks[i] # NullBlock}
           S == {blocks[i] : i \in new}
           u == _remove_cached_block_hashes(p, S)
           At(b)    == CHOOSE i \in new : blocks[i] = b
           Under(k) == CHOOSE i \in new : keys[i] = k
           h == [b \in Blocks |-> IF \E i \in new : blocks[i] = b
                                   THEN keys[At(b)] ELSE u.block_hash[b]]
           c == [k \in Keys |-> IF \E i \in new : keys[i] = k
                                 THEN Append(u.cached[k], blocks[Under(k)]) ELSE u.cached[k]]
           q == cache_full_blocks(p, blocks, keys, num_cached, num_full)
<1>1. \A i \in num_cached + 1 .. num_full : i \in DOMAIN blocks /\ blocks[i] \in Blocks
  BY LenProperties
<1>2. new = num_cached + 1 .. num_full
  BY <1>1, PoolAssumption
<1>3. /\ \A i \in new : blocks[i] \in Blocks /\ keys[i] \in Keys
      /\ \A i, j \in new : (blocks[i] = blocks[j] => i = j) /\ (keys[i] = keys[j] => i = j)
  BY <1>1, <1>2 DEF NoDup
<1>4. /\ PoolInv(u) /\ u.ref_cnt = p.ref_cnt
      /\ \A b \in Blocks : KeysOf(u, b) = IF b \in S THEN {} ELSE KeysOf(p, b)
  <2> HIDE DEF S
  <2> QED
    BY RemoveHashesInv
<1>5. q = [u EXCEPT !.block_hash = h, !.cached = c]
  BY DEF cache_full_blocks
<1> HIDE DEF u, q, new
<1>6. /\ u \in PoolType /\ HashMapInv(u)
      /\ u.block_hash \in [Blocks -> Keys \cup {NoHash}] /\ u.more \in [Blocks -> SUBSET Keys]
      /\ u.cached \in [Keys -> Seq(Blocks)]
  BY <1>4 DEF PoolInv, PoolType
<1>7. q = WithHashes(u, c, h, u.more)
  <2> HIDE DEF c, h
  <2> QED
    BY <1>5, <1>6, Zenon DEF WithHashes, PoolType
<1>8. \A i \in new : h[blocks[i]] = keys[i]
  BY <1>3
<1>9. \A b \in Blocks : b \notin S => h[b] = u.block_hash[b]
  OBVIOUS
<1>10. ASSUME NEW i \in new PROVE c[keys[i]] = Append(u.cached[keys[i]], blocks[i])
  BY <1>3
<1>11. \A k \in Keys : (\A i \in new : keys[i] # k) => c[k] = u.cached[k]
  OBVIOUS
<1>12. DOMAIN h = Blocks /\ DOMAIN c = Keys /\ h = [b \in Blocks |-> h[b]] /\ c = [k \in Keys |-> c[k]]
  OBVIOUS
<1> HIDE DEF h, c, At, Under
<1>13. ASSUME NEW b \in Blocks
       PROVE  /\ b \notin S => KeySet(h[b], u.more[b]) = KeysOf(p, b)
              /\ \A i \in new : blocks[i] = b => KeySet(h[b], u.more[b]) = {keys[i]}
              /\ h[b] \in Keys \cup {NoHash}
              /\ h[b] = NoHash => u.more[b] = {}
  <2>1. CASE b \notin S
    <3>1. h[b] = u.block_hash[b] /\ KeysOf(u, b) = KeysOf(p, b)
      BY <1>4, <1>9, <2>1
    <3> QED
      BY <1>6, <2>1, <3>1 DEF KeysOf, KeySet, HashMapInv
  <2>2. CASE b \in S
    <3>1. PICK i \in new : b = blocks[i]
      BY <2>2
    <3>2. h[b] = keys[i] /\ keys[i] \in Keys /\ keys[i] # NoHash
      BY <1>3, <1>8, <3>1, PoolAssumption
    <3>3. u.more[b] = {}
      BY <1>4, <2>2 DEF KeysOf
    <3>4. \A j \in new : blocks[j] = b => j = i
      BY <1>3, <3>1
    <3> QED
      BY <2>2, <3>2, <3>3, <3>4 DEF KeySet
  <2> QED
    BY <2>1, <2>2
<1>14. ASSUME NEW k \in Keys
       PROVE  /\ c[k] \in Seq(Blocks) /\ NoDup(c[k])
              /\ Elems(c[k]) = {b \in Blocks : k \in KeySet(h[b], u.more[b])}
  <2>1. /\ u.cached[k] \in Seq(Blocks) /\ NoDup(u.cached[k])
        /\ Elems(u.cached[k]) = {b \in Blocks : b \notin S /\ k \in KeysOf(p, b)}
    BY <1>4, <1>6, ZenonT(30) DEF HashMapInv
  <2>2. CASE \E i \in new : keys[i] = k
    <3>1. PICK i \in new : keys[i] = k
      BY <2>2
    <3>2. c[k] = Append(u.cached[k], blocks[i]) /\ blocks[i] \in Blocks /\ blocks[i] \in S
      BY <1>3, <1>10, <3>1, Zenon
    <3>3. blocks[i] \notin Elems(u.cached[k])
      BY <2>1, <3>2
    <3>4. /\ c[k] \in Seq(Blocks) /\ NoDup(c[k])
          /\ Elems(c[k]) = Elems(u.cached[k]) \cup {blocks[i]}
      <4> DEFINE t == u.cached[k]
                 e == blocks[i]
      <4> HIDE DEF t, e
      <4> QED
        BY <2>1, <3>2, <3>3, AppendElems DEF t, e
    <3>5. ASSUME NEW b \in Blocks PROVE k \in KeySet(h[b], u.more[b]) <=> b \in Elems(c[k])
      <4>1. CASE b \notin S
        BY <1>13, <2>1, <3>2, <3>4, <4>1
      <4>2. CASE b \in S
        <5>1. PICK j \in new : b = blocks[j]
          BY <4>2
        <5>2. KeySet(h[b], u.more[b]) = {keys[j]}
          BY <1>13, <5>1, Zenon
        <5>3. keys[j] = k <=> j = i
          BY <1>3, <3>1
        <5>4. b = blocks[i] <=> j = i
          BY <1>3, <5>1
        <5> QED
          BY <2>1, <3>4, <4>2, <5>2, <5>3, <5>4
      <4> QED
        BY <4>1, <4>2
    <3>6. Elems(c[k]) \subseteq Blocks
      BY <2>1, <3>2, <3>4
    <3> QED
      BY <3>4, <3>5, <3>6
  <2>3. CASE \A i \in new : keys[i] # k
    <3>1. c[k] = u.cached[k]
      BY <1>11, <2>3
    <3>2. ASSUME NEW b \in Blocks PROVE k \in KeySet(h[b], u.more[b]) <=> b \notin S /\ k \in KeysOf(p, b)
      <4>1. CASE b \notin S
        BY <1>13, <4>1
      <4>2. CASE b \in S
        <5>1. PICK j \in new : b = blocks[j]
          BY <4>2
        <5>2. KeySet(h[b], u.more[b]) = {keys[j]}
          BY <1>13, <5>1, Zenon
        <5> QED
          BY <2>3, <4>2, <5>2
      <4> QED
        BY <4>1, <4>2
    <3> HIDE DEF S
    <3> QED
      BY <2>1, <3>1, <3>2
  <2> QED
    BY <2>2, <2>3
<1>15. c \in [Keys -> Seq(Blocks)] /\ h \in [Blocks -> Keys \cup {NoHash}]
  BY <1>12, <1>13, <1>14
<1>16. /\ PoolInv(q) /\ q.ref_cnt = p.ref_cnt
       /\ \A b \in Blocks : KeysOf(q, b) = KeySet(h[b], u.more[b])
  <2> DEFINE m == u.more
  <2>1. HashesFit(c, h, m)
    BY <1>6, <1>13, <1>14, <1>15 DEF HashesFit
  <2> HIDE DEF m
  <2> QED
    BY <1>4, <1>7, <2>1, NewHashes DEF m
<1>17. \A i \in new : KeysOf(q, blocks[i]) = {keys[i]}
  <2> SUFFICES ASSUME NEW i \in new PROVE KeysOf(q, blocks[i]) = {keys[i]}
    OBVIOUS
  <2> DEFINE b == blocks[i]
  <2>1. b \in Blocks
    BY <1>3
  <2> HIDE DEF b, S
  <2>2. KeysOf(q, b) = KeySet(h[b], u.more[b])
    BY <1>16, <2>1
  <2>3. KeySet(h[b], u.more[b]) = {keys[i]}
    BY <1>13, <2>1, Zenon DEF b
  <2> QED
    BY <2>2, <2>3 DEF b
<1>18. ASSUME NEW b \in Blocks, \A i \in new : blocks[i] # b PROVE KeysOf(q, b) = KeysOf(p, b)
  BY <1>13, <1>16, <1>18
<1> QED
  BY <1>2, <1>16, <1>17, <1>18, Zenon DEF q, FoundUnder
=============================================================================
