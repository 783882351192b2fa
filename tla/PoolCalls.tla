------------------------------ MODULE PoolCalls ------------------------------
(***************************************************************************)
(* The calls of the block pool that its clients make: lists of distinct    *)
(* blocks, of bounded length.                                              *)
(***************************************************************************)
EXTENDS BlockPool

CONSTANTS
  MaxRef,   \* bound on the holders of one block
  MaxList   \* bound on the blocks named in one call

ASSUME ClientAssumption == MaxRef \in Nat /\ MaxList \in Nat

\* The duplicate-free lists of at most MaxList elements of S.
Lists(S) == {s \in UNION {[1..n -> S] : n \in 1..MaxList} : NoDup(s)}
=============================================================================
