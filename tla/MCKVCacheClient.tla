-------------------------- MODULE MCKVCacheClient ---------------------------
(***************************************************************************)
(* Two requests whose prompts share their first block, over four blocks:   *)
(* hits, duplicates of a cached block, eviction and exhaustion of the      *)
(* queue all occur.                                                        *)
(***************************************************************************)
EXTENDS KVCacheClient, TLC

CONSTANTS r1, r2, b1, b2, b3, b4, kA, kB, kC, kD, kE

MCBlockHashes == (r1 :> <<kA, kB, kD>>) @@ (r2 :> <<kA, kC, kE>>)
MCHashTokens  == (kA :> 2) @@ (kB :> 4) @@ (kC :> 4) @@ (kD :> 6) @@ (kE :> 6)

\* At most MaxPopped releases are owed at a time.
MaxPopped   == 2
PoppedBound == Len(popped) <= MaxPopped

\* Blocks are interchangeable after the initial state.
BlockSymmetry == Permutations({b1, b2, b3, b4})
=============================================================================
