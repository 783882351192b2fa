-------------------------- MODULE MCLinkedBlockPool --------------------------
(***************************************************************************)
(* Three blocks and the hashes of two boundaries of one prefix and of      *)
(* another prompt's first boundary.                                        *)
(***************************************************************************)
EXTENDS LinkedBlockPool, TLC

CONSTANTS b1, b2, b3, kA, kB, kC

MCHashTokens  == (kA :> 1) @@ (kB :> 2) @@ (kC :> 1)

\* Blocks are interchangeable after the initial state.
BlockSymmetry == Permutations({b1, b2, b3})
=============================================================================
