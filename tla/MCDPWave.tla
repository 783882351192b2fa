------------------------------ MODULE MCDPWave ------------------------------
(***************************************************************************)
(* Two engines, one front-end and requests of different lengths.           *)
(***************************************************************************)
EXTENDS DPWave, TLC

CONSTANTS c1, r1, r2

MCSteps == [r \in Requests |-> IF r = r1 THEN 1 ELSE 2]
=============================================================================
