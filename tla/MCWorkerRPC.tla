----------------------------- MODULE MCWorkerRPC -----------------------------
(***************************************************************************)
(* Two workers. The first replies for the model, calls of all workers are  *)
(* made in between, and the queues hold fewer messages than there are      *)
(* calls.                                                                  *)
(***************************************************************************)
EXTENDS WorkerRPC

Kind(reply, timed, non_block, collective) ==
  [reply |-> reply, timed |-> timed, non_block |-> non_block, collective |-> collective]

\* execute_model, check_health, and any other method.
MCKinds == {Kind(1, TRUE, TRUE, TRUE), Kind(All, TRUE, FALSE, FALSE), Kind(All, FALSE, FALSE, FALSE)}
=============================================================================
