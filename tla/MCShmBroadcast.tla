---------------------------- MODULE MCShmBroadcast ----------------------------
(***************************************************************************)
(* Two local readers, one remote reader and a ring of two chunks that the  *)
(* writer laps.                                                            *)
(***************************************************************************)
EXTENDS ShmBroadcast
=============================================================================
