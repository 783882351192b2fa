----------------------------- MODULE BroadcastLog -----------------------------
(***************************************************************************)
(* What MessageQueue promises: one writer's messages reach every reader,   *)
(* each exactly once and in the order in which they were written, and a    *)
(* local reader that falls behind stops the writer.                        *)
(***************************************************************************)
EXTENDS Naturals, Sequences

CONSTANTS
  Readers,
  Bounded,    \* the readers that the writer waits for
  Capacity,   \* how far they may be behind when the writer goes on
  Messages

VARIABLES
  log,        \* the messages written
  delivered   \* delivered[r]: the messages reader r has taken

vars == <<log, delivered>>

Init == log = <<>> /\ delivered = [r \in Readers |-> <<>>]

Write(m) ==
  /\ \A r \in Bounded : Len(log) - Len(delivered[r]) <= Capacity
  /\ log' = Append(log, m)
  /\ UNCHANGED delivered

Deliver(r) ==
  /\ Len(delivered[r]) < Len(log)
  /\ delivered' = [delivered EXCEPT ![r] = Append(@, log[Len(@) + 1])]
  /\ UNCHANGED log

Next == (\E m \in Messages : Write(m)) \/ \E r \in Readers : Deliver(r)

Spec == Init /\ [][Next]_vars
=============================================================================
