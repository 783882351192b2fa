---------------------------- MODULE FreeBlockQueue ----------------------------
(***************************************************************************)
(* FreeKVCacheBlockQueue, the queue of free blocks as a doubly linked list *)
(* between a fake head and a fake tail. The list is a record L:            *)
(*   L.next, L.prev      next_free_block and prev_free_block of every block*)
(*   L.num_free_blocks   the count, maintained beside the links            *)
(* and each method is an operator from the list before to the list after.  *)
(***************************************************************************)
EXTENDS Integers, Sequences

CONSTANTS Head_, Tail_, Nil   \* the fake head and tail, and None

LOCAL INSTANCE SequencesExt

\* Consecutive blocks of the chain are linked to each other, in both directions.
Linked(L, chain) ==
  LET At(b) == CHOOSE i \in DOMAIN chain : chain[i] = b
  IN [L EXCEPT
        !.next = [b \in DOMAIN @ |-> IF b \in Range(Front(chain)) THEN chain[At(b) + 1] ELSE @[b]],
        !.prev = [b \in DOMAIN @ |-> IF b \in Range(Tail(chain)) THEN chain[At(b) - 1] ELSE @[b]]]

Unlinked(L, blocks) ==
  [L EXCEPT !.next = [b \in DOMAIN @ |-> IF b \in Range(blocks) THEN Nil ELSE @[b]],
            !.prev = [b \in DOMAIN @ |-> IF b \in Range(blocks) THEN Nil ELSE @[b]]]

\* __init__
NewQueue(blocks) ==
  LET none == [b \in Range(blocks) \cup {Head_, Tail_} |-> Nil]
  IN Linked([next |-> none, prev |-> none, num_free_blocks |-> Len(blocks)],
            <<Head_>> \o blocks \o <<Tail_>>)

\* The first n blocks, read along the links.
First(L, n) ==
  LET walk[i \in 0..n] == IF i = 0 THEN Head_ ELSE L.next[walk[i - 1]]
  IN [i \in 1..n |-> walk[i]]

popleft_n(L, n) ==
  LET ret == First(L, n)
      popped == Linked(Unlinked(L, ret), <<Head_, L.next[ret[n]]>>)
  IN IF n = 0 THEN L ELSE [popped EXCEPT !.num_free_blocks = @ - n]

remove(L, b) ==
  [Unlinked(Linked(L, <<L.prev[b], L.next[b]>>), <<b>>) EXCEPT !.num_free_blocks = @ - 1]

\* Mutant: one block after the other is put behind the head.
PrependOneByOne(L, blocks) ==
  IF blocks = <<>> THEN L
  ELSE [Linked(L, <<Head_>> \o Reverse(blocks) \o <<L.next[Head_]>>) EXCEPT
          !.num_free_blocks = @ + Len(blocks)]

prepend_n(L, blocks) ==
  IF blocks = <<>> THEN L
  ELSE [Linked(L, <<Head_>> \o blocks \o <<L.next[Head_]>>) EXCEPT
          !.num_free_blocks = @ + Len(blocks)]

\* Mutant: the blocks are linked after the last block, but the tail is not moved.
AppendForgetsTail(L, blocks) ==
  IF blocks = <<>> THEN L
  ELSE [Linked(L, <<L.prev[Tail_]>> \o blocks) EXCEPT
          !.next[blocks[Len(blocks)]] = Tail_, !.num_free_blocks = @ + Len(blocks)]

append_n(L, blocks) ==
  IF blocks = <<>> THEN L
  ELSE [Linked(L, <<L.prev[Tail_]>> \o blocks \o <<Tail_>>) EXCEPT
          !.num_free_blocks = @ + Len(blocks)]

\* The blocks from b on, along the links.
RECURSIVE From(_, _)
From(L, b) == IF L.next[b] = Nil THEN <<>> ELSE <<b>> \o From(L, L.next[b])

get_all_free_blocks(L) == From(L, L.next[Head_])

\* The links and the count describe one list: they lead from the head through
\* each linked block once to the tail and back again, and a block outside has none.
WellLinked(L) ==
  LET free  == get_all_free_blocks(L)
      chain == <<Head_>> \o free \o <<Tail_>>
  IN /\ L.num_free_blocks = Len(free)
     /\ \A i \in 1..Len(chain) - 1 : L.next[chain[i]] = chain[i + 1] /\ L.prev[chain[i + 1]] = chain[i]
     /\ \A b \in DOMAIN L.next \ Range(chain) : L.next[b] = Nil /\ L.prev[b] = Nil
=============================================================================
