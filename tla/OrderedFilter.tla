---------------------------- MODULE OrderedFilter ----------------------------
(***************************************************************************)
(* The order-preserving filter of a Python list comprehension              *)
(* ([x for x in s if x in S]), defined by the rank of each kept position   *)
(* instead of by recursion, so that facts about it can be proved.          *)
(***************************************************************************)
EXTENDS Integers, Sequences, FiniteSets

\* The elements of a list.
Elems(s) == {s[i] : i \in DOMAIN s}

\* No element occurs twice in the list.
NoDup(s) == \A i, j \in DOMAIN s : s[i] = s[j] => i = j

\* The positions of s that the filter keeps.
Kept(s, S) == {i \in 1..Len(s) : s[i] \in S}

\* How many kept positions are at most i.
Rank(s, S, i) == Cardinality({j \in Kept(s, S) : j <= i})

\* [x for x in s if x in S]
Filter(s, S) ==
  [k \in 1..Cardinality(Kept(s, S)) |->
     s[CHOOSE i \in Kept(s, S) : Rank(s, S, i) = k]]

\* The list read backwards.
Reversed(s) == [i \in 1..Len(s) |-> s[Len(s) + 1 - i]]
=============================================================================
