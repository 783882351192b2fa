---------------------------- MODULE EncoderCache ----------------------------
(***************************************************************************)
(* EncoderCacheManager: which encoder outputs (image embeddings and the    *)
(* like) the workers hold, and which requests refer to them. A manager is  *)
(* a record m; every method is an operator from a manager to a manager.    *)
(*                                                                         *)
(* An input of a request is a record with the identifier of its content,   *)
(* its placeholder range (offset, length) in the prompt, and the positions *)
(* of the range that take an embedding. Inputs are numbered from 1.        *)
(***************************************************************************)
EXTENDS Integers, Sequences, FiniteSets, SequencesExt

CONSTANTS
  Requests,      \* request identifiers
  mm_features,   \* the inputs of every request, by increasing offset
  cache_size     \* the capacity, in embeddings

Inputs(r)        == DOMAIN mm_features[r]
Identifier(r, i) == mm_features[r][i].identifier
Hashes           == UNION {{Identifier(r, i) : i \in Inputs(r)} : r \in Requests}

get_num_encoder_embeds(r, i) == Cardinality(mm_features[r][i].embeds)

\* Ranges are ordered and disjoint, equal identifiers mean equal content, and
\* an input that exceeds the cache is rejected when the request arrives.
ASSUME InputsAssumption ==
  /\ cache_size \in Nat
  /\ \A r \in Requests : \A i \in Inputs(r) :
       /\ mm_features[r][i].embeds \subseteq
            mm_features[r][i].offset..(mm_features[r][i].offset + mm_features[r][i].length - 1)
       /\ get_num_encoder_embeds(r, i) \in 1..cache_size
       /\ \A j \in Inputs(r) : i < j =>
            mm_features[r][i].offset + mm_features[r][i].length <= mm_features[r][j].offset
       /\ \A q \in Requests : \A j \in Inputs(q) : Identifier(r, i) = Identifier(q, j) =>
            get_num_encoder_embeds(r, i) = get_num_encoder_embeds(q, j)

\* The manager after __init__ and after reset().
EmptyManager ==
  [cached             |-> << >>,                          \* identifier -> requests that refer to it
   request_cached_ids |-> [r \in Requests |-> {}],        \* {} is an absent key
   freeable           |-> << >>,                          \* entries without references, oldest first
   freed              |-> {},                             \* evicted since the workers were last told
   num_free_slots     |-> cache_size,
   num_freeable_slots |-> cache_size]

IsCached(m, r, i) == Identifier(r, i) \in DOMAIN m.cached

\* check_and_update_cache when it returns True.
check_and_update_cache(m, r, i) ==
  LET h == Identifier(r, i)
      unreferenced == m.cached[h] = {}
  IN [m EXCEPT !.cached[h] = @ \cup {r},
               !.request_cached_ids[r] = @ \cup {i},
               !.freeable = IF unreferenced THEN SelectSeq(@, LAMBDA e : e.mm_hash # h) ELSE @,
               !.num_freeable_slots = IF unreferenced THEN @ - get_num_encoder_embeds(r, i) ELSE @]

\* What can_allocate returns.
CanAllocate(m, r, i, encoder_compute_budget, num_embeds_to_schedule) ==
  LET num_embeds == get_num_encoder_embeds(r, i)
  IN /\ num_embeds <= encoder_compute_budget
     /\ \/ num_embeds + num_embeds_to_schedule <= m.num_free_slots
        \/ num_embeds + num_embeds_to_schedule <= m.num_freeable_slots

\* The slots of the k oldest evictable entries.
SlotsOf(entries, k) == FoldLeft(LAMBDA sum, e : sum + e.num_embeds, 0, SubSeq(entries, 1, k))

\* Mutant: the workers are not told what was evicted.
EvictSilently(m, num_embeds) ==
  LET k == Min({n \in 0..Len(m.freeable) : num_embeds <= m.num_free_slots + SlotsOf(m.freeable, n)})
      evicted == {m.freeable[n].mm_hash : n \in 1..k}
  IN [m EXCEPT !.freeable = SubSeq(@, k + 1, Len(@)),
               !.cached = Restrict(@, DOMAIN @ \ evicted),
               !.num_free_slots = @ + SlotsOf(m.freeable, k)]

\* What can_allocate does when it returns True: the oldest entries without
\* references are evicted until num_embeds slots are free.
EvictUntil(m, num_embeds) ==
  LET k == Min({n \in 0..Len(m.freeable) : num_embeds <= m.num_free_slots + SlotsOf(m.freeable, n)})
      evicted == {m.freeable[n].mm_hash : n \in 1..k}
  IN [m EXCEPT !.freeable = SubSeq(@, k + 1, Len(@)),
               !.cached = Restrict(@, DOMAIN @ \ evicted),
               !.freed = @ \cup evicted,
               !.num_free_slots = @ + SlotsOf(m.freeable, k)]

\* Mutant: the slots stay reclaimable.
AllocateReclaimable(m, r, i) ==
  LET h == Identifier(r, i)
      refs == IF h \in DOMAIN m.cached THEN m.cached[h] ELSE {}
  IN [m EXCEPT !.cached = [g \in DOMAIN @ \cup {h} |-> IF g = h THEN refs \cup {r} ELSE @[g]],
               !.request_cached_ids[r] = @ \cup {i},
               !.num_free_slots = @ - get_num_encoder_embeds(r, i)]

allocate(m, r, i) ==
  LET h == Identifier(r, i)
      refs == IF h \in DOMAIN m.cached THEN m.cached[h] ELSE {}
  IN [m EXCEPT !.cached = [g \in DOMAIN @ \cup {h} |-> IF g = h THEN refs \cup {r} ELSE @[g]],
               !.request_cached_ids[r] = @ \cup {i},
               !.num_free_slots = @ - get_num_encoder_embeds(r, i),
               !.num_freeable_slots = @ - get_num_encoder_embeds(r, i)]

\* The request's reference is dropped; the entry of a last reference becomes
\* evictable. The entry may be gone, or unreferenced, already.
free_encoder_input(m, r, i) ==
  LET h == Identifier(r, i)
      refs == IF h \in DOMAIN m.cached THEN m.cached[h] ELSE {}
      last == refs = {r}
  IN [m EXCEPT !.request_cached_ids[r] = @ \ {i},
               !.cached = [g \in DOMAIN @ |-> IF g = h THEN refs \ {r} ELSE @[g]],
               !.freeable = IF last
                 THEN Append(@, [mm_hash |-> h, num_embeds |-> get_num_encoder_embeds(r, i)])
                 ELSE @,
               !.num_freeable_slots = IF last THEN @ + get_num_encoder_embeds(r, i) ELSE @]

FreeInputs(m, r, ids) ==
  FoldLeft(LAMBDA acc, i : free_encoder_input(acc, r, i), m, SetToSortSeq(ids, <))

free(m, r) == FreeInputs(m, r, m.request_cached_ids[r])

\* get_freed_mm_hashes, which also empties freed.
get_freed_mm_hashes(m) == m.freed \ DOMAIN m.cached

----------------------------------------------------------------------------
(* What the manager's fields mean                                          *)

\* freeable lists exactly the entries without references, once each, and the
\* two counters are what the entries leave of the capacity: free slots belong
\* to no entry, freeable ones to no entry that a request refers to. A request
\* that refers to an entry has an input with that content on record.
ManagerConsistent(m) ==
  LET unreferenced == {h \in DOMAIN m.cached : m.cached[h] = {}}
      SizeOf(h) == CHOOSE n \in 1..cache_size :
        \E r \in Requests : \E i \in Inputs(r) : Identifier(r, i) = h /\ get_num_encoder_embeds(r, i) = n
      Size(S) == MapThenSumSet(SizeOf, S)
  IN /\ {e.mm_hash : e \in ToSet(m.freeable)} = unreferenced
     /\ Len(m.freeable) = Cardinality(unreferenced)
     /\ m.num_free_slots = cache_size - Size(DOMAIN m.cached)
     /\ m.num_freeable_slots = cache_size - Size(DOMAIN m.cached \ unreferenced)
     /\ m.num_free_slots >= 0
     /\ \A h \in DOMAIN m.cached : \A r \in m.cached[h] :
          \E i \in m.request_cached_ids[r] : Identifier(r, i) = h
=============================================================================
