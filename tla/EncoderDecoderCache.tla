------------------------ MODULE EncoderDecoderCache -------------------------
(***************************************************************************)
(* EncoderDecoderCacheManager, the manager for encoder-decoder models, and *)
(* the scheduler's calls of it. Every request has one encoder input at the *)
(* start of its sequence, needed only by its first step; nothing is shared *)
(* between requests. An output is dropped by the workers one step after    *)
(* the step that encoded it.                                               *)
(***************************************************************************)
EXTENDS Integers, Sequences, FiniteSets, SequencesExt

CONSTANTS
  Requests,
  num_embeds,                   \* of the input of every request
  cache_size,
  max_num_encoder_input_tokens, \* compute budget of a pass
  MaxSteps,                     \* bound on the steps of a request
  MaxFreeSlots,                 \* bound on num_free_slots up to which requests are preempted
  batch_queue_size

VARIABLES
  num_free_slots, allocated, to_free,   \* the manager
  status,                               \* "waiting", "running" or "finished"
  steps,                                \* passes the request was scheduled in
  pass,                                 \* the pass of schedule() under way
  queued, done,                         \* steps to run, steps to process
  encoder_cache,                        \* requests whose output the workers hold
  last_encoded                          \* requests encoded by the last step run

managerVars == <<num_free_slots, allocated, to_free>>
vars == <<managerVars, status, steps, pass, queued, done, encoder_cache, last_encoded>>

Idle == [open |-> FALSE, preempted |-> FALSE, order |-> << >>, encode |-> {}, budget |-> max_num_encoder_input_tokens]

Init ==
  /\ num_free_slots = cache_size
  /\ allocated = {}
  /\ to_free = {}
  /\ status = [r \in Requests |-> "waiting"]
  /\ steps = [r \in Requests |-> 0]
  /\ pass = Idle
  /\ queued = << >>
  /\ done = << >>
  /\ encoder_cache = {}
  /\ last_encoded = {}

\* can_allocate; num_embeds_to_schedule is 0 for the first input of a request.
CanAllocate(r) ==
  /\ num_embeds[r] <= pass.budget
  /\ num_embeds[r] <= num_free_slots

BeginSchedule ==
  /\ ~pass.open
  /\ Len(queued) + Len(done) < batch_queue_size
  /\ \E r \in Requests : status[r] # "finished"
  /\ pass' = [Idle EXCEPT !.open = TRUE]
  /\ UNCHANGED <<managerVars, status, steps, queued, done, encoder_cache, last_encoded>>

\* The first step of a request needs its encoder input: _try_schedule_encoder_inputs
\* asks for room and allocate takes it.
ScheduleFirst(r) ==
  /\ pass.open
  /\ ~pass.preempted
  /\ status[r] = "waiting"
  /\ CanAllocate(r)
  /\ num_free_slots' = num_free_slots - num_embeds[r]
  /\ allocated' = allocated \cup {r}
  /\ status' = [status EXCEPT ![r] = "running"]
  /\ steps' = [steps EXCEPT ![r] = 1]
  /\ pass' = [pass EXCEPT !.order = Append(@, r), !.encode = @ \cup {r}, !.budget = @ - num_embeds[r]]
  /\ UNCHANGED <<to_free, queued, done, encoder_cache, last_encoded>>

\* A later step needs no encoder input.
ScheduleNext(r) ==
  /\ pass.open
  /\ status[r] = "running"
  /\ steps[r] < MaxSteps
  /\ r \notin ToSet(pass.order)
  /\ steps' = [steps EXCEPT ![r] = @ + 1]
  /\ pass' = [pass EXCEPT !.order = Append(@, r)]
  /\ UNCHANGED <<managerVars, status, queued, done, encoder_cache, last_encoded>>

\* A running request that this pass has not reached loses its blocks. It starts
\* again from its first step, and the pass admits nobody.
PreemptRequest(r) ==
  /\ pass.open
  /\ num_free_slots <= MaxFreeSlots
  /\ pass.encode = {}
  /\ status[r] = "running"
  /\ r \notin ToSet(pass.order)
  /\ status' = [status EXCEPT ![r] = "waiting"]
  /\ steps' = [steps EXCEPT ![r] = 0]
  /\ num_free_slots' = num_free_slots + num_embeds[r]
  /\ pass' = [pass EXCEPT !.preempted = TRUE]
  /\ UNCHANGED <<allocated, to_free, queued, done, encoder_cache, last_encoded>>

\* Mutant: the outputs just allocated are never handed on.
NeverRotates ==
  /\ pass.open
  /\ queued' = Append(queued, [order |-> pass.order, encode |-> pass.encode, drop |-> to_free])
  /\ to_free' = {}
  /\ allocated' = {}
  /\ pass' = Idle
  /\ UNCHANGED <<num_free_slots, status, steps, done, encoder_cache, last_encoded>>

\* The end of schedule(), with get_freed_mm_hashes.
EndSchedule ==
  /\ pass.open
  /\ queued' = Append(queued, [order |-> pass.order, encode |-> pass.encode, drop |-> to_free])
  /\ to_free' = allocated
  /\ allocated' = {}
  /\ pass' = Idle
  /\ UNCHANGED <<num_free_slots, status, steps, done, encoder_cache, last_encoded>>

ExecuteModel ==
  /\ queued # << >>
  /\ encoder_cache' = (encoder_cache \ Head(queued).drop) \cup Head(queued).encode
  /\ last_encoded' = Head(queued).encode
  /\ done' = Append(done, Head(queued))
  /\ queued' = Tail(queued)
  /\ UNCHANGED <<managerVars, status, steps, pass>>

\* The slots that get_cached_input_ids and free_encoder_input give back.
SlotsOf(S) == FoldSet(LAMBDA r, sum : num_embeds[r] + sum, 0, S)

\* update_from_output: every live request of the step goes through
\* _free_encoder_inputs, and a request that stops through free as well.
UpdateFromOutput ==
  /\ ~pass.open
  /\ done # << >>
  /\ LET live == {r \in ToSet(Head(done).order) : status[r] # "finished"}
     IN \E stopped \in SUBSET live :
          /\ num_free_slots' = num_free_slots + SlotsOf({r \in live : steps[r] > 0}) + SlotsOf(stopped)
          /\ status' = [r \in Requests |-> IF r \in stopped THEN "finished" ELSE status[r]]
  /\ done' = Tail(done)
  /\ UNCHANGED <<allocated, to_free, steps, pass, queued, encoder_cache, last_encoded>>

AbortRequest(r) ==
  /\ ~pass.open
  /\ status[r] # "finished"
  /\ status' = [status EXCEPT ![r] = "finished"]
  /\ num_free_slots' = num_free_slots + num_embeds[r]
  /\ UNCHANGED <<allocated, to_free, steps, pass, queued, done, encoder_cache, last_encoded>>

Next ==
  \/ BeginSchedule \/ EndSchedule \/ ExecuteModel \/ UpdateFromOutput
  \/ \E r \in Requests : ScheduleFirst(r) \/ ScheduleNext(r) \/ PreemptRequest(r) \/ AbortRequest(r)

Spec == Init /\ [][Next]_vars

----------------------------------------------------------------------------
(* Properties                                                              *)

\* The workers hold an output until the next step and no longer: the two lists
\* through which an allocation passes lose none and report none early, however
\* many steps are in flight.
OutputsLiveOneStep == encoder_cache = last_encoded
=============================================================================
