-------------------------- MODULE EncoderScheduler --------------------------
(***************************************************************************)
(* The scheduler's use of the encoder cache, and the workers' copy of it.  *)
(* A pass of schedule() visits the running requests and then admits        *)
(* waiting ones; each takes the encoder inputs of its window from the      *)
(* cache or has them encoded. The finished step is queued to the workers,  *)
(* which run it in order: drop what was evicted, encode, and gather the    *)
(* embeddings of every scheduled position. update_from_output() releases   *)
(* inputs whose positions have been passed.                                *)
(*                                                                         *)
(* KV blocks are abstract: allocate_slots may refuse at any time (unless   *)
(* config says that blocks are plenty), and a prefix-cache hit may have    *)
(* any length in HitLengths. The configuration is chosen when the engine   *)
(* starts, from the set Configurations.                                    *)
(***************************************************************************)
EXTENDS EncoderCache

CONSTANTS
  num_prompt_tokens,            \* per request
  max_tokens,                   \* per request
  max_num_scheduled_tokens,     \* token budget of a pass
  long_prefill_token_threshold, \* 0: no limit
  max_num_encoder_input_tokens, \* compute budget of a pass, in embeddings
  AsyncScheduling,
  PriorityPolicy,               \* else first come, first served
  priority,                     \* per request, distinct; lower is more urgent
  RemoteItems,                  \* identifiers the EC connector can load
  HitLengths,                   \* possible prefix-cache hits, in tokens
  batch_queue_size,             \* steps in flight
  Configurations                \* the possible values of config

VARIABLES
  config,                    \* the configuration, see below
  manager,                   \* encoder_cache_manager
  status,                    \* "new", "waiting", "running" or "finished"
  running, waiting,
  num_computed_tokens, num_tokens, num_output_placeholders,
  pc,                        \* "idle", or the loop of schedule() being run
  local,                     \* the other local variables of schedule()
  queued,                    \* steps the workers have not run yet
  done,                      \* steps run, their output not processed yet
  encoder_cache              \* the outputs the workers hold

requestVars == <<num_computed_tokens, num_tokens, num_output_placeholders>>
queueVars   == <<status, running, waiting>>
workerVars  == <<queued, done, encoder_cache>>
vars        == <<config, manager, queueVars, requestVars, pc, local, workerVars>>

num_prefill_lookahead    == config.num_prefill_lookahead     \* positions the drafter reads ahead, 0 without one
disable_chunked_mm_input == config.disable_chunked_mm_input
drop_stale_output        == config.drop_stale_output         \* outputs of a preempted attempt are dropped
Undisturbed              == config.undisturbed               \* blocks are plenty, and nobody aborts or resets

\* order: the scheduled requests; start and num: their tokens; encode: the
\* inputs to encode; load: the identifiers the connector loads; drop:
\* free_encoder_mm_hashes; sampled: the requests that get an output token;
\* stale: those preempted while the step was in flight.
EmptyStep ==
  [order  |-> << >>,
   start  |-> [r \in Requests |-> 0],
   num    |-> [r \in Requests |-> 0],
   encode |-> [r \in Requests |-> {}],
   load   |-> {},
   drop   |-> {},
   sampled |-> {},
   stale  |-> {}]

EmptyLocal ==
  [req_index |-> 1,
   token_budget |-> max_num_scheduled_tokens,
   encoder_compute_budget |-> max_num_encoder_input_tokens,
   preempted |-> FALSE,
   broke |-> FALSE,
   step |-> EmptyStep]

InFlight == Len(queued) + Len(done)

----------------------------------------------------------------------------
(* One request's encoder inputs                                            *)

\* get_mm_features_in_window: the inputs that overlap [start, end).
InWindow(r, start, end) ==
  {i \in Inputs(r) : /\ mm_features[r][i].offset + mm_features[r][i].length > start
                     /\ mm_features[r][i].offset < end}

\* get_embeds_indices_in_range is not empty.
HasEmbedsIn(r, i, start, end) == mm_features[r][i].embeds \cap start..(end - 1) # {}

PartlyCovered(r, i, computed, num) ==
  /\ disable_chunked_mm_input
  /\ computed < mm_features[r][i].offset
  /\ computed + num < mm_features[r][i].offset + mm_features[r][i].length

\* Mutant: the drafter's look-ahead may reach the refused input.
TokensUpTo(r, i, computed, num) == Max({0, mm_features[r][i].offset - computed})

\* The tokens that can still be scheduled when the input has no room.
TokensBefore(r, i, computed, num) == Max({0, mm_features[r][i].offset - (computed + num_prefill_lookahead)})

\* _try_schedule_encoder_inputs: the inputs of the window in order, up to the
\* first that must wait.
TryScheduleEncoderInputs(m, r, computed, num_new_tokens, encoder_compute_budget) ==
  LET end == computed + num_new_tokens + num_prefill_lookahead
      Visit(acc, i) ==
        LET taken == acc.encode \cup acc.load
            evicting == EvictUntil(acc.m, get_num_encoder_embeds(r, i) + acc.num_embeds)
        IN CASE acc.stop -> acc
             [] \E j \in taken : Identifier(r, j) = Identifier(r, i) -> acc
             [] IsCached(acc.m, r, i) ->
                  [acc EXCEPT !.m = check_and_update_cache(@, r, i)]
             [] \/ PartlyCovered(r, i, computed, num_new_tokens)
                \/ ~CanAllocate(acc.m, r, i, acc.budget, acc.num_embeds) ->
                  [acc EXCEPT !.num = TokensBefore(r, i, computed, @), !.stop = TRUE]
             [] ~HasEmbedsIn(r, i, computed, end) ->
                  [acc EXCEPT !.m = evicting]
             [] Identifier(r, i) \in RemoteItems ->
                  [acc EXCEPT !.m = evicting, !.load = @ \cup {i},
                              !.num_embeds = @ + get_num_encoder_embeds(r, i)]
             [] OTHER ->
                  [acc EXCEPT !.m = evicting, !.encode = @ \cup {i},
                              !.num_embeds = @ + get_num_encoder_embeds(r, i),
                              !.budget = @ - get_num_encoder_embeds(r, i)]
  IN FoldLeft(Visit,
              [m |-> m, num |-> num_new_tokens, budget |-> encoder_compute_budget,
               encode |-> {}, load |-> {}, num_embeds |-> 0, stop |-> FALSE],
              SetToSortSeq(InWindow(r, computed, end), <))

\* _reserve_prefill_lookahead: no chunk ends within the look-ahead of the end.
ReservePrefillLookahead(r, computed, num) ==
  LET remaining == num_tokens[r] - computed - num
  IN IF 0 < remaining /\ remaining < num_prefill_lookahead
     THEN Max({0, num - (num_prefill_lookahead - remaining)})
     ELSE num

\* The encoder part of scheduling a request: its inputs enter the cache.
AllocateInputs(m, r, t) ==
  FoldLeft(LAMBDA acc, i : allocate(acc, r, i), m,
           SetToSortSeq(t.encode, <) \o SetToSortSeq(t.load, <))

\* The step and the budgets with r's num tokens scheduled from computed on.
WithRequest(l, r, computed, num, t) ==
  [l EXCEPT !.token_budget = @ - num,
            !.encoder_compute_budget = IF t.encode = {} THEN @ ELSE t.budget,
            !.step.order = Append(@, r),
            !.step.start[r] = computed,
            !.step.num[r] = num,
            !.step.encode[r] = t.encode,
            !.step.load = @ \cup {Identifier(r, i) : i \in t.load}]

\* A request that is preempted after it was scheduled in this pass leaves the
\* step; what the connector was told to load for it stays.
WithoutRequest(l, r) ==
  [l EXCEPT !.token_budget = @ + l.step.num[r],
            !.encoder_compute_budget =
               @ + FoldSet(LAMBDA i, sum : get_num_encoder_embeds(r, i) + sum, 0, l.step.encode[r]),
            !.step.order = SelectSeq(@, LAMBDA q : q # r),
            !.step.num[r] = 0,
            !.step.encode[r] = {}]

LongPrefill(num) ==
  IF 0 < long_prefill_token_threshold /\ long_prefill_token_threshold < num
  THEN long_prefill_token_threshold ELSE num

----------------------------------------------------------------------------
(* schedule()                                                              *)

CanBegin ==
  /\ pc = "idle"
  /\ waiting # << >> \/ running # << >>
  /\ InFlight < batch_queue_size

BeginSchedule ==
  /\ CanBegin
  /\ pc' = "running"
  /\ local' = EmptyLocal
  /\ UNCHANGED <<manager, queueVars, requestVars, workerVars>>

\* The requests in the order in which they would be preempted.
VictimOrder ==
  IF PriorityPolicy
  THEN SetToSortSeq(ToSet(running), LAMBDA q, r : priority[q] > priority[r])
  ELSE Reverse(running)

MarkStale(steps, victims) ==
  [n \in DOMAIN steps |->
     [steps[n] EXCEPT !.stale = @ \cup (victims \cap ToSet(steps[n].order))]]

\* Async scheduling: the step in flight already reaches max_tokens.
AtLimit(r) ==
  /\ num_output_placeholders[r] > 0
  /\ num_computed_tokens[r] + 2 - num_output_placeholders[r] >= num_prompt_tokens[r] + max_tokens[r]

\* The encoder side of _preempt_request for the victims, in order.
FreeVictims(m, victims) == FoldLeft(LAMBDA acc, v : free(acc, v), m, victims)

\* _preempt_request: back to the head of the waiting queue, computed from the
\* start again, and every output still in flight is stale.
Preempt(victims) ==
  LET V == ToSet(victims)
  IN /\ status' = [r \in Requests |-> IF r \in V THEN "waiting" ELSE status[r]]
     /\ running' = SelectSeq(running, LAMBDA r : r \notin V)
     /\ waiting' = Reverse(victims) \o waiting
     /\ num_computed_tokens' = [r \in Requests |-> IF r \in V THEN 0 ELSE num_computed_tokens[r]]
     /\ num_output_placeholders' = [r \in Requests |-> IF r \in V THEN 0 ELSE num_output_placeholders[r]]
     /\ queued' = MarkStale(queued, V)
     /\ done' = MarkStale(done, V)
     /\ UNCHANGED <<num_tokens, encoder_cache>>

\* One iteration over the running requests. The request is skipped when it has
\* nothing to compute or its next input has no room. Otherwise allocate_slots
\* is retried after each preemption, until it succeeds or the request itself
\* has been preempted, which ends the loop.
ScheduleRunning ==
  /\ pc = "running"
  /\ local.req_index <= Len(running)
  /\ local.token_budget > 0
  /\ LET r == running[local.req_index]
         computed == num_computed_tokens[r]
         num_new == IF AtLimit(r) THEN 0
                    ELSE Min({LongPrefill(num_tokens[r] + num_output_placeholders[r] - computed),
                              local.token_budget})
         t == TryScheduleEncoderInputs(manager, r, computed, num_new, local.encoder_compute_budget)
         num == ReservePrefillLookahead(r, computed, t.num)
         rank == SelectInSeq(VictimOrder, LAMBDA v : v = r)
     IN \/ /\ num_new = 0 \/ num = 0
           /\ manager' = IF num_new = 0 THEN manager ELSE t.m
           /\ local' = [local EXCEPT !.req_index = @ + 1]
           /\ UNCHANGED <<pc, queueVars, requestVars, workerVars>>
        \/ /\ num_new > 0 /\ num > 0
           /\ \E k \in 0..(IF Undisturbed THEN 0 ELSE rank) :
                LET victims == SubSeq(VictimOrder, 1, k)
                    freed == FreeVictims(t.m, victims)
                    without == [FoldLeft(WithoutRequest, local, victims) EXCEPT !.preempted = @ \/ k > 0]
                IN /\ Preempt(victims)
                   /\ \/ /\ k < rank
                         /\ manager' = AllocateInputs(freed, r, t)
                         /\ local' = [WithRequest(without, r, computed, num, t) EXCEPT
                                        !.req_index = SelectInSeq(running', LAMBDA q : q = r) + 1]
                         /\ pc' = pc
                      \/ /\ k = rank
                         /\ manager' = freed
                         /\ local' = without
                         /\ pc' = "end"

RunningDone == pc = "running" /\ (local.req_index > Len(running) \/ local.token_budget = 0)

\* Deliverable output of an earlier attempt is in flight: the request is passed
\* over. (Scheduler has the queues; here it keeps its place.)
AwaitsOutput(r) == ~drop_stale_output /\ \E step \in ToSet(queued) \cup ToSet(done) : r \in step.stale

Ready == SelectSeq(waiting, LAMBDA r : ~AwaitsOutput(r))

\* peek_request of the waiting queue.
NextWaiting ==
  IF PriorityPolicy
  THEN CHOOSE r \in ToSet(Ready) : \A q \in ToSet(Ready) : priority[r] <= priority[q]
  ELSE Head(Ready)

AdmitsMore == RunningDone /\ ~local.preempted /\ ~local.broke /\ Ready # << >> /\ local.token_budget > 0

\* One iteration over the waiting requests: the request is admitted, or the
\* loop ends. References taken for a request that is then refused its blocks
\* are given back.
ScheduleWaiting ==
  /\ AdmitsMore
  /\ \E hit \in HitLengths :
       LET r == NextWaiting
           num_new == Min({LongPrefill(num_tokens[r] - hit), local.token_budget})
           t == TryScheduleEncoderInputs(manager, r, hit, num_new, local.encoder_compute_budget)
           num == ReservePrefillLookahead(r, hit, t.num)
       IN /\ hit < num_tokens[r]
          /\ \/ /\ num = 0
                /\ manager' = t.m
                /\ local' = [local EXCEPT !.broke = TRUE]
                /\ UNCHANGED <<queueVars, requestVars>>
             \/ /\ num > 0 /\ ~Undisturbed
                /\ manager' = free(t.m, r)
                /\ local' = [local EXCEPT !.broke = TRUE]
                /\ UNCHANGED <<queueVars, requestVars>>
             \/ /\ num > 0
                /\ manager' = AllocateInputs(t.m, r, t)
                /\ local' = [WithRequest(local, r, hit, num, t) EXCEPT !.req_index = @ + 1]
                /\ status' = [status EXCEPT ![r] = "running"]
                /\ running' = Append(running, r)
                /\ waiting' = SelectSeq(waiting, LAMBDA q : q # r)
                /\ num_computed_tokens' = [num_computed_tokens EXCEPT ![r] = hit]
                /\ UNCHANGED <<num_tokens, num_output_placeholders>>
          /\ UNCHANGED <<pc, workerVars>>

\* The end of schedule(): the workers are told what to drop, and
\* _update_after_schedule advances the scheduled requests.
EndSchedule ==
  /\ pc = "end" \/ (RunningDone /\ ~AdmitsMore)
  /\ LET step == local.step
         advanced == [r \in Requests |-> num_computed_tokens[r] + step.num[r]]
         sampled == {r \in ToSet(step.order) : advanced[r] = num_tokens[r] + num_output_placeholders[r]}
     IN /\ num_computed_tokens' = advanced
        /\ num_output_placeholders' = [r \in Requests |->
             num_output_placeholders[r] + (IF AsyncScheduling /\ r \in sampled THEN 1 ELSE 0)]
        /\ queued' = Append(queued, [step EXCEPT !.drop = get_freed_mm_hashes(manager), !.sampled = sampled])
        /\ manager' = [manager EXCEPT !.freed = {}]
  /\ pc' = "idle"
  /\ local' = EmptyLocal
  /\ UNCHANGED <<queueVars, num_tokens, done, encoder_cache>>

----------------------------------------------------------------------------
(* The workers                                                             *)

\* What a worker holds once a step has dropped, loaded and encoded.
HeldDuring(step) ==
  (encoder_cache \ step.drop) \cup step.load
    \cup UNION {{Identifier(r, i) : i \in step.encode[r]} : r \in Requests}

\* What _gather_mm_embeddings looks up for a step: the inputs with an embedding
\* in the scheduled range of a request, moved on by shift positions.
Gathered(step, shift) ==
  {<<r, i>> \in UNION {{r} \X Inputs(r) : r \in ToSet(step.order)} :
     LET start == step.start[r] + shift
         end == start + step.num[r]
     IN i \in InWindow(r, start, end) /\ HasEmbedsIn(r, i, start, end)}

DrafterShift == Min({1, num_prefill_lookahead})

ExecuteModel ==
  /\ queued # << >>
  /\ encoder_cache' = HeldDuring(Head(queued))
  /\ queued' = Tail(queued)
  /\ done' = Append(done, Head(queued))
  /\ UNCHANGED <<manager, queueVars, requestVars, pc, local>>

----------------------------------------------------------------------------
(* update_from_output() and the client                                     *)

\* No later step of the request reads the input.
Passed(r, i) ==
  mm_features[r][i].offset + mm_features[r][i].length + num_prefill_lookahead
    <= num_computed_tokens[r] - num_output_placeholders[r]

\* Mutant: inputs are kept until the request finishes.
FreeNothingYet(m, r) == m

\* _free_encoder_inputs.
FreeEncoderInputs(m, r) == FreeInputs(m, r, {i \in m.request_cached_ids[r] : Passed(r, i)})

\* The oldest output is processed. Requests that have finished meanwhile are
\* skipped, and so are stale outputs in drop mode. A request stops when it has
\* max_tokens outputs or samples a stop token.
UpdateFromOutput ==
  /\ pc = "idle"
  /\ done # << >>
  /\ LET step == Head(done)
         live == SelectSeq(step.order, LAMBDA r :
                   status[r] # "finished" /\ ~(drop_stale_output /\ r \in step.stale))
         outputs == ToSet(live) \cap step.sampled
         full == {r \in outputs : num_tokens[r] + 1 = num_prompt_tokens[r] + max_tokens[r]}
     IN \E stopped \in {S \in SUBSET outputs : full \subseteq S} :
          /\ manager' = FoldLeft(LAMBDA m, r : IF r \in stopped
                                               THEN free(FreeEncoderInputs(m, r), r)
                                               ELSE FreeEncoderInputs(m, r), manager, live)
          /\ num_tokens' = [r \in Requests |-> num_tokens[r] + (IF r \in outputs THEN 1 ELSE 0)]
          /\ num_output_placeholders' = [r \in Requests |-> num_output_placeholders[r]
               - (IF AsyncScheduling /\ r \in outputs \ step.stale THEN 1 ELSE 0)]
          /\ status' = [r \in Requests |-> IF r \in stopped THEN "finished" ELSE status[r]]
          /\ running' = SelectSeq(running, LAMBDA r : r \notin stopped)
          /\ waiting' = SelectSeq(waiting, LAMBDA r : r \notin stopped)
  /\ done' = Tail(done)
  /\ UNCHANGED <<num_computed_tokens, pc, local, queued, encoder_cache>>

AddRequest(r) ==
  /\ pc = "idle"
  /\ status[r] = "new"
  /\ status' = [status EXCEPT ![r] = "waiting"]
  /\ waiting' = Append(waiting, r)
  /\ UNCHANGED <<manager, running, requestVars, pc, local, workerVars>>

\* finish_requests for an abort.
AbortRequest(r) ==
  /\ pc = "idle"
  /\ status[r] \in {"waiting", "running"}
  /\ manager' = free(manager, r)
  /\ status' = [status EXCEPT ![r] = "finished"]
  /\ running' = SelectSeq(running, LAMBDA q : q # r)
  /\ waiting' = SelectSeq(waiting, LAMBDA q : q # r)
  /\ UNCHANGED <<requestVars, pc, local, workerVars>>

\* reset_encoder_cache clears the manager and then, by a call that the workers
\* serve after the steps queued before it, their outputs.
ResetEncoderCache ==
  /\ pc = "idle"
  /\ queued = << >>
  /\ manager' = EmptyManager
  /\ encoder_cache' = {}
  /\ UNCHANGED <<queueVars, requestVars, pc, local, queued, done>>

Init ==
  /\ config \in Configurations
  /\ manager = EmptyManager
  /\ status = [r \in Requests |-> "new"]
  /\ running = << >>
  /\ waiting = << >>
  /\ num_computed_tokens = [r \in Requests |-> 0]
  /\ num_tokens = num_prompt_tokens
  /\ num_output_placeholders = [r \in Requests |-> 0]
  /\ pc = "idle"
  /\ local = EmptyLocal
  /\ queued = << >>
  /\ done = << >>
  /\ encoder_cache = {}

Schedule == BeginSchedule \/ ScheduleRunning \/ ScheduleWaiting \/ EndSchedule

Engine == Schedule \/ ExecuteModel \/ UpdateFromOutput

Client ==
  /\ ~Undisturbed
  /\ ResetEncoderCache \/ \E r \in Requests : AbortRequest(r)

Next == (Engine \/ Client \/ \E r \in Requests : AddRequest(r)) /\ UNCHANGED config

Spec == Init /\ [][Next]_vars

\* The engine's thread and the workers keep running: weak fairness of Schedule,
\* ExecuteModel and UpdateFromOutput, in a form whose ENABLED TLC evaluates fast. A
\* pass under way or possible always has a next step, and only the steps of a pass
\* change pc and local; only ExecuteModel takes a step from queued, and only an
\* update takes one from done.
FairSchedule == <>[](pc # "idle" \/ CanBegin) => []<><<TRUE>>_<<pc, local>>
FairExecute  == WF_queued(queued # << >> /\ queued' = Tail(queued))
FairUpdate   == WF_done(pc = "idle" /\ done # << >> /\ done' = Tail(done))

----------------------------------------------------------------------------
(* Properties                                                              *)

TypeOK ==
  /\ DOMAIN manager.cached \subseteq Hashes
  /\ \A h \in DOMAIN manager.cached : manager.cached[h] \subseteq Requests
  /\ \A r \in Requests : manager.request_cached_ids[r] \subseteq Inputs(r)
  /\ manager.freed \subseteq Hashes
  /\ manager.num_free_slots \in 0..cache_size
  /\ manager.num_freeable_slots \in 0..cache_size
  /\ status \in [Requests -> {"new", "waiting", "running", "finished"}]
  /\ pc \in {"idle", "running", "end"}
  /\ encoder_cache \subseteq Hashes
  /\ InFlight <= batch_queue_size
  /\ config \in Configurations

\* freeable, the two slot counters and the references of the manager describe
\* the same entries, through hits, evictions, preemptions, aborts and resets; a
\* finished request holds no reference, so nothing is pinned for ever.
SlotsMatchEntries ==
  /\ ManagerConsistent(manager)
  /\ \A r \in Requests : status[r] = "finished" =>
       /\ manager.request_cached_ids[r] = {}
       /\ \A h \in DOMAIN manager.cached : r \notin manager.cached[h]

\* An encoder output that a step gathers, for the model or for the drafter one
\* position ahead, is there when the step runs: the worker never raises "Encoder
\* cache miss" and the drafter's fallback to a token embedding is only a backstop,
\* however entries are evicted, encoded again and released while steps are in flight.
NoEncoderCacheMiss ==
  queued # << >> =>
    \A p \in Gathered(Head(queued), 0) \cup Gathered(Head(queued), DrafterShift) :
      Identifier(p[1], p[2]) \in HeldDuring(Head(queued))

\* Once the workers have run everything, they hold exactly the entries of the
\* manager: no entry is only on the books, and no output is kept for ever
\* because its eviction was never reported.
WorkersHoldTheEntries ==
  pc = "idle" /\ queued = << >> => encoder_cache = DOMAIN manager.cached

\* Requests that compete for a cache that holds only some of their inputs all
\* finish if nothing disturbs them: every input fits by itself, and no request
\* waits for ever for room. (A request is not added twice, so a moment without
\* waiting and running ones comes after all that were added have finished.)
EveryRequestFinishes ==
  (Undisturbed /\ \E r \in Requests : status[r] = "waiting")
    ~> \A r \in Requests : status[r] \in {"new", "finished"}
=============================================================================
