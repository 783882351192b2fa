------------------------------ MODULE Scheduler ------------------------------
(***************************************************************************)
(* The asynchronous scheduler, vllm/v1/core/sched/scheduler.py with the    *)
(* overrides of async_scheduler.py if Async, driven by EngineCore.         *)
(* step_with_batch_queue (vllm/v1/engine/core.py), over the block tables   *)
(* of KVCacheManager.                                                      *)
(*                                                                         *)
(* The engine is one thread. Its step calls schedule(), which hands a step *)
(* to the workers while up to QueueSize - 1 earlier steps still run, and   *)
(* update_from_output(), which takes the oldest result. Each of the two    *)
(* is a sequence of small steps here, one per loop iteration, under the    *)
(* program counter pc; a client's calls come in between, when the engine   *)
(* drains its input queue ("idle") or its abort queue ("result"). The      *)
(* workers and the KV connector are the environment: a step writes its     *)
(* blocks at any time until its result is taken, a load until it is        *)
(* reported; a load may fail, which is reported with the result of a step. *)
(*                                                                         *)
(* Requests sample one token per step; speculative tokens, encoder inputs, *)
(* LoRA limits, throttled prefills and streaming sessions are left out.    *)
(***************************************************************************)
EXTENDS KVCacheManager, FiniteSetsExt

CONSTANTS
  PromptLen,              \* request -> num_prompt_tokens
  MaxOutput,              \* request -> max_tokens
  Async,                  \* AsyncScheduler, else its base class
  Policy,                 \* "fcfs" or "priority"
  Priority,               \* request -> (priority, arrival_time), as one number
  MaxScheduledTokens,     \* max_num_scheduled_tokens
  LongPrefillThreshold,   \* long_prefill_token_threshold, 0 for none
  MaxRunning,             \* max_num_running_reqs
  ReserveFullISL,         \* scheduler_reserve_full_isl
  Watermark,              \* watermark_blocks
  Configurations          \* the configurations of engine and connector, see ConfigurationType

ConfigurationType ==
  [QueueSize          : Nat \ {0},         \* batch_queue_size
   DeferBlockFree     : BOOLEAN,           \* defer_block_free
   RequiresKVDelivery : BOOLEAN,           \* requires_kv_delivery
   ExternalPrefixes   : SUBSET (1..MaxTokens), \* prefix lengths the connector may find remotely
   LoadModes          : SUBSET BOOLEAN,    \* whether a remote prefix is loaded asynchronously
   MayDefer           : BOOLEAN,           \* whether the connector may leave a lookup undecided
   DelaysFree         : BOOLEAN,           \* whether it may keep a finished request's blocks
   RecomputeLoadFailures : BOOLEAN,        \* recompute_kv_load_failures, else requests fail
   MaxLoadFailures    : Nat,               \* bound: reports of failed loads in a behaviour
   Aborts             : BOOLEAN,           \* whether clients abort requests
   MaxResets          : Nat]               \* bound: prefix-cache resets in a behaviour

ASSUME SchedulerAssumption ==
  /\ PromptLen \in [Requests -> 1 .. MaxTokens - 1]
  /\ MaxOutput \in [Requests -> Nat \ {0}]
  /\ Policy \in {"fcfs", "priority"}
  /\ Priority \in [Requests -> Nat]
  /\ \A r, s \in Requests : Priority[r] = Priority[s] => r = s
  /\ MaxScheduledTokens \in Nat \ {0}
  /\ LongPrefillThreshold \in Nat
  /\ MaxRunning \in Nat \ {0}
  /\ Watermark \in Nat
  /\ {Async, ReserveFullISL} \subseteq BOOLEAN
  /\ Configurations \subseteq ConfigurationType

VARIABLES
  config,            \* the configuration, which never changes
  req,               \* request -> its Request object, the fields used here
  running, waiting, skipped_waiting,
  inflight_prefills, \* _inflight_prefills
  finished_recving,  \* finished_recving_kv_req_ids
  failed_recving,    \* failed_recving_kv_req_ids
  finished_req_ids,
  fences,            \* the fences of deferred_frees, whose blocks are `popped'
  sched_ahead,       \* sched_step_seq - processed_step_seq
  batch_queue,       \* steps handed to the workers, oldest first
  loading,           \* request -> blocks the connector is filling for it
  sending,           \* finished requests whose blocks the connector still reads
  filled,            \* block -> tokens in it once the work handed out is done,
                     \* -1 while its load is under way but has failed
  resets,            \* resets made so far
  load_failures,     \* reports of failed loads so far
  pc,                \* where the engine thread is
  step,              \* the step being built or processed
  local              \* the other local variables of schedule()

reqVars   == <<req, running, waiting, skipped_waiting, inflight_prefills>>
seqVars   == <<fences, sched_ahead>>
envVars   == <<batch_queue, loading, sending, filled>>
xferVars  == <<finished_recving, failed_recving, finished_req_ids, resets, load_failures>>
frameVars == <<pc, step, local>>
vars == <<kvVars, reqVars, seqVars, envVars, xferVars, frameVars>>

QueueSize          == config.QueueSize
DeferBlockFree     == config.DeferBlockFree
RequiresKVDelivery == config.RequiresKVDelivery
ExternalPrefixes   == config.ExternalPrefixes
LoadModes          == config.LoadModes
MayDefer           == config.MayDefer
DelaysFree         == config.DelaysFree
MaxResets          == config.MaxResets
MaxLoadFailures    == config.MaxLoadFailures
recompute_kv_load_failures == config.RecomputeLoadFailures

Waiting == {"WAITING", "PREEMPTED", "WAITING_FOR_REMOTE_KVS"}

\* Request objects still in self.requests.
Known == {r \in Requests : req[r].status \notin {"NEW", "GONE"}}

Min2(a, b) == IF a < b THEN a ELSE b
Max0(a)    == IF a < 0 THEN 0 ELSE a

----------------------------------------------------------------------------
(* Request queues (request_queue.py)                                       *)

\* The queue without the requests of S.
remove_requests(q, S) == Filter(q, Requests \ S)

\* Mutant: heapreplace instead of heappush, which drops the head.
SortedReplacing(q, r) ==
  LET rest == SubSeq(q, 2, Len(q))
  IN Filter(rest, {s \in Requests : Priority[s] < Priority[r]}) \o <<r>>
       \o Filter(rest, {s \in Requests : Priority[s] > Priority[r]})

\* A priority queue with r pushed; its order is the order of popping.
Sorted(q, r) ==
  Filter(q, {s \in Requests : Priority[s] < Priority[r]}) \o <<r>>
    \o Filter(q, {s \in Requests : Priority[s] > Priority[r]})

add_request_to(q, r)  == IF Policy = "priority" THEN Sorted(q, r) ELSE Append(q, r)
prepend_request(q, r) == IF Policy = "priority" THEN Sorted(q, r) ELSE <<r>> \o q

\* step_skipped_waiting is put in front of q, in the order it was skipped in.
prepend_requests(q, skipped) ==
  IF Policy = "priority"
  THEN LET all == Elems(q) \cup Elems(skipped)
       IN [i \in 1..Cardinality(all) |->
             CHOOSE r \in all : Cardinality({s \in all : Priority[s] <= Priority[r]}) = i]
  ELSE skipped \o q

\* _select_waiting_queue_for_scheduling, by name.
SelectedQueue ==
  IF waiting = <<>> \/ skipped_waiting = <<>>
  THEN IF skipped_waiting = <<>> THEN "waiting" ELSE "skipped"
  ELSE IF Policy = "priority" /\ Priority[Head(waiting)] < Priority[Head(skipped_waiting)]
       THEN "waiting" ELSE "skipped"

Candidate == IF SelectedQueue = "waiting" THEN Head(waiting) ELSE Head(skipped_waiting)

PopCandidate ==
  /\ waiting' = IF SelectedQueue = "waiting" THEN Tail(waiting) ELSE waiting
  /\ skipped_waiting' = IF SelectedQueue = "skipped" THEN Tail(skipped_waiting) ELSE skipped_waiting

----------------------------------------------------------------------------
(* Freeing                                                                 *)

\* Mutant: blocks are freed although steps in flight may write them.
FreeAtOnce(r) == free(r) /\ UNCHANGED <<popped, fences>>

\* Mutant: the fence is the request's own last step, not the last step.
FreeByOwnStep(r) ==
  IF ~DeferBlockFree \/ req[r].last_sched_seq <= 0
  THEN free(r) /\ UNCHANGED <<popped, fences>>
  ELSE /\ pop_blocks_for_free(r)
       /\ fences' = IF req_to_blocks[r] = <<>> THEN fences
                    ELSE Append(fences, req[r].last_sched_seq)

\* _free_request_blocks: the blocks of a request that a step in flight may
\* still write go back to the pool only when that step's result is in.
_free_request_blocks(r) ==
  IF ~DeferBlockFree \/ req[r].last_sched_seq <= 0
  THEN free(r) /\ UNCHANGED <<popped, fences>>
  ELSE /\ pop_blocks_for_free(r)
       /\ fences' = IF req_to_blocks[r] = <<>> THEN fences ELSE Append(fences, sched_ahead)

\* The Request object of a request no longer known.
Forgotten(q) ==
  [q EXCEPT !.status = "GONE", !.num_tokens = 0, !.num_computed_tokens = 0,
            !.num_output_placeholders = 0, !.num_in_flight_tokens = 0,
            !.num_stale_output_tokens = 0, !.drop_stale_output = FALSE,
            !.preempted = FALSE, !.last_sched_seq = 0]

\* _free_request. The connector may keep the blocks of a request it has to
\* send; one that is still being loaded is kept until the load is reported.
_free_request(r, delay_free_blocks) ==
  /\ inflight_prefills' = inflight_prefills \ {r}
  /\ finished_req_ids' = finished_req_ids \cup {r}
  /\ UNCHANGED filled
  /\ \E sends \in {FALSE} \cup {DelaysFree /\ ~delay_free_blocks} :
       /\ sending' = IF sends THEN sending \cup {r} ELSE sending
       /\ IF sends \/ delay_free_blocks
          THEN /\ req' = [req EXCEPT ![r].status = "FINISHED"]
               /\ UNCHANGED <<kvVars, fences>>
          ELSE /\ _free_request_blocks(r)
               /\ req' = [req EXCEPT ![r] = Forgotten(@)]

\* Mutant: what was already stale is counted again.
PreemptedAccumulating(q, drop_stale_output) ==
  [q EXCEPT !.status = "PREEMPTED", !.num_computed_tokens = 0,
            !.drop_stale_output = drop_stale_output,
            !.num_stale_output_tokens = @ + q.num_in_flight_tokens,
            !.num_output_placeholders = 0, !.preempted = TRUE]

\* Mutant: the computed tokens are kept although their blocks are gone.
PreemptedComputed(q, drop_stale_output) ==
  [q EXCEPT !.status = "PREEMPTED",
            !.drop_stale_output = drop_stale_output \/ (@ /\ q.num_stale_output_tokens > 0),
            !.num_stale_output_tokens = q.num_in_flight_tokens,
            !.num_output_placeholders = 0, !.preempted = TRUE]

\* The Request object of a preempted request: it starts over, and what it has
\* in flight becomes stale.
Preempted(q, drop_stale_output) ==
  [q EXCEPT !.status = "PREEMPTED", !.num_computed_tokens = 0,
            !.drop_stale_output = drop_stale_output \/ (@ /\ q.num_stale_output_tokens > 0),
            !.num_stale_output_tokens = q.num_in_flight_tokens,
            !.num_output_placeholders = 0, !.preempted = TRUE]

\* _preempt_request: the request loses its blocks and waits, before all others.
_preempt_request(r, drop_stale_output) ==
  /\ _free_request_blocks(r)
  /\ inflight_prefills' = inflight_prefills \ {r}
  /\ req' = [req EXCEPT ![r] = Preempted(@, drop_stale_output)]
  /\ waiting' = prepend_request(waiting, r)

----------------------------------------------------------------------------
(* Client calls                                                            *)

\* add_request
AddRequest(r) ==
  /\ pc = "idle"
  /\ req[r].status = "NEW"
  /\ req' = [req EXCEPT ![r].status = "WAITING", ![r].num_tokens = PromptLen[r]]
  /\ waiting' = add_request_to(waiting, r)
  /\ UNCHANGED <<kvVars, running, skipped_waiting, inflight_prefills, seqVars, envVars,
                 xferVars, frameVars>>

\* finish_requests on one request.
FinishRequest(r) ==
  /\ req[r].status \in Waiting \cup {"RUNNING"}
  /\ running' = remove_requests(running, {r})
  /\ waiting' = remove_requests(waiting, {r})
  /\ skipped_waiting' = remove_requests(skipped_waiting, {r})
  /\ finished_recving' = finished_recving \ {r}
  /\ failed_recving' = failed_recving \ {r}
  /\ _free_request(r, req[r].status = "WAITING_FOR_REMOTE_KVS" /\ r \notin finished_recving)
  /\ UNCHANGED <<sched_ahead, batch_queue, loading, resets, load_failures>>

AbortRequest(r) ==
  /\ config.Aborts
  /\ pc \in {"idle", "result"}
  /\ FinishRequest(r)
  /\ UNCHANGED frameVars

\* reset_prefix_cache() does nothing while a block is in use.
ResetPrefixCache ==
  /\ pc = "idle"
  /\ resets < MaxResets
  /\ resets' = resets + 1
  /\ pool' = reset_prefix_cache(pool)
  /\ UNCHANGED <<req_to_blocks, num_cached_block, popped, reqVars, seqVars, envVars,
                 finished_recving, failed_recving, finished_req_ids, load_failures, frameVars>>

\* reset_prefix_cache(reset_running_requests=True) preempts every running
\* request, the last one first, and then resets the pool, or fails.
ResetPrefixCacheBegin ==
  /\ pc = "idle"
  /\ resets < MaxResets
  /\ resets' = resets + 1
  /\ pc' = "reset"
  /\ UNCHANGED <<kvVars, reqVars, seqVars, envVars, finished_recving, failed_recving,
                 finished_req_ids, load_failures, step, local>>

ResetPrefixCachePreempt ==
  /\ pc = "reset"
  /\ running # <<>>
  /\ _preempt_request(running[Len(running)], TRUE)
  /\ running' = SubSeq(running, 1, Len(running) - 1)
  /\ UNCHANGED <<skipped_waiting, sched_ahead, envVars, xferVars, frameVars>>

\* Mutant: the pool is cleared without looking whether blocks are in use.
ResetUnchecked ==
  /\ pc = "reset"
  /\ running = <<>>
  /\ pool' = evict_blocks(pool, Blocks)
  /\ pc' = "idle"
  /\ UNCHANGED <<req_to_blocks, num_cached_block, popped, reqVars, seqVars, envVars, xferVars,
                 step, local>>

ResetPrefixCacheEnd ==
  /\ pc = "reset"
  /\ running = <<>>
  /\ pool' = reset_prefix_cache(pool)
  /\ pc' = "idle"
  /\ UNCHANGED <<req_to_blocks, num_cached_block, popped, reqVars, seqVars, envVars, xferVars,
                 step, local>>

----------------------------------------------------------------------------
(* What the workers and the connector put in the blocks                    *)

\* Blocks that allocate_slots took from the pool for r hold nothing yet.
EmptyNewBlocks(r, hit) ==
  filled' = [b \in Blocks |->
    IF b \in Elems(req_to_blocks'[r]) \ (Elems(req_to_blocks[r]) \cup Elems(hit)) THEN 0 ELSE filled[b]]

\* The blocks of r, in the table given, that hold tokens from+1 .. to.
BlocksFor(table, from, to) ==
  {table[i] : i \in (from \div BlockSize) + 1 .. cdiv(to, BlockSize)}

\* How much of block b is filled once tokens from+1 .. to of r are in place,
\* given that the ones before them are.
FilledBy(b, r, from, to) ==
  LET base == BlockSize * ((CHOOSE i \in DOMAIN req_to_blocks[r] : req_to_blocks[r][i] = b) - 1)
  IN IF base + filled[b] >= from THEN Min2(BlockSize, to - base) ELSE filled[b]

----------------------------------------------------------------------------
(* schedule(): the running requests                                        *)

NoLocal == [req_index |-> 1, token_budget |-> 0, num_new_tokens |-> 0, preempted |-> FALSE,
            skipped |-> <<>>, starts |-> {}, failed |-> {}]

\* has_requests: unfinished requests, or finished ones with delayed frees, or
\* finished ones the workers have not been told of.
StillHasRequests ==
  LET num_in_queues == Len(running) + Len(waiting) + Len(skipped_waiting)
  IN num_in_queues > 0 \/ Cardinality(Known) > num_in_queues

HasRequests == StillHasRequests \/ finished_req_ids # {}

ScheduleBegin ==
  /\ pc = "idle"
  /\ HasRequests
  /\ pc' = "running"
  /\ step' = <<>>
  /\ local' = [NoLocal EXCEPT !.token_budget = MaxScheduledTokens]
  /\ UNCHANGED <<kvVars, reqVars, seqVars, envVars, xferVars>>

InRunningLoop ==
  pc = "running" /\ local.req_index <= Len(running) /\ local.token_budget > 0

Current == running[local.req_index]

\* Every token the request may still produce is already in flight.
AllOutputInFlight(r) ==
  /\ req[r].num_output_placeholders > 0
  /\ req[r].num_computed_tokens + 2 - req[r].num_output_placeholders
       >= PromptLen[r] + MaxOutput[r]

\* The longest part of a prefill that one step may compute.
Chunk(n) == IF LongPrefillThreshold > 0 THEN Min2(n, LongPrefillThreshold) ELSE n

\* num_new_tokens, fixed before the first attempt to allocate.
NumNewTokens(r) ==
  IF local.num_new_tokens > 0
  THEN local.num_new_tokens
  ELSE Min({Chunk(req[r].num_tokens + req[r].num_output_placeholders
                    - req[r].num_computed_tokens),
            local.token_budget,
            MaxTokens - req[r].num_computed_tokens - 1})

NothingToRun(r) == AllOutputInFlight(r) \/ NumNewTokens(r) = 0

ScheduleSkipRunning ==
  /\ InRunningLoop
  /\ NothingToRun(Current)
  /\ local' = [local EXCEPT !.req_index = @ + 1]
  /\ UNCHANGED <<kvVars, reqVars, seqVars, envVars, xferVars, pc, step>>

\* allocate_slots succeeds and the request joins the step.
ScheduleRunning ==
  LET r == Current
      n == NumNewTokens(r)
      num_tokens == req[r].num_computed_tokens + n
  IN /\ InRunningLoop
     /\ ~NothingToRun(r)
     /\ CanAllocate(r, <<>>, num_tokens, 0)
     /\ allocate_slots(r, <<>>, num_tokens, Min2(num_tokens, req[r].num_tokens), FALSE)
     /\ step' = Append(step, [req |-> r, n |-> n, from |-> req[r].num_computed_tokens])
     /\ local' = [local EXCEPT !.req_index = @ + 1, !.num_new_tokens = 0,
                               !.token_budget = @ - n]
     /\ EmptyNewBlocks(r, <<>>)
     /\ UNCHANGED <<popped, reqVars, seqVars, batch_queue, loading, sending, xferVars, pc>>

\* The request preempted for want of blocks.
Victim ==
  IF Policy = "priority"
  THEN CHOOSE r \in Elems(running) : \A s \in Elems(running) : Priority[s] <= Priority[r]
  ELSE running[Len(running)]

Scheduled(r) == {i \in DOMAIN step : step[i].req = r}

\* Mutant: the tokens are given back twice.
GivenBackTwice(r) == 2 * SumSet({step[i].n : i \in Scheduled(r)})

\* The tokens of the step that r no longer uses.
GivenBack(r) == SumSet({step[i].n : i \in Scheduled(r)})

\* allocate_slots fails: a request is preempted and the allocation is tried
\* again, unless the request itself was the victim. A victim that is already
\* in the step leaves it and gives its tokens back.
SchedulePreempt ==
  LET r == Current
      index == CHOOSE i \in DOMAIN running : running[i] = Victim
  IN /\ InRunningLoop
     /\ ~NothingToRun(r)
     /\ ~CanAllocate(r, <<>>, req[r].num_computed_tokens + NumNewTokens(r), 0)
     /\ _preempt_request(Victim, RequiresKVDelivery)
     /\ running' = remove_requests(running, {Victim})
     /\ step' = Filter(step, {step[i] : i \in DOMAIN step \ Scheduled(Victim)})
     /\ local' = [local EXCEPT
                    !.preempted = TRUE,
                    !.num_new_tokens = IF Victim = r THEN 0 ELSE NumNewTokens(r),
                    !.req_index = IF index < @ THEN @ - 1 ELSE @,
                    !.token_budget = @ + GivenBack(Victim)]
     /\ pc' = IF Victim = r THEN "finish" ELSE pc
     /\ UNCHANGED <<skipped_waiting, sched_ahead, envVars, xferVars>>

\* Waiting requests are considered only if nothing was preempted.
ScheduleRunningEnd ==
  /\ pc = "running"
  /\ ~InRunningLoop
  /\ pc' = IF local.preempted THEN "finish" ELSE "waiting"
  /\ UNCHANGED <<kvVars, reqVars, seqVars, envVars, xferVars, step, local>>

----------------------------------------------------------------------------
(* schedule(): the waiting requests                                        *)

InWaitingLoop ==
  /\ pc = "waiting"
  /\ waiting # <<>> \/ skipped_waiting # <<>>
  /\ local.token_budget > 0
  /\ Len(running) < MaxRunning

\* The end of the loop: skipped requests go in front of older skipped ones.
LeaveWaitingLoop ==
  /\ skipped_waiting' = prepend_requests(skipped_waiting, local.skipped)
  /\ pc' = "finish"
  /\ local' = [local EXCEPT !.skipped = <<>>]

SkipCandidate ==
  /\ PopCandidate
  /\ local' = [local EXCEPT !.skipped = Append(@, Candidate)]
  /\ UNCHANGED <<kvVars, req, running, inflight_prefills, seqVars, envVars, xferVars, pc, step>>

Loading(r) == req[r].status = "WAITING_FOR_REMOTE_KVS"

\* Mutant: a preempted request is resumed at once.
NeverAwaits(r) == FALSE

\* Output that will still be delivered is in flight: resuming could sample its
\* position again.
AwaitsOutput(r) == req[r].num_stale_output_tokens > 0 /\ ~req[r].drop_stale_output

ScheduleSkipBlocked ==
  /\ InWaitingLoop
  /\ IF Loading(Candidate) THEN Candidate \notin finished_recving ELSE AwaitsOutput(Candidate)
  /\ SkipCandidate

\* _update_waiting_for_remote_kv: the loaded blocks are cached; of a wholly
\* loaded prompt the last token is computed again. If the load has failed in
\* part, the blocks before the failure count; if nothing of it is of use the
\* request gives its blocks back.
_update_waiting_for_remote_kv(r) ==
  LET computed == req[r].num_computed_tokens
  IN /\ IF r \in failed_recving /\ computed = 0 THEN free(r) ELSE cache_blocks(r, computed)
     /\ req' = [req EXCEPT
          ![r].num_computed_tokens =
             IF r \notin failed_recving /\ computed = req[r].num_tokens THEN computed - 1 ELSE computed,
          ![r].status = IF req[r].preempted THEN "PREEMPTED" ELSE "WAITING"]
     /\ finished_recving' = finished_recving \ {r}
     /\ failed_recving' = failed_recving \ {r}

\* _try_promote_blocked_waiting_request
SchedulePromote ==
  /\ InWaitingLoop
  /\ Loading(Candidate)
  /\ Candidate \in finished_recving
  /\ _update_waiting_for_remote_kv(Candidate)
  /\ UNCHANGED <<popped, running, waiting, skipped_waiting, inflight_prefills, seqVars, envVars,
                 finished_req_ids, resets, load_failures, frameVars>>

Schedulable(r) == InWaitingLoop /\ ~Loading(r) /\ ~AwaitsOutput(r)

\* get_num_new_matched_tokens returned None.
ScheduleSkipUndecided ==
  /\ Schedulable(Candidate)
  /\ MayDefer
  /\ req[Candidate].num_computed_tokens = 0
  /\ SkipCandidate

\* The computed prefix: the local hit and what the connector finds beyond it.
Lookups(r) ==
  IF req[r].num_computed_tokens > 0
  THEN {[hit |-> <<>>, external |-> 0, async |-> FALSE]}
  ELSE LET hit == get_computed_blocks(r, req[r].num_tokens)
           Remote(async) == {p - BlockSize * Len(hit) : p \in
                               {e \in ExternalPrefixes : /\ e > BlockSize * Len(hit)
                                                         /\ e < req[r].num_tokens + (IF async THEN 1 ELSE 0)}}
       IN {[hit |-> hit, external |-> 0, async |-> FALSE]}
            \cup UNION {{[hit |-> hit, external |-> e, async |-> async] : e \in Remote(async)}
                        : async \in LoadModes}

\* num_computed_tokens once the lookup is adopted.
ComputedWith(r, found) ==
  req[r].num_computed_tokens + BlockSize * Len(found.hit) + found.external

\* No forward pass runs for an asynchronous load.
NumAdmitted(r, found) ==
  IF found.async THEN 0 ELSE Min2(Chunk(req[r].num_tokens - ComputedWith(r, found)), local.token_budget)

\* Mutant: nothing is set aside for requests that hold part of their blocks.
NothingReserved == 0

\* Blocks that requests being prefilled or loaded still need.
_inflight_prefill_reserved_blocks ==
  MapThenSumSet(LAMBDA s : NumNewBlocks(s, <<>>, req[s].num_tokens), inflight_prefills)

\* allocate_slots succeeds: the whole request fits, if that is asked for, and
\* this step's part fits beside the watermark and the reservations.
Fits(r, found) ==
  LET watermark == IF running # <<>> THEN Watermark ELSE 0
      reserved  == IF found.async THEN _inflight_prefill_reserved_blocks ELSE 0
  IN /\ ReserveFullISL => CanAllocate(r, found.hit, req[r].num_tokens, watermark)
     /\ CanAllocate(r, found.hit, ComputedWith(r, found) + NumAdmitted(r, found),
                    watermark + reserved)

\* A request is admitted and, unless it has to be loaded first, runs.
ScheduleWaiting ==
  LET r == Candidate
  IN /\ Schedulable(r)
     /\ \E found \in Lookups(r) :
          LET computed == ComputedWith(r, found)
              n        == NumAdmitted(r, found)
              loaded   == BlocksFor(req_to_blocks'[r], computed - found.external, computed)
          IN /\ Fits(r, found)
             /\ allocate_slots(r, found.hit, computed + n, Min2(computed + n, req[r].num_tokens),
                               found.async)
             /\ EmptyNewBlocks(r, found.hit)
             /\ PopCandidate
             /\ req' = [req EXCEPT
                  ![r].num_computed_tokens = computed,
                  ![r].status = IF found.async THEN "WAITING_FOR_REMOTE_KVS" ELSE "RUNNING"]
             /\ inflight_prefills' = IF found.async \/ computed + n < req[r].num_tokens
                                     THEN inflight_prefills \cup {r} ELSE inflight_prefills
             /\ IF found.async
                THEN /\ loading' = [loading EXCEPT ![r] = loaded]
                     /\ local' = [local EXCEPT !.skipped = Append(@, r),
                                               !.starts = @ \cup {r}]
                     /\ UNCHANGED <<running, step>>
                ELSE /\ running' = Append(running, r)
                     /\ step' = Append(step, [req |-> r, n |-> n, from |-> computed - found.external])
                     /\ local' = [local EXCEPT !.token_budget = @ - n]
                     /\ UNCHANGED loading
     /\ UNCHANGED <<popped, seqVars, batch_queue, sending, xferVars, pc>>

\* The request does not fit: nobody behind it is tried.
ScheduleRefuse ==
  /\ Schedulable(Candidate)
  /\ \E found \in Lookups(Candidate) : ~Fits(Candidate, found)
  /\ LeaveWaitingLoop
  /\ UNCHANGED <<kvVars, req, running, waiting, inflight_prefills, seqVars, envVars, xferVars, step>>

ScheduleWaitingEnd ==
  /\ pc = "waiting"
  /\ ~InWaitingLoop
  /\ LeaveWaitingLoop
  /\ UNCHANGED <<kvVars, req, running, waiting, inflight_prefills, seqVars, envVars, xferVars, step>>

----------------------------------------------------------------------------
(* schedule(): the end, and the rest of step_with_batch_queue              *)

\* The request after this step's n tokens are counted as computed
\* (_update_after_schedule, both classes). A step that reaches the last known
\* or awaited token samples one more.
Advanced(q, n, seq) ==
  LET computed == q.num_computed_tokens + n
      is_prefill_chunk == computed < q.num_tokens + q.num_output_placeholders
  IN [q EXCEPT !.num_computed_tokens = computed,
               !.num_in_flight_tokens = @ + n,
               !.last_sched_seq = IF DeferBlockFree THEN seq ELSE @,
               !.num_output_placeholders = IF Async /\ ~is_prefill_chunk THEN @ + 1 ELSE @]

\* What the workers are given for one request: the position of the token they
\* sample, if any, the blocks they load first, those they read and those they write.
Work(item) ==
  LET q     == req[item.req]
      table == req_to_blocks[item.req]
      end   == q.num_computed_tokens + item.n
  IN [req |-> item.req, n |-> item.n,
      samples |-> IF end < q.num_tokens + q.num_output_placeholders THEN 0 ELSE end + 1,
      loads   |-> IF item.from = q.num_computed_tokens THEN {}
                  ELSE BlocksFor(table, item.from, q.num_computed_tokens),
      reads   |-> BlocksFor(table, 0, q.num_computed_tokens),
      writes  |-> BlocksFor(table, q.num_computed_tokens, end)]

\* The step goes to the workers. The engine returns to its input queue unless
\* the batch queue is full or it has nothing to schedule.
ScheduleEnd ==
  LET seq   == IF DeferBlockFree /\ step # <<>> THEN sched_ahead + 1 ELSE sched_ahead
      End(i) == req[step[i].req].num_computed_tokens + step[i].n
  IN /\ pc = "finish"
     /\ sched_ahead' = seq
     /\ req' = [r \in Requests |-> IF Scheduled(r) = {} THEN req[r]
                                   ELSE Advanced(req[r], step[CHOOSE i \in Scheduled(r) : TRUE].n, seq)]
     /\ inflight_prefills' = {r \in inflight_prefills :
          Scheduled(r) = {} \/ req'[r].num_computed_tokens
                                 < req[r].num_tokens + req[r].num_output_placeholders}
     /\ batch_queue' = Append(batch_queue, [items  |-> [i \in DOMAIN step |-> Work(step[i])],
                                            starts |-> local.starts])
     /\ filled' = [b \in Blocks |-> Max({filled[b]} \cup
          {FilledBy(b, step[i].req, step[i].from, End(i)) :
             i \in {j \in DOMAIN step : b \in BlocksFor(req_to_blocks[step[j].req], step[j].from, End(j))}})]
     /\ finished_req_ids' = {}
     /\ pc' = IF Len(batch_queue) + 1 < QueueSize /\ (step # <<>> \/ StillHasRequests) THEN "idle" ELSE "result"
     /\ step' = <<>>
     /\ local' = NoLocal
     /\ UNCHANGED <<kvVars, running, waiting, skipped_waiting, fences, loading, sending,
                    finished_recving, failed_recving, resets, load_failures>>

\* Nothing to schedule, but steps are still in flight.
AwaitResult ==
  /\ pc = "idle"
  /\ ~HasRequests
  /\ batch_queue # <<>>
  /\ pc' = "result"
  /\ UNCHANGED <<kvVars, reqVars, seqVars, envVars, xferVars, step, local>>

\* The engine blocks on its input queue.
AwaitInput ==
  /\ pc = "idle"
  /\ ~HasRequests
  /\ batch_queue = <<>>
  /\ UNCHANGED vars

----------------------------------------------------------------------------
(* update_from_output()                                                    *)

\* The oldest result is in: all writes of its step are done.
UpdateBegin ==
  LET counts == DeferBlockFree /\ Head(batch_queue).items # <<>>
  IN /\ pc = "result"
     /\ batch_queue # <<>>
     /\ step' = Head(batch_queue).items
     /\ batch_queue' = Tail(batch_queue)
     /\ pc' = IF counts THEN "drain" ELSE "loads"
     /\ IF counts
        THEN /\ sched_ahead' = sched_ahead - 1
             /\ fences' = [i \in DOMAIN fences |-> fences[i] - 1]
             /\ req' = [r \in Requests |->
                          [req[r] EXCEPT !.last_sched_seq = Max0(@ - 1)]]
        ELSE UNCHANGED <<req, seqVars>>
     /\ UNCHANGED <<kvVars, running, waiting, skipped_waiting, inflight_prefills, loading, sending,
                    filled, xferVars, local>>

\* Mutant: a free is due only after one more step.
FreeIsDueLate == fences # <<>> /\ Head(fences) < 0

FreeIsDue == fences # <<>> /\ Head(fences) <= 0

\* _drain_deferred_frees
DrainDeferredFrees ==
  /\ pc = "drain"
  /\ FreeIsDue
  /\ FreePopped
  /\ fences' = Tail(fences)
  /\ UNCHANGED <<reqVars, sched_ahead, envVars, xferVars, frameVars>>

DrainEnd ==
  /\ pc = "drain"
  /\ ~FreeIsDue
  /\ pc' = "loads"
  /\ UNCHANGED <<kvVars, reqVars, seqVars, envVars, xferVars, step, local>>

----------------------------------------------------------------------------
(* update_from_output(): loads that failed                                 *)

\* The load of r has been started by a step whose result is in.
LoadStarted(r) == \A i \in DOMAIN batch_queue : r \notin batch_queue[i].starts

\* The blocks that the connector may report with this step: those that the step
\* loaded itself, and those of asynchronous loads under way.
Failable ==
  UNION ({step[i].loads : i \in DOMAIN step}
           \cup {loading[r] : r \in {s \in Requests : LoadStarted(s)}})

\* The tokens of r that were computed or loaded before this step.
ComputedBefore(r) ==
  req[r].num_computed_tokens - SumSet({step[i].n : i \in Scheduled(r)})

\* Mutant: only the requests that asked for the load are looked at.
InvalidInLoader(r, invalid) ==
  {i \in 1..Min2(cdiv(ComputedBefore(r), BlockSize), Len(req_to_blocks[r])) :
     req_to_blocks[r][i] \in invalid \cap UNION ({loading[r]} \cup {step[j].loads : j \in Scheduled(r)})}

\* Where the computed part of r's table has one of the invalid blocks.
InvalidIn(r, invalid) ==
  {i \in 1..Min2(cdiv(ComputedBefore(r), BlockSize), Len(req_to_blocks[r])) :
     req_to_blocks[r][i] \in invalid}

\* Those of them that no request before the k-th one of q has: that request
\* recomputes them.
Unmarked(q, k, invalid) ==
  {i \in InvalidIn(q[k], invalid) :
     \A j \in 1 .. k - 1 : \A m \in InvalidIn(q[j], invalid) :
        req_to_blocks[q[j]][m] # req_to_blocks[q[k]][i]}

\* Mutant: the failure is noted but the loaded tokens still count.
NotRolledBack(q, k, invalid) == req[q[k]].num_computed_tokens

\* num_computed_tokens of the k-th request of q: it goes back to the first block
\* that it has to recompute, or repeats this step if others recompute them.
RolledBack(q, k, invalid) ==
  IF InvalidIn(q[k], invalid) = {} THEN req[q[k]].num_computed_tokens
  ELSE IF Unmarked(q, k, invalid) = {} THEN ComputedBefore(q[k])
  ELSE BlockSize * (Min(Unmarked(q, k, invalid)) - 1)

\* The blocks the k-th request of q computes anew, and those behind them.
Downstream(q, k, invalid) ==
  IF Unmarked(q, k, invalid) = {} THEN {}
  ELSE {req_to_blocks[q[k]][i] : i \in Min(Unmarked(q, k, invalid)) .. Len(req_to_blocks[q[k]])}

\* The blocks with wrong contents once the items have run, in this order: what
\* is computed from a block that is wrong is wrong, other writes make it right.
Spoiled(wrong, items) ==
  LET after[i \in 0..Len(items)] ==
        IF i = 0 THEN wrong
        ELSE IF items[i].reads \cap after[i - 1] = {} THEN after[i - 1] \ items[i].writes
        ELSE after[i - 1] \cup items[i].writes
  IN after[Len(items)]

\* The same for this step and the ones in flight behind it.
SpoiledInFlight(wrong) ==
  LET after[i \in 0..Len(batch_queue)] ==
        IF i = 0 THEN Spoiled(wrong, step) ELSE Spoiled(after[i - 1], batch_queue[i].items)
  IN after[Len(batch_queue)]

\* _handle_invalid_blocks with _update_requests_with_invalid_blocks: requests
\* being loaded and running ones that have an invalid block are rolled back. They
\* are then made to fail, and what they cached is evicted, or compute again.
_handle_invalid_blocks(invalid) ==
  LET loads  == Filter(skipped_waiting, {r \in Requests : Loading(r)})
      Hit(q) == {r \in Elems(q) : InvalidIn(r, invalid) # {}}
  IN /\ req' = [r \in Requests |->
          IF r \in Elems(loads) \cup Elems(running)
          THEN LET q == IF Loading(r) THEN loads ELSE running
               IN [req[r] EXCEPT !.num_computed_tokens =
                     RolledBack(q, CHOOSE k \in DOMAIN q : q[k] = r, invalid)]
          ELSE req[r]]
     /\ pool' = IF recompute_kv_load_failures THEN pool
                ELSE evict_blocks(pool, UNION {Downstream(running, k, invalid) : k \in DOMAIN running})
     /\ failed_recving' = IF recompute_kv_load_failures THEN failed_recving \cup Hit(loads)
                          ELSE failed_recving
     /\ local' = [local EXCEPT !.failed = IF recompute_kv_load_failures THEN Hit(running)
                                          ELSE Hit(loads) \cup Hit(running)]

\* The blocks that failed to load, if any, are reported with the step's result.
UpdateLoads ==
  /\ pc = "loads"
  /\ pc' = "outputs"
  /\ \/ UNCHANGED <<pool, req, filled, failed_recving, load_failures, local>>
     \/ \E invalid \in SUBSET Failable \ {{}} :
          /\ load_failures < MaxLoadFailures
          /\ load_failures' = load_failures + 1
          /\ _handle_invalid_blocks(invalid)
          /\ LET late == invalid \cap UNION {loading[r] : r \in Requests}
             IN filled' = [b \in Blocks |-> IF b \in late THEN -1
                                            ELSE IF b \in SpoiledInFlight(invalid \ late) THEN 0
                                            ELSE filled[b]]
  /\ UNCHANGED <<req_to_blocks, num_cached_block, popped, running, waiting, skipped_waiting,
                 inflight_prefills, seqVars, batch_queue, loading, sending, finished_recving,
                 finished_req_ids, resets, step>>

InOutputLoop == pc = "outputs" /\ step # <<>>

IsStale(r) == req[r].num_stale_output_tokens > 0

\* The item's tokens are no longer in flight, and no longer stale.
Drained(q, n) ==
  [q EXCEPT !.num_in_flight_tokens = @ - n,
            !.num_stale_output_tokens = IF @ > 0 THEN @ - n ELSE @]

\* The request is finished, or its output belongs to a discarded attempt.
Discarded(r) == req[r].status = "FINISHED" \/ (IsStale(r) /\ req[r].drop_stale_output)

\* Output without a token, or whose token is not wanted or rests on a failed load.
UpdateDiscard ==
  LET item == Head(step)
      r    == item.req
  IN /\ InOutputLoop
     /\ r \in local.failed \/ r \notin Known \/ Discarded(r) \/ item.samples = 0
     /\ req' = IF r \in Known THEN [req EXCEPT ![r] = Drained(@, item.n)] ELSE req
     /\ step' = Tail(step)
     /\ UNCHANGED <<kvVars, running, waiting, skipped_waiting, inflight_prefills, seqVars, envVars,
                    xferVars, pc, local>>

\* check_stop: the length limits, or any stop token.
MustStop(r) ==
  \/ req[r].num_tokens + 1 >= MaxTokens
  \/ req[r].num_tokens + 1 - PromptLen[r] >= MaxOutput[r]

\* _update_request_with_output: the token is appended, and what it completes is
\* cached unless the request was preempted meanwhile.
UpdateDeliver ==
  LET item == Head(step)
      r    == item.req
      placeholders == req[r].num_output_placeholders - (IF Async /\ ~IsStale(r) THEN 1 ELSE 0)
  IN /\ InOutputLoop
     /\ r \notin local.failed /\ r \in Known /\ ~Discarded(r) /\ item.samples > 0
     /\ req' = [req EXCEPT ![r] =
                  [Drained(@, item.n) EXCEPT !.num_tokens = @ + 1,
                                             !.num_output_placeholders = placeholders]]
     /\ IF Async /\ req[r].status = "RUNNING"
        THEN cache_blocks(r, req[r].num_computed_tokens - placeholders) /\ UNCHANGED popped
        ELSE UNCHANGED kvVars
     /\ \E stopped \in {TRUE} \cup {MustStop(r)} :
          /\ pc' = IF stopped THEN "stop" ELSE pc
          /\ step' = IF stopped THEN step ELSE Tail(step)
     /\ UNCHANGED <<running, waiting, skipped_waiting, inflight_prefills, seqVars, envVars,
                    xferVars, local>>

\* Mutant: only the running queue is searched for the stopped request.
StopRunningOnly ==
  LET r == Head(step).req
  IN /\ pc = "stop"
     /\ _free_request(r, FALSE)
     /\ running' = remove_requests(running, {r})
     /\ pc' = "outputs"
     /\ step' = Tail(step)
     /\ UNCHANGED <<waiting, skipped_waiting, sched_ahead, batch_queue, loading, finished_recving,
                    failed_recving, resets, load_failures, local>>

\* The stopped request is freed and leaves the queue it is in.
UpdateStop ==
  LET r == Head(step).req
  IN /\ pc = "stop"
     /\ _free_request(r, FALSE)
     /\ running' = remove_requests(running, {r})
     /\ waiting' = remove_requests(waiting, {r})
     /\ skipped_waiting' = remove_requests(skipped_waiting, {r})
     /\ pc' = "outputs"
     /\ step' = Tail(step)
     /\ UNCHANGED <<sched_ahead, batch_queue, loading, finished_recving, failed_recving, resets,
                    load_failures, local>>

\* Requests whose load failed end with an error, unless they are to recompute.
UpdateFailed(r) ==
  /\ pc = "outputs" /\ step = <<>>
  /\ ~recompute_kv_load_failures
  /\ r \in local.failed
  /\ FinishRequest(r)
  /\ local' = [local EXCEPT !.failed = @ \ {r}]
  /\ UNCHANGED <<pc, step>>

\* All requests of the step are done with.
OutputsTaken ==
  pc = "outputs" /\ step = <<>> /\ (recompute_kv_load_failures \/ local.failed = {})

\* The free owed to a finished request whose transfer is reported done.
_free_blocks(r) ==
  /\ _free_request_blocks(r)
  /\ req' = [req EXCEPT ![r] = Forgotten(@)]

\* _update_from_kv_xfer_finished, finished_recving. The load has been started
\* by a step whose result is in.
UpdateFinishedRecving(r) ==
  /\ OutputsTaken
  /\ loading[r] # {}
  /\ LoadStarted(r)
  /\ loading' = [loading EXCEPT ![r] = {}]
  /\ filled' = [b \in Blocks |->
                  IF b \notin loading[r] THEN filled[b]
                  ELSE IF filled[b] < 0 THEN 0
                  ELSE Max0(FilledBy(b, r, 0, req[r].num_computed_tokens))]
  /\ IF Loading(r)
     THEN /\ finished_recving' = finished_recving \cup {r}
          /\ UNCHANGED <<kvVars, req, fences>>
     ELSE /\ _free_blocks(r)
          /\ UNCHANGED finished_recving
  /\ UNCHANGED <<running, waiting, skipped_waiting, inflight_prefills, sched_ahead, batch_queue,
                 sending, failed_recving, finished_req_ids, resets, load_failures, frameVars>>

\* _update_from_kv_xfer_finished, finished_sending.
UpdateFinishedSending(r) ==
  /\ OutputsTaken
  /\ r \in sending
  /\ sending' = sending \ {r}
  /\ _free_blocks(r)
  /\ UNCHANGED <<running, waiting, skipped_waiting, inflight_prefills, sched_ahead, batch_queue,
                 loading, filled, xferVars, frameVars>>

UpdateEnd ==
  /\ OutputsTaken
  /\ pc' = "idle"
  /\ local' = NoLocal
  /\ UNCHANGED <<kvVars, reqVars, seqVars, envVars, xferVars, step>>

----------------------------------------------------------------------------
(* The specification                                                       *)

NewRequest ==
  [status |-> "NEW", num_tokens |-> 0, num_computed_tokens |-> 0, num_output_placeholders |-> 0,
   num_in_flight_tokens |-> 0, num_stale_output_tokens |-> 0, drop_stale_output |-> FALSE,
   preempted |-> FALSE, last_sched_seq |-> 0]

Init ==
  /\ InitManager
  /\ config \in Configurations
  /\ req = [r \in Requests |-> NewRequest]
  /\ running = <<>> /\ waiting = <<>> /\ skipped_waiting = <<>>
  /\ inflight_prefills = {} /\ finished_recving = {} /\ failed_recving = {} /\ finished_req_ids = {}
  /\ fences = <<>> /\ sched_ahead = 0
  /\ batch_queue = <<>> /\ loading = [r \in Requests |-> {}] /\ sending = {}
  /\ filled = [b \in Blocks |-> 0]
  /\ resets = 0 /\ load_failures = 0
  /\ pc = "idle" /\ step = <<>> /\ local = NoLocal

ClientStep ==
  \/ \E r \in Requests : AddRequest(r) \/ AbortRequest(r)
  \/ ResetPrefixCache
  \/ ResetPrefixCacheBegin

ScheduleStep ==
  \/ ScheduleBegin \/ ScheduleSkipRunning \/ ScheduleRunning \/ SchedulePreempt \/ ScheduleRunningEnd
  \/ ScheduleSkipBlocked \/ SchedulePromote \/ ScheduleSkipUndecided \/ ScheduleWaiting
  \/ ScheduleRefuse \/ ScheduleWaitingEnd \/ ScheduleEnd

UpdateStep ==
  \/ UpdateBegin \/ DrainDeferredFrees \/ DrainEnd \/ UpdateLoads \/ UpdateDiscard \/ UpdateDeliver \/ UpdateStop
  \/ (\E r \in Requests : UpdateFailed(r)) \/ UpdateEnd

EngineStep ==
  ScheduleStep \/ AwaitResult \/ UpdateStep \/ ResetPrefixCachePreempt \/ ResetPrefixCacheEnd

ConnectorStep == \E r \in Requests : UpdateFinishedRecving(r) \/ UpdateFinishedSending(r)

Next ==
  /\ ClientStep \/ EngineStep \/ ConnectorStep \/ AwaitInput
  /\ UNCHANGED config

\* The engine's loop keeps running, and every transfer is eventually reported.
Fairness ==
  /\ WF_vars(EngineStep)
  /\ \A r \in Requests : SF_vars(UpdateFinishedRecving(r)) /\ SF_vars(UpdateFinishedSending(r))

Spec == Init /\ [][Next]_<<vars, config>>

FairSpec == Spec /\ Fairness

----------------------------------------------------------------------------
(* Properties                                                              *)

ItemType == [req : Requests, n : Nat, samples : Nat, loads : SUBSET Blocks, reads : SUBSET Blocks,
   writes : SUBSET Blocks]

\* The variables have their types.
TypeOK ==
  /\ req \in [Requests ->
       [status : {"NEW", "RUNNING", "FINISHED", "GONE"} \cup Waiting, num_tokens : Nat,
        num_computed_tokens : Nat, num_output_placeholders : Nat, num_in_flight_tokens : Nat,
        num_stale_output_tokens : Nat, drop_stale_output : BOOLEAN, preempted : BOOLEAN,
        last_sched_seq : Nat]]
  /\ {running, waiting, skipped_waiting} \subseteq Seq(Requests)
  /\ UNION {inflight_prefills, finished_recving, failed_recving, finished_req_ids, sending,
            local.failed} \subseteq Requests
  /\ fences \in Seq(Int) /\ Len(fences) = Len(popped) /\ sched_ahead \in 0..QueueSize
  /\ batch_queue \in Seq([items : Seq(ItemType), starts : SUBSET Requests])
  /\ Len(batch_queue) <= QueueSize
  /\ loading \in [Requests -> SUBSET Blocks]
  /\ filled \in [Blocks -> -1..BlockSize]
  /\ resets \in 0..MaxResets /\ load_failures \in 0..MaxLoadFailures
  /\ pc \in {"idle", "reset", "running", "waiting", "finish", "result", "drain", "loads", "outputs", "stop"}

\* How often r occurs in the queue q.
Count(q, r) == Cardinality({i \in DOMAIN q : q[i] = r})

\* No request is lost or queued twice: whatever was preempted, skipped,
\* promoted, aborted or stopped, a running request is in `running' once, a
\* waiting one is in exactly one waiting queue once, and no other is queued.
QueuesMatchStatus ==
  \A r \in Requests :
    /\ Count(running, r) = IF req[r].status = "RUNNING" THEN 1 ELSE 0
    /\ Count(waiting, r) + Count(skipped_waiting, r) + Count(local.skipped, r)
         = IF req[r].status \in Waiting THEN 1 ELSE 0

\* The steps whose output is still to be taken, oldest first; the item being
\* stopped has been taken.
Pending ==
  (IF pc \in {"drain", "loads", "outputs"} THEN <<step>> ELSE IF pc = "stop" THEN <<Tail(step)>> ELSE <<>>)
    \o [i \in DOMAIN batch_queue |-> batch_queue[i].items]

ItemsOf(r)    == {i \in DOMAIN Pending : \E j \in DOMAIN Pending[i] : Pending[i][j].req = r}
ItemOf(r, i)  == LET j == CHOOSE j \in DOMAIN Pending[i] : Pending[i][j].req = r IN Pending[i][j]
TokensIn(r, S) == MapThenSumSet(LAMBDA i : ItemOf(r, i).n, S)

\* The pending items of r that belong to an attempt that was preempted.
StaleItems(r) ==
  {i \in ItemsOf(r) :
     TokensIn(r, {j \in ItemsOf(r) : j <= i}) <= req[r].num_stale_output_tokens}

\* The counters of a request agree with the steps in flight through every
\* preemption and resumption: tokens in flight, the share of them that is
\* stale (whole steps, the oldest), and one placeholder per token awaited.
InFlightCounters ==
  \A r \in Known :
    /\ req[r].num_in_flight_tokens = TokensIn(r, ItemsOf(r))
    /\ req[r].num_stale_output_tokens = TokensIn(r, StaleItems(r))
    /\ Async /\ req[r].status # "FINISHED" /\ r \notin local.failed => req[r].num_output_placeholders
         = Cardinality({i \in ItemsOf(r) \ StaleItems(r) : ItemOf(r, i).samples > 0})

\* The pending items of r whose token will be delivered.
Deliverable(r) ==
  {i \in ItemsOf(r) : /\ ItemOf(r, i).samples > 0
                      /\ ~(req[r].drop_stale_output /\ i \in StaleItems(r))}

\* Every output position is delivered once and in order: the tokens still to be
\* delivered were sampled for the positions right after the ones delivered,
\* however the request was preempted and resumed in between.
TokensInOrder ==
  \A r \in Known \ local.failed : req[r].status # "FINISHED" =>
    \A i \in Deliverable(r) :
      ItemOf(r, i).samples = req[r].num_tokens + Cardinality({j \in Deliverable(r) : j <= i})

\* "Skip failed or rescheduled requests": no token is delivered that was computed
\* from a block that failed to load. When the failure is reported, every request
\* with a step in flight that reads such a block, directly or through what
\* another request computed from it, fails, has ended or drops that output.
NoTokenFromFailedLoads ==
  [][pc = "loads" => \A i \in DOMAIN Pending : \A j \in DOMAIN Pending[i] :
       LET r == Pending[i][j].req
       IN (\E b \in Pending[i][j].reads : filled[b] > 0 /\ filled'[b] = 0)
            => r \in local'.failed \/ r \notin Known \/ Discarded(r)]_vars

WritesOf(items) == UNION {items[j].writes : j \in DOMAIN items}
LoadsOf(items)  == UNION {items[j].loads : j \in DOMAIN items}

\* A load is not ordered against the steps in flight, so no block that the
\* connector fills is written by a step in flight (the one that carries a
\* synchronous load and later ones aside), or is held by anybody but the
\* request it is loaded for, until the load is reported.
LoadsAreExclusive ==
  /\ \A r \in Requests : \A b \in loading[r] :
       /\ b \in Elems(req_to_blocks[r])
       /\ pool.ref_cnt[b] = 1
       /\ \A i \in DOMAIN batch_queue : b \notin WritesOf(batch_queue[i].items)
  /\ \A i, j \in DOMAIN batch_queue :
       i < j => WritesOf(batch_queue[i].items) \cap LoadsOf(batch_queue[j].items) = {}

\* "Get the computed (cached) blocks": between steps, every block that a lookup
\* can find is full of tokens that the work handed out computes from valid blocks,
\* also when a preemption takes that work back or a load it rests on fails.
CachedIsComputed ==
  pc \in {"idle", "result"} => \A b \in Blocks : KeysOf(pool, b) # {} => filled[b] = BlockSize

\* What is computed for a request is in its blocks, and only requests that
\* run, were loaded or await a transfer hold blocks: no exit path leaks them.
BlocksFollowStatus ==
  \A r \in Requests :
    /\ req[r].num_computed_tokens <= BlockSize * Len(req_to_blocks[r])
    /\ req_to_blocks[r] # <<>> =>
         \/ req[r].status = "RUNNING"
         \/ req[r].status \in Waiting /\ req[r].num_computed_tokens > 0
         \/ r \in sending \cup failed_recving
         \/ loading[r] # {}

\* A free is owed only for steps still in flight, in the order of the steps, so
\* that draining from the front never leaves a due entry behind.
FencesAreDue ==
  /\ \A i, j \in DOMAIN fences : i < j => fences[i] <= fences[j]
  /\ pc # "drain" => \A i \in DOMAIN fences : fences[i] \in 1..sched_ahead

\* A step never exceeds the token budget nor the number of running requests,
\* also when a preempted request has given its tokens back.
WithinLimits ==
  /\ Len(running) <= MaxRunning
  /\ \A i \in DOMAIN batch_queue :
       MapThenSumSet(LAMBDA j : batch_queue[i].items[j].n, DOMAIN batch_queue[i].items)
         <= MaxScheduledTokens

\* Resetting with preemption: "we can make sure the reset is successful", if no
\* frees are deferred and no request awaits a transfer.
ResetSucceeds ==
  [][/\ ~DeferBlockFree /\ pc = "reset" /\ running = <<>>
     /\ sending = {} /\ \A r \in Requests : loading[r] = {}
     => CanResetPrefixCache(pool)]_vars

\* Every request is eventually finished and its blocks are returned, through
\* preemptions, loads and delayed frees.
EveryRequestFinishes ==
  \A r \in Requests : req[r].status = "WAITING" ~> req[r].status = "GONE"

\* When all requests are gone, all blocks come back to the pool.
AllBlocksReturn ==
  (\A r \in Requests : req[r].status = "GONE") ~> (Len(pool.free) = Cardinality(Blocks))

\* The scheduler uses the block tables as a legal caller of KVCacheManager does: on
\* them each of its steps is one call of KVCacheClient, or none. (The stuttering
\* steps are named first only because TLC then has less to evaluate.)
Tables == INSTANCE KVCacheClient WITH loads_failed <- FALSE

TablesSpec ==
  Tables!Init /\ [][kvVars' = kvVars \/ Tables!NextLoadsSucceed \/ Tables!EvictTails]_kvVars
=============================================================================
