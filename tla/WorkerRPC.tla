------------------------------ MODULE WorkerRPC ------------------------------
(***************************************************************************)
(* MultiprocExecutor and its workers. collective_rpc broadcasts a call,    *)
(* every worker runs the calls in order and some of them reply, each on a  *)
(* queue of its own; a future collects the replies. A reply carries no     *)
(* call number: it belongs to a call only by its place in the queue.       *)
(*                                                                         *)
(* The broadcast queue is the BroadcastLog that ShmBroadcast implements; a *)
(* response queue is the same with one reader. Workers may raise in a      *)
(* call or die, and callers may time out.                                  *)
(***************************************************************************)
EXTENDS Integers, Sequences, FiniteSets, SequencesExt

CONSTANTS
  NumWorkers,      \* world_size; workers are 1..NumWorkers, their ranks plus 1
  MaxChunks,       \* the messages that a queue holds
  Kinds,           \* kinds of calls: reply (the rank that replies, or All), timed,
                   \* non_block, and collective: the workers need each other
  All,
  MaxCalls, MaxFutures, MaxFailures, MaxDeaths   \* bounds

Workers == 1..NumWorkers
None    == 0

ASSUME RPCAssumption ==
  /\ NumWorkers \in Nat \ {0} /\ MaxChunks \in Nat \ {0}
  /\ MaxCalls \in Nat /\ MaxFutures \in Nat /\ MaxFailures \in Nat /\ MaxDeaths \in Nat
  /\ \A k \in Kinds : k.reply \in Workers \cup {All}

VARIABLES
  use_async_scheduling,
  log,            \* the calls broadcast; a call is known by its index
  delivered,      \* delivered[w]: the calls worker w has taken
  worker,         \* pc, and the status to be sent
  outputs,        \* async_output_queue of every worker
  replies,        \* the response queues
  driver,         \* pc, the call to make, the future waited for, the future whose
                  \* replies are collected, and the workers still to be heard
  futures,        \* futures_queue, oldest first
  outcome,        \* of every call
  answers,        \* answers[c]: the replies collected for call c
  given_up,       \* given_up[w]: replies of w that were not waited for
  is_failed,
  stopping,       \* "no", "terminating" (death pipes closed), "cancelled" (queues shut down)
  failures        \* calls that have raised in a worker

workerVars == <<delivered, worker, outputs>>
callerVars == <<futures, outcome, answers, given_up>>
engineVars == <<log, workerVars, replies, driver, callerVars, is_failed, stopping, failures>>
vars == <<use_async_scheduling, engineVars>>

Broadcast == INSTANCE BroadcastLog WITH
  Readers <- Workers, Bounded <- Workers, Capacity <- MaxChunks - 1, Messages <- Kinds

Free == [pc |-> "idle", status |-> "SUCCESS"]
Idle == [pc |-> "idle", kind |-> None, target |-> None, current |-> None, rest |-> <<>>]

Init ==
  /\ use_async_scheduling \in BOOLEAN
  /\ Broadcast!Init
  /\ worker = [w \in Workers |-> Free]
  /\ outputs = [w \in Workers |-> <<>>]
  /\ replies = [w \in Workers |-> <<>>]
  /\ driver = Idle
  /\ futures = <<>>
  /\ outcome = <<>>
  /\ answers = <<>>
  /\ given_up = [w \in Workers |-> 0]
  /\ is_failed = FALSE
  /\ stopping = "no"
  /\ failures = 0

Alive(w) == worker[w].pc # "dead"

\* The workers whose reply the call wants, in the order in which they are heard.
ResponseQueues(c) == IF log[c].reply = All THEN [w \in Workers |-> w] ELSE <<log[c].reply>>

----------------------------------------------------------------------------
(* The caller: collective_rpc and FutureWrapper                            *)

CollectiveRPC(kind) ==
  /\ driver.pc = "idle"
  /\ ~is_failed
  /\ Len(log) < MaxCalls
  /\ Len(futures) < MaxFutures
  /\ driver' = [driver EXCEPT !.pc = "enqueue", !.kind = kind]
  /\ UNCHANGED <<log, workerVars, replies, callerVars, is_failed, stopping, failures>>

\* The call is broadcast once the queue has room, and its future is queued. A call
\* that blocks goes on to wait for it. If meanwhile the executor has shut down, the
\* list of response queues is empty: the call raises, or returns an empty list.
Enqueue ==
  LET c == Len(log) + 1
      unheard == IF driver.kind.reply = All THEN "empty" ELSE "failed"
  IN /\ driver.pc = "enqueue"
     /\ Broadcast!Write(driver.kind)
     /\ outcome' = Append(outcome, IF stopping = "cancelled" THEN unheard ELSE "pending")
     /\ answers' = Append(answers, <<>>)
     /\ futures' = IF stopping = "cancelled" THEN futures ELSE Append(futures, c)
     /\ driver' = IF driver.kind.non_block \/ stopping = "cancelled" THEN Idle
                  ELSE [Idle EXCEPT !.pc = "drain", !.target = c]
     /\ UNCHANGED <<worker, outputs, replies, given_up, is_failed, stopping, failures>>

\* result() of a future.
Result(c) ==
  /\ driver.pc = "idle"
  /\ c \in ToSet(futures)
  /\ driver' = [Idle EXCEPT !.pc = "drain", !.target = c]
  /\ UNCHANGED <<log, workerVars, replies, callerVars, is_failed, stopping, failures>>

\* Mutant: the newest future is served first.
PopNewest ==
  /\ driver.pc = "drain" /\ driver.current = None
  /\ driver' = [driver EXCEPT !.current = Last(futures), !.rest = ResponseQueues(Last(futures))]
  /\ futures' = Front(futures)
  /\ UNCHANGED <<log, workerVars, replies, outcome, answers, given_up, is_failed, stopping, failures>>

\* The futures ahead are served first: replies come in the order of the calls.
PopFuture ==
  /\ driver.pc = "drain" /\ driver.current = None
  /\ driver' = [driver EXCEPT !.current = Head(futures), !.rest = ResponseQueues(Head(futures))]
  /\ futures' = Tail(futures)
  /\ UNCHANGED <<log, workerVars, replies, outcome, answers, given_up, is_failed, stopping, failures>>

\* The current future has its result or exception, and the replies of the workers
\* in unheard are not waited for.
Resolve(o, unheard) ==
  /\ outcome' = [outcome EXCEPT ![driver.current] = o]
  /\ given_up' = [w \in Workers |-> given_up[w] + (IF w \in unheard THEN 1 ELSE 0)]
  /\ driver' = IF driver.current = driver.target THEN Idle
               ELSE [driver EXCEPT !.current = None, !.rest = <<>>]

\* get_response dequeues the next reply. A failure ends the call at once.
TakeReply ==
  /\ driver.pc = "drain" /\ driver.current # None
  /\ LET w == Head(driver.rest)
         reply == Head(replies[w])
     IN /\ replies[w] # <<>>
        /\ replies' = [replies EXCEPT ![w] = Tail(@)]
        /\ answers' = [answers EXCEPT ![driver.current] =
                         Append(@, [worker |-> w, call |-> reply.call, given_up |-> given_up[w]])]
        /\ IF reply.status = "FAILURE" THEN Resolve("failed", ToSet(Tail(driver.rest)))
           ELSE IF Tail(driver.rest) = <<>> THEN Resolve("ok", {})
           ELSE driver' = [driver EXCEPT !.rest = Tail(@)] /\ UNCHANGED <<outcome, given_up>>
  /\ UNCHANGED <<log, workerVars, futures, is_failed, stopping, failures>>

\* No reply before the deadline, or the wait is cancelled.
GiveUp ==
  /\ driver.pc = "drain" /\ driver.current # None
  /\ replies[Head(driver.rest)] = <<>>
  /\ \/ log[driver.current].timed /\ Resolve("timeout", ToSet(driver.rest))
     \/ stopping = "cancelled" /\ Resolve("cancelled", ToSet(driver.rest))
  /\ UNCHANGED <<log, workerVars, replies, futures, answers, is_failed, stopping, failures>>

----------------------------------------------------------------------------
(* The workers                                                             *)

\* worker_busy_loop takes the next call.
WorkerDequeue(w) ==
  /\ worker[w].pc = "idle"
  /\ Broadcast!Deliver(w)
  /\ worker' = [worker EXCEPT ![w].pc = "run"]
  /\ UNCHANGED <<outputs, replies, driver, callerVars, is_failed, stopping, failures>>

\* The call w is running.
Running(w) == Len(delivered[w])

\* A collective call needs every worker.
CanRun(w) == log[Running(w)].collective => \A v \in Workers : Alive(v) /\ Running(v) >= Running(w)

Replies(w) == log[Running(w)].reply \in {All, w}

\* The call returns or raises. The output is handed to the output thread or is to
\* be sent by the worker itself, if the worker replies at all.
WorkerRun(w) ==
  /\ worker[w].pc = "run"
  /\ CanRun(w)
  /\ \E status \in {"SUCCESS"} \cup (IF failures < MaxFailures THEN {"FAILURE"} ELSE {}) :
       /\ failures' = failures + (IF status = "FAILURE" THEN 1 ELSE 0)
       /\ worker' = [worker EXCEPT ![w] =
            IF Replies(w) /\ ~use_async_scheduling THEN [pc |-> "reply", status |-> status] ELSE Free]
       /\ outputs' = IF Replies(w) /\ use_async_scheduling
                     THEN [outputs EXCEPT ![w] = Append(@, [call |-> Running(w), status |-> status])]
                     ELSE outputs
  /\ UNCHANGED <<log, delivered, replies, driver, callerVars, is_failed, stopping>>

\* The reply is written once the response queue has room.
Sends(w, reply) ==
  /\ Len(replies[w]) < MaxChunks
  /\ replies' = [replies EXCEPT ![w] = Append(@, reply)]

\* enqueue_output by the worker, and by its output thread.
WorkerReply(w) ==
  /\ worker[w].pc = "reply"
  /\ Sends(w, [call |-> Running(w), status |-> worker[w].status])
  /\ worker' = [worker EXCEPT ![w] = Free]
  /\ UNCHANGED <<log, delivered, outputs, driver, callerVars, is_failed, stopping, failures>>

AsyncOutput(w) ==
  /\ Alive(w)
  /\ outputs[w] # <<>>
  /\ Sends(w, Head(outputs[w]))
  /\ outputs' = [outputs EXCEPT ![w] = Tail(@)]
  /\ UNCHANGED <<log, delivered, worker, driver, callerVars, is_failed, stopping, failures>>

Die(w) ==
  /\ Alive(w)
  /\ worker' = [worker EXCEPT ![w] = [Free EXCEPT !.pc = "dead"]]
  /\ outputs' = [outputs EXCEPT ![w] = <<>>]
  /\ UNCHANGED <<log, delivered, replies, driver, callerVars, is_failed, stopping, failures>>

\* A worker process dies unexpectedly.
Crash(w) == Cardinality({v \in Workers : ~Alive(v)}) < MaxDeaths /\ stopping = "no" /\ Die(w)

----------------------------------------------------------------------------
(* The monitor thread of the executor                                      *)

\* monitor_workers finds a dead worker; shutdown() closes the death pipes.
MonitorWorkers ==
  /\ stopping = "no"
  /\ \E w \in Workers : ~Alive(w)
  /\ is_failed' = TRUE
  /\ stopping' = "terminating"
  /\ UNCHANGED <<log, workerVars, replies, driver, callerVars, failures>>

\* A worker leaves its loop when its death pipe closes, or is terminated.
Exit(w) == stopping = "terminating" /\ Die(w)

\* Mutant: the response queues are not shut down.
ShutdownWorkersOnly ==
  /\ stopping = "terminating"
  /\ \A w \in Workers : ~Alive(w)
  /\ stopping' = "stopped"
  /\ UNCHANGED <<log, workerVars, replies, driver, callerVars, is_failed, failures>>

\* With the workers gone the response queues are shut down.
Shutdown ==
  /\ stopping = "terminating"
  /\ \A w \in Workers : ~Alive(w)
  /\ stopping' = "cancelled"
  /\ UNCHANGED <<log, workerVars, replies, driver, callerVars, is_failed, failures>>

----------------------------------------------------------------------------

DriverStep == Enqueue \/ PopFuture \/ TakeReply \/ GiveUp

WorkerStep(w) == WorkerDequeue(w) \/ WorkerRun(w) \/ WorkerReply(w)

Monitor == MonitorWorkers \/ Shutdown \/ \E w \in Workers : Exit(w)

Next ==
  /\ \/ \E kind \in Kinds : CollectiveRPC(kind)
     \/ \E c \in 1..MaxCalls : Result(c)
     \/ DriverStep
     \/ \E w \in Workers : WorkerStep(w) \/ AsyncOutput(w) \/ Crash(w)
     \/ Monitor
  /\ UNCHANGED use_async_scheduling

Spec == Init /\ [][Next]_vars

\* The threads of the executor and of the workers run; each of their steps changes
\* the variable in its subscript. Nothing is assumed of calls, failures and crashes.
FairSpec ==
  /\ Spec
  /\ WF_driver(DriverStep) /\ WF_<<worker, stopping>>(Monitor)
  /\ \A w \in Workers : WF_worker(WorkerStep(w)) /\ WF_outputs(AsyncOutput(w))

----------------------------------------------------------------------------
(* Properties                                                              *)

\* The variables have their types, and every queue stays within its chunks.
TypeOK ==
  /\ log \in Seq(Kinds) /\ Len(outcome) = Len(log) /\ Len(answers) = Len(log)
  /\ \A c \in DOMAIN outcome : outcome[c] \in {"pending", "ok", "failed", "timeout", "cancelled", "empty"}
  /\ \A w \in Workers : /\ worker[w].pc \in {"idle", "run", "reply", "dead"}
                        /\ Len(replies[w]) <= MaxChunks
                        /\ Len(log) - Len(delivered[w]) <= MaxChunks
  /\ driver.pc \in {"idle", "enqueue", "drain"}

\* The calls of 1..c that want a reply of w.
Wanting(w, c) == {d \in 1..c : log[d].reply \in {All, w}}

\* A call gets the reply of a worker to that very call as long as nobody has given up
\* on a reply of that worker; and every reply given up makes all later replies of
\* the worker late by one call. A call that succeeds has heard all it asked.
RepliesKeepPace ==
  \A c \in DOMAIN answers :
    /\ \A i \in DOMAIN answers[c] :
         LET a == answers[c][i]
         IN Cardinality(Wanting(a.worker, c)) - Cardinality(Wanting(a.worker, a.call)) = a.given_up
    /\ outcome[c] = "ok" => Len(answers[c]) = Len(ResponseQueues(c))

\* More replies of a worker have been given up than its response queue holds; with
\* no thread for its outputs the worker blocks on the next one.
QueueClogged == \E w \in Workers : given_up[w] > MaxChunks

\* Every call returns: it has its replies, fails, times out, or is cancelled when a
\* worker has died. So neither the bounded queues nor a death block the engine for
\* ever, but in two cases: a worker whose response queue is clogged, and a
\* broadcast queue that is full when a worker dies.
EveryCallReturns ==
  driver.pc # "idle" ~> \/ driver.pc = "idle"
                        \/ QueueClogged
                        \/ driver.pc = "enqueue" /\ \E w \in Workers : ~Alive(w)
=============================================================================
