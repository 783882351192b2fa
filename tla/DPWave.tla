------------------------------- MODULE DPWave -------------------------------
(***************************************************************************)
(* Data-parallel engines that must step together: the request waves that   *)
(* wake and stop them (DPCoordinatorProc, DPEngineCoreProc and the         *)
(* front-ends' DPAsyncMPClient) and the two-phase pause.                   *)
(*                                                                         *)
(* A forward pass of a mixture-of-experts model is a collective of all     *)
(* ranks, so an engine that steps alone waits for the others.  Messages of *)
(* one connection arrive in order; those of different connections in any.  *)
(* Left out: sleeping engines, elastic scaling, shutdown, load balancing,  *)
(* preemption and the batch queue; a request is the passes it needs.       *)
(***************************************************************************)
EXTENDS Integers, Sequences, FiniteSets

CONSTANTS
  DPSize,        \* number of engines; rank 0 reports to the coordinator
  Clients,       \* front-end processes
  Controller,    \* the client that pauses and resumes
  Requests,
  Steps,         \* Steps[r]: forward passes that request r needs
  SyncInterval,  \* passes between two finish-sync all-reduces (32 in the code)
  PauseModes,    \* the modes the controller uses
  MaxCalls,      \* bound on the pauses and aborts of a behaviour
  ResumeRaces,   \* whether wake-ups may be under way during a resume
  AbortsQueued,  \* whether a request may be aborted before its engine ran it
  LateFirstReq   \* whether a client's stats task may be slow to pass a FIRST_REQ on

ASSUME WaveAssumption ==
  /\ DPSize \in Nat \ {0, 1}
  /\ SyncInterval \in Nat \ {0}
  /\ Controller \in Clients
  /\ Steps \in [Requests -> Nat \ {0}]
  /\ PauseModes \subseteq {"abort", "wait", "keep"}
  /\ ResumeRaces \in BOOLEAN /\ AbortsQueued \in BOOLEAN /\ LateFirstReq \in BOOLEAN

Engines == 0..DPSize - 1
NoEngine == -1

VARIABLES
  eng,       \* the engines
  coord,     \* the coordinator's current_wave and engines_running
  cli,       \* the clients' copies of both, and their FIRST_REQ socket
  toEng,     \* toEng[c][e]: ADD, ABORT and utility calls of client c
  starts,    \* starts[e]: waves of the START_DP_WAVE messages for engine e
  fromEng,   \* fromEng[e]: wave_complete and start_wave messages of engine e
  left,      \* left[r]: forward passes r still needs
  sent, done,\* requests sent to an engine; requests that finished or aborted
  ctl        \* the controller: idle, pausing, paused or resuming

chans == <<toEng, starts, fromEng>>
reqs == <<left, sent, done>>
vars == <<eng, coord, cli, chans, reqs, ctl>>

Init ==
  /\ eng = [e \in Engines |->
              [wave |-> 0, running |-> FALSE, was_running |-> FALSE, counter |-> 0,
               pending_pause |-> FALSE, ignore_start |-> FALSE,
               pause_state |-> "UNPAUSED", pc |-> "input", future |-> FALSE,
               waiting |-> {}, active |-> {}]]
  /\ coord = [wave |-> 0, running |-> FALSE]
  /\ cli = [c \in Clients |-> [wave |-> 0, running |-> FALSE, first_req |-> <<>>]]
  /\ toEng = [c \in Clients |-> [e \in Engines |-> <<>>]]
  /\ starts = [e \in Engines |-> <<>>]
  /\ fromEng = [e \in Engines |-> <<>>]
  /\ left = Steps
  /\ sent = {}
  /\ done = {}
  /\ ctl = [state |-> "idle", calls |-> 0, replies |-> {}]

----------------------------------------------------------------------------
(* The front-ends                                                          *)

\* add_request_async: the request carries the wave the client knows of, and the
\* coordinator is told when the client believes that the engines are stopped.
AddRequest(c, r, e) ==
  /\ r \notin sent
  /\ ResumeRaces \/ ctl.state # "resuming"
  /\ sent' = sent \cup {r}
  /\ toEng' = [toEng EXCEPT ![c][e] =
                 Append(@, [type |-> "ADD", req |-> r, wave |-> cli[c].wave])]
  /\ cli' = IF cli[c].running THEN cli
            ELSE [cli EXCEPT ![c].first_req = Append(@, [target |-> e, wave |-> cli[c].wave]),
                             ![c].running = ~LateFirstReq]
  /\ UNCHANGED <<eng, coord, starts, fromEng, left, done, ctl>>

\* The stats task drains the published wave states, of which only the latest
\* counts: the coordinator publishes every change, and its state every 5 seconds.
UpdateStats(c) ==
  /\ cli' = [cli EXCEPT ![c].wave = coord.wave, ![c].running = coord.running]
  /\ cli' # cli
  /\ UNCHANGED <<eng, coord, chans, reqs, ctl>>

AbortRequest(c, r, e) ==
  /\ ctl.calls < MaxCalls
  /\ r \notin done
  /\ \/ r \in eng[e].active
     \/ AbortsQueued /\ \E i \in DOMAIN toEng[c][e] :
          toEng[c][e][i].type = "ADD" /\ toEng[c][e][i].req = r
  /\ toEng' = [toEng EXCEPT ![c][e] = Append(@, [type |-> "ABORT", req |-> r])]
  /\ ctl' = [ctl EXCEPT !.calls = @ + 1]
  /\ UNCHANGED <<eng, coord, cli, starts, fromEng, reqs>>

\* A utility call goes to every engine and returns when all have answered.
CallAll(msg) ==
  toEng' = [toEng EXCEPT ![Controller] = [e \in Engines |-> Append(@[e], msg)]]

PauseGeneration(mode) ==
  /\ ctl.state = "idle"
  /\ ctl.calls < MaxCalls
  /\ ctl' = [ctl EXCEPT !.state = "pausing", !.calls = @ + 1, !.replies = {}]
  /\ CallAll([type |-> "PAUSE", mode |-> mode])
  /\ UNCHANGED <<eng, coord, cli, starts, fromEng, reqs>>

WakeUpsTaken ==
  /\ \A c \in Clients : cli[c].first_req = <<>>
  /\ \A e \in Engines : starts[e] = <<>> /\ fromEng[e] = <<>>
  /\ \A e \in Engines, c \in Clients : toEng[c][e] = <<>>

ResumeGeneration ==
  /\ ctl.state = "paused"
  /\ ResumeRaces \/ WakeUpsTaken
  /\ ctl' = [ctl EXCEPT !.state = "resuming", !.replies = {}]
  /\ CallAll([type |-> "RESUME"])
  /\ UNCHANGED <<eng, coord, cli, starts, fromEng, reqs>>

\* An answer to the controller's call; the last one ends the call.
Replied(es) ==
  LET all == ctl.replies \cup es = Engines
  IN ctl' = [ctl EXCEPT
       !.replies = IF all THEN {} ELSE @ \cup es,
       !.state = IF ~all THEN @ ELSE IF @ = "pausing" THEN "paused" ELSE "idle"]

----------------------------------------------------------------------------
(* The coordinator                                                         *)

\* The excluded engine drops its copy of the broadcast, so it gets none here.
_send_start_wave(wave, exclude) ==
  starts' = [e \in Engines |-> IF e = exclude THEN starts[e] ELSE Append(starts[e], wave)]

\* The coordinator is told of a request and wakes the other engines.  The stats
\* task stamps the message with the wave that the client knows of when the task
\* runs, which may be later than the request's.
HandleFirstReq(c) ==
  /\ cli[c].first_req # <<>>
  /\ LET msg  == Head(cli[c].first_req)
         wave == IF LateFirstReq THEN cli[c].wave ELSE msg.wave
     IN IF coord.running THEN UNCHANGED starts
        ELSE _send_start_wave(coord.wave, IF wave < coord.wave THEN NoEngine ELSE msg.target)
  /\ cli' = [cli EXCEPT ![c].first_req = Tail(@), ![c].running = LateFirstReq \/ @]
  /\ UNCHANGED <<eng, coord, toEng, fromEng, reqs, ctl>>

\* Mutant: every wave_complete advances the wave, also one that a start_wave of
\* another engine has overtaken.
CompleteCounts(e, wave) ==
  /\ coord' = [wave |-> coord.wave + 1, running |-> FALSE]
  /\ UNCHANGED starts

HandleWaveComplete(e, wave) ==
  /\ coord' = IF coord.wave <= wave THEN [wave |-> wave + 1, running |-> FALSE] ELSE coord
  /\ UNCHANGED starts

HandleStartWave(e, wave) ==
  IF wave > coord.wave \/ (wave = coord.wave /\ ~coord.running)
  THEN /\ coord' = [wave |-> wave, running |-> TRUE]
       /\ _send_start_wave(wave, e)
  ELSE UNCHANGED <<coord, starts>>

HandleEngineOutput(e) ==
  /\ fromEng[e] # <<>>
  /\ LET msg == Head(fromEng[e])
     IN \/ msg.type = "wave_complete" /\ HandleWaveComplete(e, msg.wave)
        \/ msg.type = "start_wave" /\ HandleStartWave(e, msg.wave)
  /\ fromEng' = [fromEng EXCEPT ![e] = Tail(@)]
  /\ UNCHANGED <<eng, cli, toEng, reqs, ctl>>

----------------------------------------------------------------------------
(* The engines                                                             *)

\* Scheduler.get_num_unfinished_requests: a paused scheduler does not count the
\* requests it will not schedule.
UnfinishedAfter(en, finished) ==
  CASE en.pause_state = "PAUSED_ALL" -> {}
    [] en.pause_state = "PAUSED_NEW" -> en.active \ finished
    [] OTHER -> (en.active \cup en.waiting) \ finished

Unfinished(en) == UnfinishedAfter(en, {})

has_work(en) == en.running \/ Unfinished(en) # {}

\* The input queue is read between two steps; waiting pause futures are
\* resolved before an engine without work takes the next message.
ReadsInput(e) == eng[e].pc = "input" /\ (has_work(eng[e]) \/ ~eng[e].future)

Notify(e, msg) == fromEng' = [fromEng EXCEPT ![e] = Append(@, msg)]

\* Mutant: a request of an old wave wakes nobody.
AddOnly(e, msg) ==
  /\ eng' = [eng EXCEPT ![e].waiting = @ \cup {msg.req}]
  /\ UNCHANGED <<fromEng, done, ctl>>

HandleAdd(e, msg) ==
  LET en     == eng[e]
      added  == [en EXCEPT !.waiting = @ \cup {msg.req}]
      stale  == msg.wave < en.wave /\ ~en.running /\ en.pause_state = "UNPAUSED"
  IN /\ IF stale
        THEN /\ eng' = [eng EXCEPT ![e] = [added EXCEPT !.running = TRUE]]
             /\ Notify(e, [type |-> "start_wave", wave |-> en.wave])
        ELSE /\ eng' = [eng EXCEPT ![e] =
                          [added EXCEPT !.wave = IF msg.wave > @ THEN msg.wave ELSE @]]
             /\ UNCHANGED fromEng
     /\ UNCHANGED <<done, ctl>>

Without(en, rs) == [en EXCEPT !.waiting = @ \ rs, !.active = @ \ rs]

HandleAbort(e, msg) ==
  /\ eng' = [eng EXCEPT ![e] = Without(@, {msg.req})]
  /\ done' = done \cup {msg.req}
  /\ UNCHANGED <<fromEng, ctl>>

pause_scheduler(e, msg) ==
  LET en   == eng[e]
      gone == IF msg.mode = "abort" THEN en.waiting \cup en.active ELSE {}
  IN /\ eng' = [eng EXCEPT ![e] =
          [Without(en, gone) EXCEPT
             !.pause_state = IF msg.mode = "keep" THEN "PAUSED_ALL" ELSE "PAUSED_NEW",
             !.pending_pause = TRUE, !.running = TRUE, !.future = TRUE]]
     /\ done' = done \cup gone
     /\ UNCHANGED <<fromEng, ctl>>

\* The engines are stopped, so the call goes on to the barrier; called while
\* they run it fails or does nothing, and answers at once.
resume_scheduler(e, msg) ==
  /\ IF eng[e].pending_pause \/ eng[e].running
     THEN /\ UNCHANGED eng
          /\ Replied({e})
     ELSE /\ eng' = [eng EXCEPT ![e].pause_state = "UNPAUSED",
                                ![e].ignore_start = FALSE, ![e].pc = "resume"]
          /\ UNCHANGED ctl
  /\ UNCHANGED <<fromEng, done>>

HandleClientRequest(e, c) ==
  /\ ReadsInput(e)
  /\ toEng[c][e] # <<>>
  /\ LET msg == Head(toEng[c][e])
     IN \/ msg.type = "ADD" /\ HandleAdd(e, msg)
        \/ msg.type = "ABORT" /\ HandleAbort(e, msg)
        \/ msg.type = "PAUSE" /\ pause_scheduler(e, msg)
        \/ msg.type = "RESUME" /\ resume_scheduler(e, msg)
  /\ toEng' = [toEng EXCEPT ![c][e] = Tail(@)]
  /\ UNCHANGED <<coord, cli, starts, left, sent>>

\* Mutant: a START_DP_WAVE resets the step counter.
StartedAfresh(en, wave) ==
  IF ~en.ignore_start /\ wave >= en.wave
  THEN [en EXCEPT !.wave = wave, !.running = TRUE, !.counter = 0]
  ELSE en

\* START_DP_WAVE as an engine takes it.
Started(en, wave) ==
  IF ~en.ignore_start /\ wave >= en.wave
  THEN [en EXCEPT !.wave = wave, !.running = TRUE]
  ELSE en

HandleStart(e) ==
  /\ ReadsInput(e)
  /\ starts[e] # <<>>
  /\ eng' = [eng EXCEPT ![e] = Started(@, Head(starts[e]))]
  /\ starts' = [starts EXCEPT ![e] = Tail(@)]
  /\ UNCHANGED <<coord, cli, toEng, fromEng, reqs, ctl>>

\* The idle callbacks run: the pause of this engine is complete.
NotifyIdle(e) ==
  /\ eng[e].pc = "input" /\ eng[e].future /\ ~has_work(eng[e])
  /\ eng' = [eng EXCEPT ![e].future = FALSE]
  /\ Replied({e})
  /\ UNCHANGED <<coord, cli, chans, reqs>>

\* An engine with work leaves its input queue, schedules and enters the forward
\* pass, a dummy one if nothing is scheduled.
EnterStep(e) ==
  /\ eng[e].pc = "input" /\ has_work(eng[e])
  /\ eng' = [eng EXCEPT ![e].pc = "step",
       ![e].active = IF eng[e].pause_state = "UNPAUSED" THEN @ \cup eng[e].waiting ELSE @,
       ![e].waiting = IF eng[e].pause_state = "UNPAUSED" THEN {} ELSE @]
  /\ UNCHANGED <<coord, cli, chans, reqs, ctl>>

\* What the passes of all ranks compute: the requests that were scheduled, and
\* those of them that finish.
Scheduled == UNION {eng[e].active : e \in {f \in Engines : eng[f].pause_state # "PAUSED_ALL"}}
Finishing == {r \in Scheduled : left[r] = 1}

PauseCount == Cardinality({e \in Engines : eng[e].pending_pause})
has_unfinished_dp == \E e \in Engines : UnfinishedAfter(eng[e], Finishing) # {}

\* Mutant: one rank's pause stops all ranks.
SyncAnyPause ==
  [unfinished |-> has_unfinished_dp, consensus |-> PauseCount > 0]

sync_dp_state ==
  [unfinished |-> has_unfinished_dp \/ PauseCount % DPSize # 0,
   consensus  |-> PauseCount = DPSize]

\* The rest of the loop's body after the forward pass, for one engine.
AfterStep(en, sync, state) ==
  LET stops   == sync /\ ~state.unfinished
      paused  == sync /\ state.consensus
      stopped == [Without(en, Finishing) EXCEPT
                    !.pc = "input", !.running = ~stops, !.was_running = ~stops,
                    !.ignore_start = @ \/ paused, !.pending_pause = @ /\ ~paused]
  IN IF stops
     THEN [stopped EXCEPT !.wave = @ + 1, !.counter = 0]
     ELSE [stopped EXCEPT !.counter = (@ + 1) % SyncInterval]

\* What rank 0 reports of its step: that the wave is complete, or that it began.
Report(sync, state) ==
  LET zero  == eng[0]
      stops == sync /\ ~state.unfinished
      still_pending == zero.pending_pause /\ ~(sync /\ state.consensus)
  IN IF stops THEN Notify(0, [type |-> "wave_complete", wave |-> zero.wave])
     ELSE IF ~zero.was_running /\ ~still_pending
     THEN Notify(0, [type |-> "start_wave", wave |-> zero.wave])
     ELSE UNCHANGED fromEng

\* All ranks are in the forward pass: it ends, and every SyncInterval passes the
\* all-reduce follows.  The rest of an iteration touches only the engine's own
\* state and what it sends, so all ranks end their iteration together here.
Step ==
  /\ \A e \in Engines : eng[e].pc = "step"
  /\ \A e, f \in Engines : eng[e].counter = eng[f].counter
  /\ LET sync  == eng[0].counter + 1 = SyncInterval
         state == sync_dp_state
     IN /\ eng' = [e \in Engines |-> AfterStep(eng[e], sync, state)]
        /\ Report(sync, state)
  /\ left' = [r \in Requests |-> IF r \in Scheduled THEN left[r] - 1 ELSE left[r]]
  /\ done' = done \cup Finishing
  /\ UNCHANGED <<coord, cli, toEng, starts, sent, ctl>>

\* All ranks are in the barrier of resume_scheduler.
ResumeBarrier ==
  /\ \A e \in Engines : eng[e].pc = "resume"
  /\ eng' = [e \in Engines |->
       [eng[e] EXCEPT !.pc = "input", !.running = \E f \in Engines : Unfinished(eng[f]) # {}]]
  /\ Replied(Engines)
  /\ UNCHANGED <<coord, cli, chans, reqs>>

----------------------------------------------------------------------------

Next ==
  \/ \E c \in Clients, r \in Requests, e \in Engines : AddRequest(c, r, e)
  \/ \E c \in Clients, r \in Requests, e \in Engines : AbortRequest(c, r, e)
  \/ \E c \in Clients : UpdateStats(c)
  \/ \E c \in Clients : HandleFirstReq(c)
  \/ \E mode \in PauseModes : PauseGeneration(mode)
  \/ ResumeGeneration
  \/ \E e \in Engines : HandleEngineOutput(e)
  \/ \E e \in Engines, c \in Clients : HandleClientRequest(e, c)
  \/ \E e \in Engines : HandleStart(e)
  \/ \E e \in Engines : NotifyIdle(e)
  \/ \E e \in Engines : EnterStep(e)
  \/ Step
  \/ ResumeBarrier

Spec == Init /\ [][Next]_vars

CoordinatorReady ==
  (\E c \in Clients : cli[c].first_req # <<>>) \/ (\E e \in Engines : fromEng[e] # <<>>)
InputReady(e) ==
  ReadsInput(e) /\ (starts[e] # <<>> \/ \E c \in Clients : toEng[c][e] # <<>>)
ResumeReady == ctl.state = "paused" /\ (ResumeRaces \/ WakeUpsTaken)
EnginesReady ==
  \/ \A e \in Engines : eng[e].pc = "step"
  \/ \A e \in Engines : eng[e].pc = "resume"
  \/ \E e \in Engines : eng[e].pc = "input" /\ (has_work(eng[e]) \/ eng[e].future)

\* The processes run and the connections deliver.  A behaviour has finitely many
\* messages and calls, so fairness to those who take them says that in the end
\* nothing is left to take; an engine empties its input queue in every iteration,
\* which makes that fairness strong.  The engines' own steps are weakly fair.
\* Nothing is assumed of the clients' requests, aborts, pauses and stats tasks.
Fairness ==
  /\ <>[]~CoordinatorReady
  /\ \A e \in Engines : <>[]~InputReady(e)
  /\ <>[]~ResumeReady
  /\ []<>~EnginesReady \/ []<><<eng' # eng>>_vars

FairSpec == Spec /\ Fairness

----------------------------------------------------------------------------
(* Properties                                                              *)

\* The variables have their types; an engine queues or runs only requests that
\* were sent and are not over, each in one place.
TypeOK ==
  /\ \A e \in Engines :
       /\ eng[e].wave \in Nat /\ eng[e].counter \in 0..SyncInterval - 1
       /\ eng[e].pc \in {"input", "step", "resume"}
       /\ eng[e].pause_state \in {"UNPAUSED", "PAUSED_NEW", "PAUSED_ALL"}
       /\ eng[e].waiting \cup eng[e].active \subseteq sent \ done
       /\ eng[e].waiting \cap eng[e].active = {}
  /\ coord.wave \in Nat
  /\ \A r \in Requests : left[r] \in 0..Steps[r]

\* The ranks never wait for each other in different collectives: no rank is in
\* the barrier of a resume while another is in a forward pass, and all ranks of
\* a pass agree whether the finish-sync all-reduce follows it.
CollectivesMatch ==
  \A e, f \in Engines :
    /\ ~(eng[e].pc = "step" /\ eng[f].pc = "resume")
    /\ eng[e].pc = "step" /\ eng[f].pc = "step" => eng[e].counter = eng[f].counter

\* The wave numbers agree: all engines are in one wave, the coordinator is never
\* ahead of them, and no front-end is ahead of the coordinator.
WavesAgree ==
  /\ \A e, f \in Engines : eng[e].wave = eng[f].wave
  /\ \A e \in Engines : coord.wave <= eng[e].wave
  /\ \A c \in Clients : cli[c].wave <= coord.wave

\* Once the first engine has reported its pause complete no engine computes
\* until the controller resumes, whatever START_DP_WAVE messages are still under
\* way: the weights may be changed.
PauseHolds ==
  ctl.state = "paused" \/ (ctl.state = "pausing" /\ ctl.replies # {}) =>
    \A e \in Engines : eng[e].pc = "input" /\ ~has_work(eng[e])

\* Everything comes to rest, as a behaviour has finitely many requests and calls:
\* every request sent is finished or aborted, every pause is agreed on and
\* resumed from, no rank is left in a forward pass that the others do not join,
\* and the dummy passes stop.
AllSettle ==
  <>[](/\ sent = done
       /\ ctl.state = "idle"
       /\ \A e \in Engines : eng[e].pc = "input" /\ ~eng[e].running)
=============================================================================
