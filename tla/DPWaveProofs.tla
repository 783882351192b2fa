----------------------------- MODULE DPWaveProofs -----------------------------
(***************************************************************************)
(* Data-parallel engines for any number of engines, front-ends and         *)
(* requests: the wave numbers agree, the ranks meet in the same            *)
(* collectives, and a pause holds.                                         *)
(***************************************************************************)
EXTENDS DPWave, TLAPS

----------------------------------------------------------------------------
(* Types                                                                   *)

EngineState ==
  [wave : Nat, running : BOOLEAN, was_running : BOOLEAN, counter : Nat,
   pending_pause : BOOLEAN, ignore_start : BOOLEAN,
   pause_state : {"UNPAUSED", "PAUSED_NEW", "PAUSED_ALL"}, pc : {"input", "step", "resume"},
   future : BOOLEAN, waiting : SUBSET Requests, active : SUBSET Requests]

Add == [type : {"ADD"}, req : Requests, wave : Nat]
Abort == [type : {"ABORT"}, req : Requests]
Pause == [type : {"PAUSE"}, mode : PauseModes]
Resume == [type : {"RESUME"}]
Calls == Add \cup Abort \cup Pause \cup Resume

Outputs == [type : {"wave_complete", "start_wave"}, wave : Nat]
FirstReqs == [target : Engines, wave : Nat]

ClientState == [wave : Nat, running : BOOLEAN, first_req : Seq(FirstReqs)]
ControllerState ==
  [state : {"idle", "pausing", "paused", "resuming"}, calls : Nat, replies : SUBSET Engines]

Types ==
  /\ eng \in [Engines -> EngineState]
  /\ coord \in [wave : Nat, running : BOOLEAN]
  /\ cli \in [Clients -> ClientState]
  /\ toEng \in [Clients -> [Engines -> Seq(Calls)]]
  /\ starts \in [Engines -> Seq(Nat)]
  /\ fromEng \in [Engines -> Seq(Outputs)]
  /\ ctl \in ControllerState

\* No message carries a wave that the engines have not reached, and the end of a
\* wave is reported only when they have left it.
MessagesBehind ==
  /\ \A c \in Clients, e \in Engines : \A i \in 1..Len(toEng[c][e]) :
       toEng[c][e][i].type = "ADD" => toEng[c][e][i].wave <= eng[0].wave
  /\ \A e \in Engines : \A i \in 1..Len(starts[e]) : starts[e][i] <= eng[0].wave
  /\ \A e \in Engines : \A i \in 1..Len(fromEng[e]) :
       /\ fromEng[e][i].wave <= eng[0].wave
       /\ fromEng[e][i].type = "wave_complete" => fromEng[e][i].wave < eng[0].wave

Waves == Types /\ WavesAgree /\ MessagesBehind

----------------------------------------------------------------------------
(* Sequences                                                               *)

\* The length of a queue and its messages.
LEMMA SeqLen ==
  ASSUME NEW S, NEW s \in Seq(S)
  PROVE  /\ Len(s) \in Nat /\ DOMAIN s = 1..Len(s)
         /\ \A i \in 1..Len(s) : s[i] \in S
         /\ s # <<>> => Len(s) >= 1
  OBVIOUS

\* The empty queue.
LEMMA SeqEmpty == ASSUME NEW S PROVE <<>> \in Seq(S) /\ Len(<<>>) = 0
  OBVIOUS

\* A message is added to a queue.
LEMMA SeqAppend ==
  ASSUME NEW S, NEW s \in Seq(S), NEW e \in S
  PROVE  /\ Append(s, e) \in Seq(S)
         /\ Len(Append(s, e)) = Len(s) + 1
         /\ \A i \in 1..Len(s) : Append(s, e)[i] = s[i]
         /\ Append(s, e)[Len(s) + 1] = e
  OBVIOUS

\* The first message of a queue is taken.
LEMMA SeqTail ==
  ASSUME NEW S, NEW s \in Seq(S), s # <<>>
  PROVE  /\ Head(s) = s[1] /\ Tail(s) \in Seq(S)
         /\ Len(Tail(s)) = Len(s) - 1
         /\ \A i \in 1..Len(Tail(s)) : Tail(s)[i] = s[i + 1]
  OBVIOUS

\* What is in a queue after a message was added or taken.
LEMMA AppendIn ==
  ASSUME NEW S, NEW s \in Seq(S), NEW e \in S, NEW i \in 1..Len(Append(s, e))
  PROVE  (i \in 1..Len(s) /\ Append(s, e)[i] = s[i]) \/ (i = Len(s) + 1 /\ Append(s, e)[i] = e)
  OBVIOUS

\* What is left of a queue was in it before.
LEMMA TailIn ==
  ASSUME NEW S, NEW s \in Seq(S), s # <<>>, NEW i \in 1..Len(Tail(s))
  PROVE  i + 1 \in 1..Len(s) /\ Tail(s)[i] = s[i + 1]
  OBVIOUS

----------------------------------------------------------------------------
(* Types are kept                                                          *)

\* Rank 0 is an engine, and there is more than one.
LEMMA EnginesFacts ==
  /\ DPSize \in Nat \ {0, 1} /\ SyncInterval \in Nat \ {0} /\ Controller \in Clients
  /\ 0 \in Engines /\ Engines \subseteq Int /\ LateFirstReq \in BOOLEAN
  BY WaveAssumption DEF Engines

\* The calls of a front-end and what they carry.
LEMMA CallKinds ==
  ASSUME NEW m \in Calls
  PROVE  /\ m.type \in {"ADD", "ABORT", "PAUSE", "RESUME"}
         /\ m.type = "ADD" => m.req \in Requests /\ m.wave \in Nat
         /\ m.type = "ABORT" => m.req \in Requests
  BY DEF Calls, Add, Abort, Pause, Resume

\* An engine that drops requests stays an engine.
LEMMA WithoutType ==
  ASSUME NEW en \in EngineState, NEW rs
  PROVE  Without(en, rs) \in EngineState
  BY Zenon DEF Without, EngineState

\* The initial state has the types.
LEMMA InitTypes == Init => Types
<1> SUFFICES ASSUME Init PROVE Types
  OBVIOUS
<1>1. eng \in [Engines -> EngineState]
  BY DEF Init, EngineState
<1>2. /\ coord \in [wave : Nat, running : BOOLEAN]
      /\ cli \in [Clients -> ClientState]
  BY SeqEmpty DEF Init, ClientState
<1>3. /\ toEng \in [Clients -> [Engines -> Seq(Calls)]]
      /\ starts \in [Engines -> Seq(Nat)]
      /\ fromEng \in [Engines -> Seq(Outputs)]
  BY SeqEmpty DEF Init
<1>4. ctl \in ControllerState
  BY DEF Init, ControllerState
<1> QED BY <1>1, <1>2, <1>3, <1>4 DEF Types

\* A call reaches the queue of an engine.
LEMMA AppendedTypes ==
  ASSUME Types, NEW c \in Clients, NEW e \in Engines, NEW m \in Calls,
         toEng' = [toEng EXCEPT ![c][e] = Append(@, m)]
  PROVE  toEng' \in [Clients -> [Engines -> Seq(Calls)]]
<1>1. toEng[c][e] \in Seq(Calls)
  BY DEF Types
<1>2. Append(toEng[c][e], m) \in Seq(Calls)
  BY <1>1, SeqAppend
<1> QED BY <1>2 DEF Types

\* A call reaches the queues of all engines.
LEMMA CallAllTypes ==
  ASSUME Types, NEW m \in Calls, CallAll(m)
  PROVE  toEng' \in [Clients -> [Engines -> Seq(Calls)]]
<1>1. \A e \in Engines : Append(toEng[Controller][e], m) \in Seq(Calls)
  BY EnginesFacts, SeqAppend, SMTT(20) DEF Types
<1> QED BY <1>1, EnginesFacts DEF CallAll, Types

\* The controller counts the replies.
LEMMA RepliedTypes ==
  ASSUME Types, NEW es \in SUBSET Engines, Replied(es)
  PROVE  ctl' \in ControllerState
  BY Zenon DEF Types, Replied, ControllerState

\* START_DP_WAVE reaches the engines.
LEMMA SentStartTypes ==
  ASSUME Types, NEW w \in Nat, NEW x, _send_start_wave(w, x)
  PROVE  starts' \in [Engines -> Seq(Nat)]
<1>1. \A e \in Engines : Append(starts[e], w) \in Seq(Nat)
  BY SeqAppend DEF Types
<1> QED BY <1>1 DEF _send_start_wave, Types

\* An engine tells the coordinator of a wave.
LEMMA NotifyTypes ==
  ASSUME Types, NEW e \in Engines, NEW m \in Outputs, Notify(e, m)
  PROVE  fromEng' \in [Engines -> Seq(Outputs)]
<1>1. Append(fromEng[e], m) \in Seq(Outputs)
  BY SeqAppend DEF Types
<1> QED BY <1>1 DEF Notify, Types

\* What an engine becomes when it takes a call.
LEMMA ClientRequestTypes ==
  ASSUME Types, NEW e \in Engines, NEW c \in Clients, HandleClientRequest(e, c)
  PROVE  Types'
<1> DEFINE msg == Head(toEng[c][e])
<1>1. toEng[c][e] \in Seq(Calls) /\ toEng[c][e] # <<>> /\ eng[e] \in EngineState
  BY DEF Types, HandleClientRequest
<1>2. msg \in Calls /\ Tail(toEng[c][e]) \in Seq(Calls)
  BY <1>1, SeqTail, SeqLen
<1>3. toEng' \in [Clients -> [Engines -> Seq(Calls)]]
  BY <1>2 DEF Types, HandleClientRequest
<1>4. UNCHANGED <<coord, cli, starts>>
  BY DEF HandleClientRequest
<1> DEFINE Goal == /\ eng' \in [Engines -> EngineState]
                   /\ fromEng' \in [Engines -> Seq(Outputs)]
                   /\ ctl' \in ControllerState
<1> SUFFICES Goal
  BY <1>3, <1>4 DEF Types
<1> HIDE DEF msg
<1>5. CASE msg.type = "ADD" /\ HandleAdd(e, msg)
  <2>1. msg.req \in Requests /\ msg.wave \in Nat
    BY <1>2, <1>5, CallKinds
  <2>2. CASE msg.wave < eng[e].wave /\ ~eng[e].running /\ eng[e].pause_state = "UNPAUSED"
    <3>1. /\ eng' = [eng EXCEPT ![e] =
                       [[eng[e] EXCEPT !.waiting = @ \cup {msg.req}] EXCEPT !.running = TRUE]]
          /\ Notify(e, [type |-> "start_wave", wave |-> eng[e].wave]) /\ ctl' = ctl
      BY <1>5, <2>2 DEF HandleAdd
    <3>2. eng' \in [Engines -> EngineState]
      BY <1>1, <2>1, <3>1, Zenon DEF Types, EngineState
    <3>3. [type |-> "start_wave", wave |-> eng[e].wave] \in Outputs
      BY <1>1 DEF Outputs, EngineState
    <3>4. fromEng' \in [Engines -> Seq(Outputs)]
      BY <3>1, <3>3, NotifyTypes
    <3> QED BY <3>1, <3>2, <3>4 DEF Types
  <2>3. CASE ~(msg.wave < eng[e].wave /\ ~eng[e].running /\ eng[e].pause_state = "UNPAUSED")
    <3>1. /\ eng' = [eng EXCEPT ![e] = [[eng[e] EXCEPT !.waiting = @ \cup {msg.req}]
                                          EXCEPT !.wave = IF msg.wave > @ THEN msg.wave ELSE @]]
          /\ fromEng' = fromEng /\ ctl' = ctl
      BY <1>5, <2>3 DEF HandleAdd
    <3>2. eng' \in [Engines -> EngineState]
      BY <1>1, <2>1, <3>1, ZenonT(30) DEF Types, EngineState
    <3> QED BY <3>1, <3>2 DEF Types
  <2> QED BY <2>2, <2>3
<1>6. CASE msg.type = "ABORT" /\ HandleAbort(e, msg)
  BY <1>1, <1>6, WithoutType DEF Types, HandleAbort
<1>7. CASE msg.type = "PAUSE" /\ pause_scheduler(e, msg)
  <2>1. PICK gone : /\ eng' = [eng EXCEPT ![e] =
                          [Without(eng[e], gone) EXCEPT
                             !.pause_state = IF msg.mode = "keep" THEN "PAUSED_ALL" ELSE "PAUSED_NEW",
                             !.pending_pause = TRUE, !.running = TRUE, !.future = TRUE]]
                    /\ UNCHANGED <<fromEng, ctl>>
    BY <1>7, Zenon DEF pause_scheduler
  <2>2. Without(eng[e], gone) \in EngineState
    BY <1>1, WithoutType
  <2>3. eng' \in [Engines -> EngineState]
    BY <2>1, <2>2, Zenon DEF Types, EngineState
  <2> QED BY <2>1, <2>3 DEF Types
<1>8. CASE msg.type = "RESUME" /\ resume_scheduler(e, msg)
  <2>1. CASE eng[e].pending_pause \/ eng[e].running
    <3>1. eng' = eng /\ Replied({e}) /\ fromEng' = fromEng
      BY <1>8, <2>1 DEF resume_scheduler
    <3> QED BY <3>1, RepliedTypes DEF Types
  <2>2. CASE ~(eng[e].pending_pause \/ eng[e].running)
    <3>1. /\ eng' = [eng EXCEPT ![e].pause_state = "UNPAUSED",
                                ![e].ignore_start = FALSE, ![e].pc = "resume"]
          /\ fromEng' = fromEng /\ ctl' = ctl
      BY <1>8, <2>2 DEF resume_scheduler
    <3>2. eng' = [eng EXCEPT ![e] = [eng[e] EXCEPT !.pause_state = "UNPAUSED",
                                                   !.ignore_start = FALSE, !.pc = "resume"]]
      BY <3>1, Zenon DEF Types
    <3>3. eng' \in [Engines -> EngineState]
      BY <1>1, <3>2, Zenon DEF Types, EngineState
    <3> QED BY <3>1, <3>3 DEF Types
  <2> QED BY <2>1, <2>2
<1> QED BY <1>5, <1>6, <1>7, <1>8 DEF HandleClientRequest, msg

\* An engine at the end of a pass.
LEMMA StoppedType ==
  ASSUME NEW en \in EngineState, NEW r \in BOOLEAN, NEW i \in BOOLEAN, NEW p \in BOOLEAN
  PROVE  [en EXCEPT !.pc = "input", !.running = r, !.was_running = r,
                    !.ignore_start = i, !.pending_pause = p] \in EngineState
  BY Zenon DEF EngineState

\* The end of a pass keeps the type of an engine.
LEMMA AfterStepType ==
  ASSUME NEW en \in EngineState, NEW sync \in BOOLEAN, NEW state
  PROVE  AfterStep(en, sync, state) \in EngineState
<1> DEFINE stops   == sync /\ ~state.unfinished
           paused  == sync /\ state.consensus
           base    == Without(en, Finishing)
           stopped == [base EXCEPT
                         !.pc = "input", !.running = ~stops, !.was_running = ~stops,
                         !.ignore_start = @ \/ paused, !.pending_pause = @ /\ ~paused]
<1>1. stops \in BOOLEAN /\ paused \in BOOLEAN
  OBVIOUS
<1>2. stopped \in EngineState
  <2>1. base \in EngineState
    BY WithoutType
  <2> HIDE DEF stops, paused, base
  <2>2. (~stops) \in BOOLEAN /\ (base.ignore_start \/ paused) \in BOOLEAN
        /\ (base.pending_pause /\ ~paused) \in BOOLEAN
    OBVIOUS
  <2> QED BY <2>1, <2>2, StoppedType, Zenon
<1> HIDE DEF stopped
<1>3. [stopped EXCEPT !.wave = @ + 1, !.counter = 0] \in EngineState
  <2>1. stopped.wave + 1 \in Nat
    BY <1>2 DEF EngineState
  <2> QED BY <1>2, <2>1, Zenon DEF EngineState
<1>4. [stopped EXCEPT !.counter = (@ + 1) % SyncInterval] \in EngineState
  <2>1. stopped.counter \in Nat /\ (stopped.counter + 1) % SyncInterval \in Nat
    BY <1>2, EnginesFacts DEF EngineState
  <2> QED BY <1>2, <2>1 DEF EngineState
<1>5. AfterStep(en, sync, state) = IF stops THEN [stopped EXCEPT !.wave = @ + 1, !.counter = 0]
                                   ELSE [stopped EXCEPT !.counter = (@ + 1) % SyncInterval]
  BY DEF AfterStep, stopped
<1> QED BY <1>3, <1>4, <1>5

\* A pass keeps the types.
LEMMA StepTypes ==
  ASSUME Types, Step
  PROVE  Types'
<1> DEFINE sync == eng[0].counter + 1 = SyncInterval
<1>1. /\ eng' = [e \in Engines |-> AfterStep(eng[e], sync, sync_dp_state)]
      /\ Report(sync, sync_dp_state)
      /\ UNCHANGED <<coord, cli, toEng, starts, ctl>>
  BY DEF Step
<1>2. eng' \in [Engines -> EngineState]
  <2>1. \A e \in Engines : AfterStep(eng[e], sync, sync_dp_state) \in EngineState
    BY AfterStepType, Zenon DEF Types
  <2> QED BY <1>1, <2>1
<1>3. fromEng' \in [Engines -> Seq(Outputs)]
  <2>1. /\ [type |-> "wave_complete", wave |-> eng[0].wave] \in Outputs
        /\ [type |-> "start_wave", wave |-> eng[0].wave] \in Outputs
    BY EnginesFacts DEF Outputs, Types, EngineState
  <2>2. CASE Notify(0, [type |-> "wave_complete", wave |-> eng[0].wave])
    BY <2>1, <2>2, EnginesFacts, NotifyTypes
  <2>3. CASE Notify(0, [type |-> "start_wave", wave |-> eng[0].wave])
    BY <2>1, <2>3, EnginesFacts, NotifyTypes
  <2>4. CASE UNCHANGED fromEng
    BY <2>4 DEF Types
  <2> QED BY <1>1, <2>2, <2>3, <2>4 DEF Report
<1> QED BY <1>1, <1>2, <1>3 DEF Types

\* Every step keeps the types.
LEMMA TypesStep == Types /\ [Next]_vars => Types'
<1> SUFFICES ASSUME Types, [Next]_vars PROVE Types'
  OBVIOUS
<1> USE EnginesFacts
<1>1. ASSUME NEW c \in Clients, NEW r \in Requests, NEW e \in Engines, AddRequest(c, r, e)
      PROVE  Types'
  <2>1. /\ [type |-> "ADD", req |-> r, wave |-> cli[c].wave] \in Calls
        /\ [target |-> e, wave |-> cli[c].wave] \in FirstReqs
    BY DEF Calls, Add, FirstReqs, Types, ClientState
  <2>2. toEng' \in [Clients -> [Engines -> Seq(Calls)]]
    BY <1>1, <2>1, AppendedTypes, Zenon DEF AddRequest
  <2>3. Append(cli[c].first_req, [target |-> e, wave |-> cli[c].wave]) \in Seq(FirstReqs)
    BY <2>1, SeqAppend DEF Types, ClientState
  <2>4. cli' \in [Clients -> ClientState]
    <3>1. CASE cli[c].running
      BY <1>1, <3>1 DEF AddRequest, Types
    <3>2. CASE ~cli[c].running
      <4>1. cli' = [cli EXCEPT ![c] = [cli[c] EXCEPT
                      !.first_req = Append(cli[c].first_req, [target |-> e, wave |-> cli[c].wave]),
                      !.running = ~LateFirstReq]]
        BY <1>1, <3>2, Zenon DEF AddRequest, Types
      <4>2. cli[c] \in ClientState
        BY DEF Types
      <4> QED BY <2>3, <4>1, <4>2, Zenon DEF Types, ClientState
    <3> QED BY <3>1, <3>2
  <2> QED BY <1>1, <2>2, <2>4, Zenon DEF AddRequest, Types
<1>2. ASSUME NEW c \in Clients, NEW r \in Requests, NEW e \in Engines, AbortRequest(c, r, e)
      PROVE  Types'
  <2>1. [type |-> "ABORT", req |-> r] \in Calls
    BY DEF Calls, Abort
  <2>2. toEng' \in [Clients -> [Engines -> Seq(Calls)]]
    BY <1>2, <2>1, AppendedTypes, Zenon DEF AbortRequest
  <2>3. ctl.calls + 1 \in Nat /\ ctl' = [ctl EXCEPT !.calls = ctl.calls + 1]
    BY <1>2, SMTT(20) DEF AbortRequest, Types, ControllerState
  <2>4. ctl' \in ControllerState
    BY <2>3, Zenon DEF Types, ControllerState
  <2> QED BY <1>2, <2>2, <2>4 DEF AbortRequest, Types
<1>3. ASSUME NEW c \in Clients, UpdateStats(c) PROVE Types'
  <2>1. cli' = [cli EXCEPT ![c] = [cli[c] EXCEPT !.wave = coord.wave, !.running = coord.running]]
    BY <1>3, Zenon DEF UpdateStats, Types
  <2>2. cli' \in [Clients -> ClientState]
    <3>1. cli[c] \in ClientState /\ coord.wave \in Nat /\ coord.running \in BOOLEAN
      BY DEF Types
    <3> QED BY <2>1, <3>1, Zenon DEF Types, ClientState
  <2> QED BY <1>3, <2>2 DEF UpdateStats, Types, chans
<1>4. ASSUME NEW c \in Clients, HandleFirstReq(c) PROVE Types'
  <2>1. cli[c].first_req \in Seq(FirstReqs) /\ cli[c].first_req # <<>>
    BY <1>4 DEF HandleFirstReq, Types, ClientState
  <2>2. Tail(cli[c].first_req) \in Seq(FirstReqs)
    BY <2>1, SeqTail
  <2>3. cli' \in [Clients -> ClientState]
    <3>1. cli' = [cli EXCEPT ![c] = [cli[c] EXCEPT !.first_req = Tail(cli[c].first_req),
                                                   !.running = LateFirstReq \/ cli[c].running]]
      BY <1>4, Zenon DEF HandleFirstReq, Types
    <3>2. cli[c] \in ClientState
      BY DEF Types
    <3> QED BY <2>2, <3>1, <3>2, Zenon DEF Types, ClientState
  <2>4. UNCHANGED starts \/ \E x : _send_start_wave(coord.wave, x)
    BY <1>4, Zenon DEF HandleFirstReq
  <2>5. starts' \in [Engines -> Seq(Nat)]
    BY <2>4, SentStartTypes DEF Types
  <2> QED BY <1>4, <2>3, <2>5 DEF HandleFirstReq, Types
<1>5. ASSUME NEW mode \in PauseModes, PauseGeneration(mode) PROVE Types'
  <2>1. [type |-> "PAUSE", mode |-> mode] \in Calls
    BY DEF Calls, Pause
  <2>2. toEng' \in [Clients -> [Engines -> Seq(Calls)]]
    BY <1>5, <2>1, CallAllTypes DEF PauseGeneration
  <2>3. /\ ctl.calls + 1 \in Nat
        /\ ctl' = [ctl EXCEPT !.state = "pausing", !.calls = ctl.calls + 1, !.replies = {}]
    BY <1>5 DEF PauseGeneration, Types, ControllerState
  <2>4. ctl' \in ControllerState
    BY <2>3, Zenon DEF Types, ControllerState
  <2> QED BY <1>5, <2>2, <2>4 DEF PauseGeneration, Types
<1>6. CASE ResumeGeneration
  <2>1. [type |-> "RESUME"] \in Calls
    BY DEF Calls, Resume
  <2>2. toEng' \in [Clients -> [Engines -> Seq(Calls)]]
    BY <1>6, <2>1, CallAllTypes DEF ResumeGeneration
  <2> QED BY <1>6, <2>2, Zenon DEF ResumeGeneration, Types, ControllerState
<1>7. ASSUME NEW e \in Engines, HandleEngineOutput(e) PROVE Types'
  <2> DEFINE msg == Head(fromEng[e])
  <2>1. fromEng[e] \in Seq(Outputs) /\ fromEng[e] # <<>>
    BY <1>7 DEF HandleEngineOutput, Types
  <2>2. msg \in Outputs /\ Tail(fromEng[e]) \in Seq(Outputs)
    BY <2>1, SeqTail, SeqLen
  <2>5. msg.wave \in Nat
    BY <2>2 DEF Outputs
  <2> HIDE DEF msg
  <2>3. fromEng' \in [Engines -> Seq(Outputs)]
    BY <1>7, <2>2 DEF HandleEngineOutput, Types
  <2>4. coord' \in [wave : Nat, running : BOOLEAN] /\ starts' \in [Engines -> Seq(Nat)]
    <3>1. CASE HandleWaveComplete(e, msg.wave)
      BY <2>5, <3>1 DEF HandleWaveComplete, Types
    <3>2. CASE HandleStartWave(e, msg.wave)
      <4>1. CASE coord' = [wave |-> msg.wave, running |-> TRUE] /\ _send_start_wave(msg.wave, e)
        BY <2>5, <4>1, SentStartTypes
      <4>2. CASE UNCHANGED <<coord, starts>>
        BY <4>2 DEF Types
      <4> QED BY <3>2, <4>1, <4>2 DEF HandleStartWave
    <3> QED BY <1>7, <3>1, <3>2 DEF HandleEngineOutput, msg
  <2> QED BY <1>7, <2>3, <2>4, Zenon DEF HandleEngineOutput, Types
<1>8. ASSUME NEW e \in Engines, NEW c \in Clients, HandleClientRequest(e, c) PROVE Types'
  BY <1>8, ClientRequestTypes
<1>9. ASSUME NEW e \in Engines, HandleStart(e) PROVE Types'
  <2>1. starts[e] \in Seq(Nat) /\ starts[e] # <<>> /\ eng[e] \in EngineState
    BY <1>9 DEF HandleStart, Types
  <2>2. Head(starts[e]) \in Nat /\ Tail(starts[e]) \in Seq(Nat)
    BY <2>1, SeqTail, SeqLen
  <2>3. Started(eng[e], Head(starts[e])) \in EngineState
    BY <2>1, <2>2, Zenon DEF Started, EngineState
  <2> QED BY <1>9, <2>2, <2>3, Zenon DEF HandleStart, Types
<1>10. ASSUME NEW e \in Engines, NotifyIdle(e) PROVE Types'
  <2>1. eng' \in [Engines -> EngineState]
    <3>1. eng[e] \in EngineState /\ eng' = [eng EXCEPT ![e] = [eng[e] EXCEPT !.future = FALSE]]
      BY <1>10 DEF NotifyIdle, Types
    <3> QED BY <3>1, Zenon DEF Types, EngineState
  <2> QED BY <1>10, <2>1, RepliedTypes DEF NotifyIdle, Types, chans
<1>11. ASSUME NEW e \in Engines, EnterStep(e) PROVE Types'
  <2>1. eng' \in [Engines -> EngineState]
    <3>1. eng[e] \in EngineState
      BY DEF Types
    <3>2. PICK a, w \in SUBSET Requests :
            eng' = [eng EXCEPT ![e] = [eng[e] EXCEPT !.pc = "step", !.active = a, !.waiting = w]]
      <4>1. eng[e].active \in SUBSET Requests /\ eng[e].waiting \in SUBSET Requests
        BY <3>1 DEF EngineState
      <4>2. /\ (IF eng[e].pause_state = "UNPAUSED" THEN eng[e].active \cup eng[e].waiting
                ELSE eng[e].active) \in SUBSET Requests
            /\ (IF eng[e].pause_state = "UNPAUSED" THEN {} ELSE eng[e].waiting) \in SUBSET Requests
        BY <4>1
      <4>3. eng' = [eng EXCEPT ![e] = [eng[e] EXCEPT !.pc = "step",
              !.active = IF eng[e].pause_state = "UNPAUSED" THEN eng[e].active \cup eng[e].waiting
                         ELSE eng[e].active,
              !.waiting = IF eng[e].pause_state = "UNPAUSED" THEN {} ELSE eng[e].waiting]]
        BY <1>11, ZenonT(30) DEF EnterStep, Types
      <4> QED BY <4>2, <4>3, Zenon
    <3> QED BY <3>1, <3>2, Zenon DEF Types, EngineState
  <2> QED BY <1>11, <2>1 DEF EnterStep, Types, chans
<1>12. CASE Step
  BY <1>12, StepTypes
<1>13. CASE ResumeBarrier
  <2>1. eng' \in [Engines -> EngineState]
    <3>1. ASSUME NEW e \in Engines, NEW b \in BOOLEAN
          PROVE  [eng[e] EXCEPT !.pc = "input", !.running = b] \in EngineState
      <4>1. eng[e] \in EngineState
        BY DEF Types
      <4> QED BY <4>1, Zenon DEF EngineState
    <3>2. eng' = [e \in Engines |->
            [eng[e] EXCEPT !.pc = "input", !.running = \E f \in Engines : Unfinished(eng[f]) # {}]]
      BY <1>13, Zenon DEF ResumeBarrier
    <3>3. (\E f \in Engines : Unfinished(eng[f]) # {}) \in BOOLEAN
      OBVIOUS
    <3> QED BY <3>1, <3>2, <3>3, Zenon
  <2> QED BY <1>13, <2>1, RepliedTypes, Zenon DEF ResumeBarrier, Types, chans
<1>14. CASE UNCHANGED vars
  BY <1>14 DEF vars, chans, Types
<1> QED BY <1>1, <1>2, <1>3, <1>4, <1>5, <1>6, <1>7, <1>8, <1>9, <1>10, <1>11, <1>12, <1>13,
           <1>14, Zenon DEF Next

----------------------------------------------------------------------------
(* The wave numbers                                                        *)

\* The engines stay in their wave, or all go to the next one.
SameWave == \A e \in Engines : eng'[e].wave = eng[e].wave
NextWave == \A e \in Engines : eng'[e].wave = eng[e].wave + 1

\* The first message of a queue is one of its messages.
LEMMA HeadIn ==
  ASSUME NEW S, NEW s \in Seq(S), s # <<>>
  PROVE  1 \in 1..Len(s) /\ Head(s) = s[1] /\ Head(s) \in S
  BY SeqLen, SeqTail

\* A call changes no engine's wave, and asks at most for the current one.
LEMMA ClientRequestWave ==
  ASSUME Waves, NEW e \in Engines, NEW c \in Clients, HandleClientRequest(e, c)
  PROVE  /\ SameWave
         /\ \/ UNCHANGED fromEng
            \/ Notify(e, [type |-> "start_wave", wave |-> eng[e].wave])
<1> DEFINE msg == Head(toEng[c][e])
<1>1. Types /\ eng[e] \in EngineState /\ toEng[c][e] \in Seq(Calls) /\ toEng[c][e] # <<>>
  BY DEF Waves, Types, HandleClientRequest
<1>2. /\ msg \in Calls
      /\ msg.type = "ADD" => msg.wave \in Nat /\ msg.wave <= eng[e].wave
  <2>1. 1 \in 1..Len(toEng[c][e]) /\ msg = toEng[c][e][1] /\ msg \in Calls
    BY <1>1, HeadIn
  <2>2. eng[0].wave = eng[e].wave
    BY EnginesFacts DEF Waves, WavesAgree
  <2> QED BY <2>1, <2>2, CallKinds DEF Waves, MessagesBehind
<1> HIDE DEF msg
<1> DEFINE Goal == /\ SameWave
                   /\ \/ UNCHANGED fromEng
                      \/ Notify(e, [type |-> "start_wave", wave |-> eng[e].wave])
<1> SUFFICES Goal
  OBVIOUS
<1>3. CASE msg.type = "ADD" /\ HandleAdd(e, msg)
  <2>1. CASE msg.wave < eng[e].wave /\ ~eng[e].running /\ eng[e].pause_state = "UNPAUSED"
    <3>1. /\ eng' = [eng EXCEPT ![e] =
                       [[eng[e] EXCEPT !.waiting = @ \cup {msg.req}] EXCEPT !.running = TRUE]]
          /\ Notify(e, [type |-> "start_wave", wave |-> eng[e].wave])
      BY <1>3, <2>1 DEF HandleAdd
    <3> QED BY <1>1, <3>1 DEF SameWave, Types, EngineState
  <2>2. CASE ~(msg.wave < eng[e].wave /\ ~eng[e].running /\ eng[e].pause_state = "UNPAUSED")
    <3>1. /\ eng' = [eng EXCEPT ![e] = [[eng[e] EXCEPT !.waiting = @ \cup {msg.req}]
                                          EXCEPT !.wave = IF msg.wave > @ THEN msg.wave ELSE @]]
          /\ fromEng' = fromEng
      BY <1>3, <2>2 DEF HandleAdd
    <3>2. ~(msg.wave > eng[e].wave)
      BY <1>1, <1>2, <1>3 DEF EngineState
    <3> QED BY <1>1, <3>1, <3>2 DEF SameWave, Types, EngineState
  <2> QED BY <2>1, <2>2
<1>4. CASE msg.type = "ABORT" /\ HandleAbort(e, msg)
  BY <1>1, <1>4 DEF HandleAbort, Without, SameWave, Types, EngineState
<1>5. CASE msg.type = "PAUSE" /\ pause_scheduler(e, msg)
  <2>1. PICK gone, ps : /\ eng' = [eng EXCEPT ![e] =
                          [Without(eng[e], gone) EXCEPT
                             !.pause_state = ps,
                             !.pending_pause = TRUE, !.running = TRUE, !.future = TRUE]]
                        /\ UNCHANGED fromEng
    BY <1>5, Zenon DEF pause_scheduler
  <2> QED BY <1>1, <2>1, Zenon DEF Without, SameWave, Types, EngineState
<1>6. CASE msg.type = "RESUME" /\ resume_scheduler(e, msg)
  <2>1. /\ fromEng' = fromEng
        /\ \/ eng' = eng
           \/ eng' = [eng EXCEPT ![e] = [eng[e] EXCEPT !.pause_state = "UNPAUSED",
                                                       !.ignore_start = FALSE, !.pc = "resume"]]
    BY <1>1, <1>6, Zenon DEF resume_scheduler, Types
  <2>2. CASE eng' = eng
    BY <2>1, <2>2 DEF SameWave
  <2>3. CASE eng' = [eng EXCEPT ![e] = [eng[e] EXCEPT !.pause_state = "UNPAUSED",
                                                      !.ignore_start = FALSE, !.pc = "resume"]]
    BY <1>1, <2>1, <2>3 DEF SameWave, Types, EngineState
  <2> QED BY <2>1, <2>2, <2>3
<1> QED BY <1>3, <1>4, <1>5, <1>6 DEF HandleClientRequest, msg

\* How the queues change in one step, and that what is added is behind.
CallsChange ==
  \/ UNCHANGED toEng
  \/ \E c \in Clients, e \in Engines, m \in Calls :
       /\ toEng' = [toEng EXCEPT ![c][e] = Append(@, m)]
       /\ m.type = "ADD" => m.wave <= eng[0].wave
  \/ \E m \in Calls : m.type # "ADD" /\ CallAll(m)
  \/ \E c \in Clients, e \in Engines :
       toEng[c][e] # <<>> /\ toEng' = [toEng EXCEPT ![c][e] = Tail(@)]

StartsChange ==
  \/ UNCHANGED starts
  \/ \E v \in Nat : v <= eng[0].wave /\ \E x : _send_start_wave(v, x)
  \/ \E e \in Engines : starts[e] # <<>> /\ starts' = [starts EXCEPT ![e] = Tail(@)]

OutputsChange ==
  \/ UNCHANGED fromEng
  \/ \E e \in Engines, m \in Outputs :
       /\ Notify(e, m)
       /\ m.wave <= eng'[0].wave
       /\ m.type = "wave_complete" => m.wave < eng'[0].wave
  \/ \E e \in Engines : fromEng[e] # <<>> /\ fromEng' = [fromEng EXCEPT ![e] = Tail(@)]

\* The messages that a client or the coordinator adds carry a wave that it knows of.
LEMMA CallsBehind ==
  ASSUME Waves, toEng' \in [Clients -> [Engines -> Seq(Calls)]],
         CallsChange, eng'[0].wave \in Nat, eng[0].wave <= eng'[0].wave
  PROVE  \A c \in Clients, e \in Engines : \A i \in 1..Len(toEng'[c][e]) :
           toEng'[c][e][i].type = "ADD" => toEng'[c][e][i].wave <= eng'[0].wave
<1> SUFFICES ASSUME NEW c \in Clients, NEW e \in Engines, NEW i \in 1..Len(toEng'[c][e]),
                    toEng'[c][e][i].type = "ADD"
             PROVE  toEng'[c][e][i].wave <= eng'[0].wave
  OBVIOUS
<1>1. Types /\ toEng[c][e] \in Seq(Calls) /\ toEng'[c][e] \in Seq(Calls) /\ eng[0].wave \in Nat
  <2>1. eng[0].wave \in Nat
    BY EnginesFacts DEF Waves, Types, EngineState
  <2>2. Types
    BY DEF Waves
  <2>3. toEng[c][e] \in Seq(Calls)
    BY <2>2 DEF Types
  <2> QED BY <2>1, <2>2, <2>3
<1>2. toEng'[c][e][i] \in Calls
  BY <1>1, SeqLen
<1>3. toEng'[c][e][i].wave \in Nat
  BY <1>2, CallKinds
<1>4. ASSUME NEW m \in Calls, toEng'[c][e] = Append(toEng[c][e], m),
             m.type = "ADD" => m.wave <= eng[0].wave
      PROVE  toEng'[c][e][i].wave <= eng[0].wave
  BY <1>1, <1>4, AppendIn DEF Waves, MessagesBehind
<1>5. ASSUME toEng[c][e] # <<>>, toEng'[c][e] = Tail(toEng[c][e])
      PROVE  toEng'[c][e][i].wave <= eng[0].wave
  BY <1>1, <1>5, TailIn DEF Waves, MessagesBehind
<1>6. ASSUME toEng'[c][e] = toEng[c][e]
      PROVE  toEng'[c][e][i].wave <= eng[0].wave
  BY <1>6 DEF Waves, MessagesBehind
<1>7. toEng'[c][e][i].wave <= eng[0].wave
  <2>1. CASE \E d \in Clients, f \in Engines, m \in Calls :
               /\ toEng' = [toEng EXCEPT ![d][f] = Append(@, m)]
               /\ m.type = "ADD" => m.wave <= eng[0].wave
    <3>1. PICK d \in Clients, f \in Engines, m \in Calls :
               /\ toEng' = [toEng EXCEPT ![d][f] = Append(@, m)]
               /\ m.type = "ADD" => m.wave <= eng[0].wave
      BY <2>1, Zenon
    <3>2. toEng'[c][e] = toEng[c][e] \/ toEng'[c][e] = Append(toEng[c][e], m)
      BY <1>1, <3>1, Zenon DEF Types
    <3> QED BY <1>4, <1>6, <3>1, <3>2
  <2>2. CASE \E m \in Calls : m.type # "ADD" /\ CallAll(m)
    <3>1. PICK m \in Calls : m.type # "ADD" /\ CallAll(m)
      BY <2>2
    <3>2. toEng'[c][e] = toEng[c][e] \/ toEng'[c][e] = Append(toEng[c][e], m)
      BY <1>1, <3>1, Zenon DEF Types, CallAll
    <3> QED BY <1>4, <1>6, <3>1, <3>2
  <2>3. CASE \E d \in Clients, f \in Engines :
               toEng[d][f] # <<>> /\ toEng' = [toEng EXCEPT ![d][f] = Tail(@)]
    <3>1. PICK d \in Clients, f \in Engines :
               toEng[d][f] # <<>> /\ toEng' = [toEng EXCEPT ![d][f] = Tail(@)]
      BY <2>3, Zenon
    <3>2. toEng'[c][e] = toEng[c][e] \/ (toEng[c][e] # <<>> /\ toEng'[c][e] = Tail(toEng[c][e]))
      BY <1>1, <3>1 DEF Types
    <3> QED BY <1>5, <1>6, <3>2
  <2>4. CASE UNCHANGED toEng
    BY <1>6, <2>4
  <2> QED BY <2>1, <2>2, <2>3, <2>4, Zenon DEF CallsChange
<1> QED BY <1>1, <1>3, <1>7

\* START_DP_WAVE carries a wave that the engines have reached.
LEMMA StartsBehind ==
  ASSUME Waves, starts' \in [Engines -> Seq(Nat)], StartsChange
  PROVE  \A e \in Engines : \A i \in 1..Len(starts'[e]) : starts'[e][i] <= eng[0].wave
<1> SUFFICES ASSUME NEW e \in Engines, NEW i \in 1..Len(starts'[e])
             PROVE  starts'[e][i] <= eng[0].wave
  OBVIOUS
<1>1. starts \in [Engines -> Seq(Nat)] /\ starts[e] \in Seq(Nat)
  BY DEF Waves, Types
<1>2. ASSUME NEW v \in Nat, v <= eng[0].wave, starts'[e] = Append(starts[e], v)
      PROVE  starts'[e][i] <= eng[0].wave
  <2>1. (i \in 1..Len(starts[e]) /\ starts'[e][i] = starts[e][i]) \/ starts'[e][i] = v
    BY <1>1, <1>2, AppendIn
  <2>2. \A j \in 1..Len(starts[e]) : starts[e][j] <= eng[0].wave
    BY DEF Waves, MessagesBehind
  <2> QED BY <1>2, <2>1, <2>2
<1>3. ASSUME starts[e] # <<>>, starts'[e] = Tail(starts[e])
      PROVE  starts'[e][i] <= eng[0].wave
  BY <1>1, <1>3, TailIn DEF Waves, MessagesBehind
<1>4. ASSUME starts'[e] = starts[e]
      PROVE  starts'[e][i] <= eng[0].wave
  BY <1>4 DEF Waves, MessagesBehind
<1>5. CASE UNCHANGED starts
  BY <1>4, <1>5
<1>6. CASE \E v \in Nat : v <= eng[0].wave /\ \E x : _send_start_wave(v, x)
  <2>1. PICK v \in Nat : v <= eng[0].wave /\ \E x : _send_start_wave(v, x)
    BY <1>6
  <2>2. starts'[e] = starts[e] \/ starts'[e] = Append(starts[e], v)
    BY <2>1 DEF _send_start_wave
  <2> QED BY <1>2, <1>4, <2>1, <2>2
<1>7. CASE \E f \in Engines : starts[f] # <<>> /\ starts' = [starts EXCEPT ![f] = Tail(@)]
  <2>1. starts'[e] = starts[e] \/ (starts[e] # <<>> /\ starts'[e] = Tail(starts[e]))
    BY <1>1, <1>7
  <2> QED BY <1>3, <1>4, <2>1
<1> QED BY <1>5, <1>6, <1>7 DEF StartsChange

\* So does what an engine reports, and the end of a wave is in the past.
LEMMA OutputsBehind ==
  ASSUME Waves, fromEng' \in [Engines -> Seq(Outputs)], OutputsChange,
         eng'[0].wave \in Nat, eng[0].wave <= eng'[0].wave
  PROVE  \A e \in Engines : \A i \in 1..Len(fromEng'[e]) :
           /\ fromEng'[e][i].wave <= eng'[0].wave
           /\ fromEng'[e][i].type = "wave_complete" => fromEng'[e][i].wave < eng'[0].wave
<1> DEFINE Behind(m) ==
      m.wave <= eng'[0].wave /\ (m.type = "wave_complete" => m.wave < eng'[0].wave)
<1> SUFFICES ASSUME NEW e \in Engines, NEW i \in 1..Len(fromEng'[e])
             PROVE  Behind(fromEng'[e][i])
  OBVIOUS
<1>1. fromEng \in [Engines -> Seq(Outputs)] /\ fromEng[e] \in Seq(Outputs)
  BY DEF Waves, Types
<1>2. eng[0].wave \in Nat
  BY EnginesFacts DEF Waves, Types, EngineState
<1>3. ASSUME NEW j \in 1..Len(fromEng[e]) PROVE Behind(fromEng[e][j])
  <2>1. fromEng[e][j].wave \in Nat
    <3>1. fromEng[e][j] \in Outputs
      BY <1>1, SeqLen
    <3> QED BY <3>1 DEF Outputs
  <2> QED BY <1>2, <2>1 DEF Waves, MessagesBehind
<1>4. ASSUME NEW m \in Outputs, Behind(m), fromEng'[e] = Append(fromEng[e], m)
      PROVE  Behind(fromEng'[e][i])
  <2> HIDE DEF Behind
  <2> QED BY <1>1, <1>3, <1>4, AppendIn
<1>5. ASSUME fromEng[e] # <<>>, fromEng'[e] = Tail(fromEng[e])
      PROVE  Behind(fromEng'[e][i])
  <2> HIDE DEF Behind
  <2> QED BY <1>1, <1>3, <1>5, TailIn
<1>6. ASSUME fromEng'[e] = fromEng[e]
      PROVE  Behind(fromEng'[e][i])
  <2> HIDE DEF Behind
  <2> QED BY <1>3, <1>6
<1>7. CASE UNCHANGED fromEng
  BY <1>6, <1>7
<1>8. CASE \E f \in Engines, m \in Outputs : Notify(f, m) /\ Behind(m)
  <2>1. PICK f \in Engines, m \in Outputs : Notify(f, m) /\ Behind(m)
    BY <1>8
  <2> HIDE DEF Behind
  <2>2. fromEng'[e] = fromEng[e] \/ fromEng'[e] = Append(fromEng[e], m)
    BY <1>1, <2>1 DEF Notify
  <2> QED BY <1>4, <1>6, <2>1, <2>2
<1>9. CASE \E f \in Engines : fromEng[f] # <<>> /\ fromEng' = [fromEng EXCEPT ![f] = Tail(@)]
  <2>1. fromEng'[e] = fromEng[e] \/ (fromEng[e] # <<>> /\ fromEng'[e] = Tail(fromEng[e]))
    BY <1>1, <1>9
  <2> QED BY <1>5, <1>6, <2>1
<1> QED BY <1>7, <1>8, <1>9 DEF OutputsChange

\* Steps that send only such messages keep the invariant.
LEMMA WavesKept ==
  ASSUME Waves, Types', SameWave \/ NextWave,
         coord'.wave <= eng'[0].wave, \A c \in Clients : cli'[c].wave <= coord'.wave,
         CallsChange, StartsChange, OutputsChange
  PROVE  Waves'
<1>1. Types /\ eng \in [Engines -> EngineState] /\ 0 \in Engines
  BY EnginesFacts DEF Waves, Types
<1>2. eng' \in [Engines -> EngineState] /\ starts' \in [Engines -> Seq(Nat)]
      /\ fromEng' \in [Engines -> Seq(Outputs)] /\ toEng' \in [Clients -> [Engines -> Seq(Calls)]]
  BY DEF Types
<1>3. \A e \in Engines : eng[e].wave \in Nat /\ eng'[e].wave \in Nat
  BY <1>1, <1>2 DEF EngineState
<1>4. eng[0].wave <= eng'[0].wave
  BY <1>1, <1>3 DEF SameWave, NextWave
<1>5. \A e, f \in Engines : eng'[e].wave = eng'[f].wave
  BY DEF SameWave, NextWave, Waves, WavesAgree
<1>6. WavesAgree'
  BY <1>1, <1>5 DEF WavesAgree
<1>7. \A c \in Clients, e \in Engines : \A i \in 1..Len(toEng'[c][e]) :
        toEng'[c][e][i].type = "ADD" => toEng'[c][e][i].wave <= eng'[0].wave
  BY <1>1, <1>2, <1>3, <1>4, CallsBehind
<1>8. \A e \in Engines : \A i \in 1..Len(starts'[e]) : starts'[e][i] <= eng'[0].wave
  <2> SUFFICES ASSUME NEW e \in Engines, NEW i \in 1..Len(starts'[e])
               PROVE  starts'[e][i] <= eng'[0].wave
    OBVIOUS
  <2>1. starts'[e][i] <= eng[0].wave
    BY <1>2, StartsBehind
  <2>2. starts'[e][i] \in Nat
    BY <1>2, SeqLen
  <2> QED BY <1>1, <1>3, <1>4, <2>1, <2>2
<1>9. \A e \in Engines : \A i \in 1..Len(fromEng'[e]) :
        /\ fromEng'[e][i].wave <= eng'[0].wave
        /\ fromEng'[e][i].type = "wave_complete" => fromEng'[e][i].wave < eng'[0].wave
  BY <1>1, <1>2, <1>3, <1>4, OutputsBehind
<1>10. MessagesBehind'
  BY <1>7, <1>8, <1>9 DEF MessagesBehind
<1> QED BY <1>6, <1>10 DEF Waves

\* All are in wave 0 and nothing is under way.
LEMMA InitWaves == Init => Waves
<1> SUFFICES ASSUME Init PROVE Waves
  OBVIOUS
<1>1. Types
  BY InitTypes
<1>2. WavesAgree
  BY EnginesFacts DEF Init, WavesAgree
<1>3. MessagesBehind
  <2>1. /\ \A c \in Clients, e \in Engines : toEng[c][e] = <<>>
        /\ \A e \in Engines : starts[e] = <<>> /\ fromEng[e] = <<>>
    BY DEF Init
  <2>2. 1..Len(<<>>) = {}
    BY SeqEmpty
  <2> QED BY <2>1, <2>2 DEF MessagesBehind
<1> QED BY <1>1, <1>2, <1>3 DEF Waves

\* What the end of a pass makes of an engine.
LEMMA AfterStepFields ==
  ASSUME NEW en \in EngineState, NEW sync \in BOOLEAN,
         NEW state \in [unfinished : BOOLEAN, consensus : BOOLEAN]
  PROVE  LET new == AfterStep(en, sync, state)
             stops == sync /\ ~state.unfinished
             paused == sync /\ state.consensus
         IN /\ new.wave = IF stops THEN en.wave + 1 ELSE en.wave
            /\ new.counter = IF stops THEN 0 ELSE (en.counter + 1) % SyncInterval
            /\ new.running = ~stops
            /\ new.pc = "input" /\ new.future = en.future /\ new.pause_state = en.pause_state
            /\ new.ignore_start = (en.ignore_start \/ paused)
            /\ new.pending_pause = (en.pending_pause /\ ~paused)
            /\ new.active = en.active \ Finishing /\ new.waiting = en.waiting \ Finishing
<1> DEFINE stops == sync /\ ~state.unfinished
           paused == sync /\ state.consensus
<1>1. stops \in BOOLEAN /\ paused \in BOOLEAN
  OBVIOUS
<1>2. AfterStep(en, sync, state) =
        LET stopped == [Without(en, Finishing) EXCEPT
                          !.pc = "input", !.running = ~stops, !.was_running = ~stops,
                          !.ignore_start = @ \/ paused, !.pending_pause = @ /\ ~paused]
        IN IF stops THEN [stopped EXCEPT !.wave = @ + 1, !.counter = 0]
           ELSE [stopped EXCEPT !.counter = (@ + 1) % SyncInterval]
  BY DEF AfterStep
<1> HIDE DEF stops, paused
<1>3. /\ AfterStep(en, sync, state).wave = IF stops THEN en.wave + 1 ELSE en.wave
      /\ AfterStep(en, sync, state).counter = IF stops THEN 0 ELSE (en.counter + 1) % SyncInterval
      /\ AfterStep(en, sync, state).running = ~stops
      /\ AfterStep(en, sync, state).pc = "input"
      /\ AfterStep(en, sync, state).future = en.future
      /\ AfterStep(en, sync, state).pause_state = en.pause_state
      /\ AfterStep(en, sync, state).ignore_start = (en.ignore_start \/ paused)
      /\ AfterStep(en, sync, state).pending_pause = (en.pending_pause /\ ~paused)
      /\ AfterStep(en, sync, state).active = en.active \ Finishing
      /\ AfterStep(en, sync, state).waiting = en.waiting \ Finishing
  <2>1. CASE stops
    BY <1>1, <1>2, <2>1 DEF Without, EngineState
  <2>2. CASE ~stops
    BY <1>1, <1>2, <2>2 DEF Without, EngineState
  <2> QED BY <2>1, <2>2
<1> QED BY <1>3 DEF stops, paused

\* The end of a pass takes all engines on together.
LEMMA StepWave ==
  ASSUME Waves, Step
  PROVE  (SameWave \/ NextWave) /\ OutputsChange
<1> DEFINE sync == eng[0].counter + 1 = SyncInterval
           state == sync_dp_state
           stops == sync /\ ~state.unfinished
<1>1. /\ eng' = [e \in Engines |-> AfterStep(eng[e], sync, state)]
      /\ Report(sync, state)
  BY DEF Step
<1>2. eng \in [Engines -> EngineState] /\ 0 \in Engines
  BY EnginesFacts DEF Waves, Types
<1>3. \A e \in Engines : /\ stops => eng'[e].wave = eng[e].wave + 1
                         /\ ~stops => eng'[e].wave = eng[e].wave
  <2>1. sync \in BOOLEAN /\ state \in [unfinished : BOOLEAN, consensus : BOOLEAN]
    BY DEF sync_dp_state, has_unfinished_dp
  <2> HIDE DEF sync, state
  <2>2. \A e \in Engines : AfterStep(eng[e], sync, state).wave =
                             IF sync /\ ~state.unfinished THEN eng[e].wave + 1 ELSE eng[e].wave
    BY <1>2, <2>1, AfterStepFields
  <2> QED BY <1>1, <2>2
<1>4. eng[0].wave \in Nat
  BY <1>2 DEF EngineState
<1> HIDE DEF sync, state
<1>5. CASE stops
  <2>1. NextWave
    BY <1>3, <1>5 DEF NextWave
  <2>2. Notify(0, [type |-> "wave_complete", wave |-> eng[0].wave])
    BY <1>1, <1>5 DEF Report
  <2>3. [type |-> "wave_complete", wave |-> eng[0].wave] \in Outputs
    BY <1>4 DEF Outputs
  <2>4. eng[0].wave <= eng'[0].wave /\ eng[0].wave < eng'[0].wave
    BY <1>2, <1>4, <2>1 DEF NextWave
  <2> QED BY <1>2, <2>1, <2>2, <2>3, <2>4 DEF OutputsChange
<1>6. CASE ~stops
  <2>1. SameWave
    BY <1>3, <1>6 DEF SameWave
  <2>2. UNCHANGED fromEng \/ Notify(0, [type |-> "start_wave", wave |-> eng[0].wave])
    BY <1>1, <1>6 DEF Report
  <2>3. [type |-> "start_wave", wave |-> eng[0].wave] \in Outputs
    BY <1>4 DEF Outputs
  <2>4. eng[0].wave <= eng'[0].wave
    BY <1>2, <1>4, <2>1 DEF SameWave
  <2> QED BY <1>2, <2>1, <2>2, <2>3, <2>4 DEF OutputsChange
<1> QED BY <1>5, <1>6

\* Every step keeps the waves together.
LEMMA WavesStep == Waves /\ [Next]_vars => Waves'
<1> SUFFICES ASSUME Waves, [Next]_vars PROVE Waves'
  OBVIOUS
<1>1. Types /\ Types'
  BY TypesStep DEF Waves
<1>2. /\ eng \in [Engines -> EngineState] /\ 0 \in Engines
      /\ coord.wave \in Nat /\ eng[0].wave \in Nat /\ coord.wave <= eng[0].wave
  BY <1>1, EnginesFacts, Zenon DEF Types, EngineState, Waves, WavesAgree
<1>3. \A c \in Clients : cli[c].wave \in Nat /\ cli[c].wave <= coord.wave
  BY <1>1 DEF Types, ClientState, Waves, WavesAgree
<1> DEFINE Kept == coord'.wave <= eng'[0].wave /\ \A c \in Clients : cli'[c].wave <= coord'.wave
<1>4. ASSUME eng' = eng PROVE SameWave
  BY <1>4 DEF SameWave
<1>5. ASSUME eng' = eng \/ SameWave \/ NextWave, coord' = coord, cli' = cli PROVE Kept
  BY <1>2, <1>3, <1>5 DEF SameWave, NextWave
<1>6. ASSUME NEW c \in Clients, NEW r \in Requests, NEW e \in Engines, AddRequest(c, r, e)
      PROVE  Waves'
  <2>1. [type |-> "ADD", req |-> r, wave |-> cli[c].wave] \in Calls
    BY <1>3 DEF Calls, Add
  <2>2. CallsChange
    <3> DEFINE m == [type |-> "ADD", req |-> r, wave |-> cli[c].wave]
    <3>1. m.type = "ADD" => m.wave <= eng[0].wave
      BY <1>2, <1>3
    <3>2. toEng' = [toEng EXCEPT ![c][e] = Append(@, m)] /\ m \in Calls
      BY <1>6, <2>1 DEF AddRequest
    <3> HIDE DEF m
    <3> QED BY <3>1, <3>2, ZenonT(30) DEF CallsChange
  <2>3. UNCHANGED <<eng, coord, starts, fromEng>>
    BY <1>6 DEF AddRequest
  <2>4. \A d \in Clients : cli'[d].wave = cli[d].wave
    <3>1. \/ cli' = cli
          \/ \E q : cli' = [cli EXCEPT ![c] =
                              [cli[c] EXCEPT !.first_req = q, !.running = ~LateFirstReq]]
      BY <1>1, <1>6, ZenonT(30) DEF AddRequest, Types
    <3>2. ASSUME NEW q,
                 cli' = [cli EXCEPT ![c] =
                           [cli[c] EXCEPT !.first_req = q, !.running = ~LateFirstReq]],
                 NEW d \in Clients
          PROVE  cli'[d].wave = cli[d].wave
      BY <1>1, <3>2 DEF Types, ClientState
    <3> QED BY <3>1, <3>2, Zenon
  <2>5. Kept
    BY <1>2, <1>3, <2>3, <2>4
  <2> QED BY <1>1, <1>4, <2>2, <2>3, <2>5, WavesKept DEF StartsChange, OutputsChange
<1>7. ASSUME NEW c \in Clients, NEW r \in Requests, NEW e \in Engines, AbortRequest(c, r, e)
      PROVE  Waves'
  <2>1. [type |-> "ABORT", req |-> r] \in Calls
    BY DEF Calls, Abort
  <2>2. CallsChange
    <3> DEFINE m == [type |-> "ABORT", req |-> r]
    <3>1. m.type # "ADD"
      OBVIOUS
    <3>2. toEng' = [toEng EXCEPT ![c][e] = Append(@, m)] /\ m \in Calls
      BY <1>7, <2>1 DEF AbortRequest
    <3> HIDE DEF m
    <3> QED BY <3>1, <3>2, Zenon DEF CallsChange
  <2>3. UNCHANGED <<eng, coord, cli, starts, fromEng>>
    BY <1>7 DEF AbortRequest
  <2> QED BY <1>1, <1>4, <1>5, <2>2, <2>3, WavesKept DEF StartsChange, OutputsChange
<1>8. ASSUME NEW c \in Clients, UpdateStats(c) PROVE Waves'
  <2>1. UNCHANGED <<eng, coord, toEng, starts, fromEng>>
    BY <1>8 DEF UpdateStats, chans
  <2>2. \A d \in Clients : cli'[d].wave = cli[d].wave \/ cli'[d].wave = coord.wave
    <3>1. cli' = [cli EXCEPT ![c] = [cli[c] EXCEPT !.wave = coord.wave, !.running = coord.running]]
      BY <1>1, <1>8, Zenon DEF UpdateStats, Types
    <3> QED BY <1>1, <3>1 DEF Types, ClientState
  <2>3. Kept
    BY <1>2, <1>3, <2>1, <2>2
  <2> QED BY <1>1, <1>4, <2>1, <2>3, WavesKept DEF CallsChange, StartsChange, OutputsChange
<1>9. ASSUME NEW c \in Clients, HandleFirstReq(c) PROVE Waves'
  <2>1. UNCHANGED <<eng, coord, toEng, fromEng>>
    BY <1>9 DEF HandleFirstReq
  <2>2. StartsChange
    BY <1>2, <1>9 DEF HandleFirstReq, StartsChange
  <2>3. \A d \in Clients : cli'[d].wave = cli[d].wave
    <3>1. \E q, b : cli' = [cli EXCEPT ![c] = [cli[c] EXCEPT !.first_req = q, !.running = b]]
      BY <1>1, <1>9, Zenon DEF HandleFirstReq, Types
    <3> QED BY <1>1, <3>1, SMTT(20) DEF Types, ClientState
  <2>4. Kept
    BY <1>2, <1>3, <2>1, <2>3
  <2> QED BY <1>1, <1>4, <2>1, <2>2, <2>4, WavesKept DEF CallsChange, OutputsChange
<1>10. ASSUME NEW mode \in PauseModes, PauseGeneration(mode) PROVE Waves'
  <2>1. UNCHANGED <<eng, coord, cli, starts, fromEng>>
    BY <1>10 DEF PauseGeneration
  <2>2. CallsChange
    <3> DEFINE m == [type |-> "PAUSE", mode |-> mode]
    <3>1. m \in Calls /\ m.type # "ADD" /\ CallAll(m)
      BY <1>10 DEF PauseGeneration, Calls, Pause
    <3> HIDE DEF m
    <3> QED BY <3>1 DEF CallsChange
  <2> QED BY <1>1, <1>4, <1>5, <2>1, <2>2, WavesKept DEF StartsChange, OutputsChange
<1>11. CASE ResumeGeneration
  <2>1. UNCHANGED <<eng, coord, cli, starts, fromEng>>
    BY <1>11 DEF ResumeGeneration
  <2>2. CallsChange
    <3> DEFINE m == [type |-> "RESUME"]
    <3>1. m \in Calls /\ m.type # "ADD" /\ CallAll(m)
      BY <1>11 DEF ResumeGeneration, Calls, Resume
    <3> HIDE DEF m
    <3> QED BY <3>1 DEF CallsChange
  <2> QED BY <1>1, <1>4, <1>5, <2>1, <2>2, WavesKept DEF StartsChange, OutputsChange
<1>12. ASSUME NEW e \in Engines, HandleEngineOutput(e) PROVE Waves'
  <2> DEFINE msg == Head(fromEng[e])
  <2>1. /\ UNCHANGED <<eng, cli, toEng>> /\ fromEng[e] # <<>>
        /\ fromEng' = [fromEng EXCEPT ![e] = Tail(@)] /\ fromEng[e] \in Seq(Outputs)
    BY <1>1, <1>12 DEF HandleEngineOutput, Types
  <2>2. 1 \in 1..Len(fromEng[e]) /\ msg = fromEng[e][1] /\ msg \in Outputs
    BY <2>1, HeadIn
  <2>3. /\ msg.wave \in Nat /\ msg.wave <= eng[0].wave
        /\ msg.type = "wave_complete" => msg.wave < eng[0].wave
    BY <2>2 DEF Outputs, Waves, MessagesBehind
  <2> HIDE DEF msg
  <2>4. coord'.wave \in Nat /\ coord.wave <= coord'.wave /\ coord'.wave <= eng[0].wave /\ StartsChange
    <3>1. CASE msg.type = "wave_complete" /\ HandleWaveComplete(e, msg.wave)
      BY <1>2, <2>3, <3>1 DEF HandleWaveComplete, StartsChange
    <3>2. CASE HandleStartWave(e, msg.wave)
      <4>1. CASE msg.wave >= coord.wave /\ coord' = [wave |-> msg.wave, running |-> TRUE]
                   /\ _send_start_wave(msg.wave, e)
        BY <1>2, <2>3, <4>1 DEF StartsChange
      <4>2. CASE UNCHANGED <<coord, starts>>
        BY <1>2, <4>2 DEF StartsChange
      <4> QED BY <1>2, <2>3, <3>2, <4>1, <4>2 DEF HandleStartWave
    <3> QED BY <1>12, <3>1, <3>2 DEF HandleEngineOutput, msg
  <2>5. Kept
    BY <1>2, <1>3, <2>1, <2>4
  <2> QED BY <1>1, <1>4, <2>1, <2>4, <2>5, WavesKept, Zenon DEF CallsChange, OutputsChange
<1>13. ASSUME NEW e \in Engines, NEW c \in Clients, HandleClientRequest(e, c) PROVE Waves'
  <2>1. /\ UNCHANGED <<coord, cli, starts>>
        /\ toEng[c][e] # <<>> /\ toEng' = [toEng EXCEPT ![c][e] = Tail(@)]
    BY <1>13 DEF HandleClientRequest
  <2>2. SameWave /\ (UNCHANGED fromEng \/ Notify(e, [type |-> "start_wave", wave |-> eng[e].wave]))
    BY <1>13, ClientRequestWave
  <2>3. OutputsChange
    <3> DEFINE m == [type |-> "start_wave", wave |-> eng[e].wave]
    <3>1. eng[e].wave \in Nat /\ eng[e].wave = eng'[0].wave
      BY <1>2, <2>2 DEF SameWave, EngineState, Waves, WavesAgree
    <3>2. m \in Outputs /\ m.wave <= eng'[0].wave /\ m.type # "wave_complete"
      BY <3>1 DEF Outputs
    <3>3. UNCHANGED fromEng \/ Notify(e, m)
      BY <2>2
    <3> HIDE DEF m
    <3> QED BY <3>2, <3>3 DEF OutputsChange
  <2> QED BY <1>1, <1>5, <2>1, <2>2, <2>3, WavesKept, Zenon DEF CallsChange, StartsChange
<1>14. ASSUME NEW e \in Engines, HandleStart(e) PROVE Waves'
  <2>1. /\ UNCHANGED <<coord, cli, toEng, fromEng>> /\ starts[e] \in Seq(Nat) /\ starts[e] # <<>>
        /\ starts' = [starts EXCEPT ![e] = Tail(@)]
    BY <1>1, <1>14 DEF HandleStart, Types
  <2>2. Head(starts[e]) \in Nat /\ Head(starts[e]) <= eng[e].wave
    <3>1. eng[0].wave = eng[e].wave
      BY <1>2 DEF Waves, WavesAgree
    <3> QED BY <2>1, <3>1, HeadIn DEF Waves, MessagesBehind
  <2>3. SameWave
    <3>1. eng' = [eng EXCEPT ![e] = Started(eng[e], Head(starts[e]))]
      BY <1>14 DEF HandleStart
    <3>2. Started(eng[e], Head(starts[e])).wave = eng[e].wave
      BY <1>2, <2>2 DEF Started, EngineState
    <3> QED BY <1>2, <3>1, <3>2 DEF SameWave
  <2> QED BY <1>1, <1>5, <2>1, <2>3, WavesKept, Zenon DEF CallsChange, StartsChange, OutputsChange
<1>15. ASSUME NEW e \in Engines, NotifyIdle(e) PROVE Waves'
  <2>1. UNCHANGED <<coord, cli, toEng, starts, fromEng>>
    BY <1>15 DEF NotifyIdle, chans
  <2>2. SameWave
    BY <1>2, <1>15 DEF NotifyIdle, SameWave, EngineState
  <2> QED BY <1>1, <1>5, <2>1, <2>2, WavesKept DEF CallsChange, StartsChange, OutputsChange
<1>16. ASSUME NEW e \in Engines, EnterStep(e) PROVE Waves'
  <2>1. UNCHANGED <<coord, cli, toEng, starts, fromEng>>
    BY <1>16 DEF EnterStep, chans
  <2>2. SameWave
    <3>1. \E a, w : eng' = [eng EXCEPT ![e] = [eng[e] EXCEPT !.pc = "step", !.active = a, !.waiting = w]]
      BY <1>2, <1>16, Zenon DEF EnterStep
    <3> QED BY <1>2, <3>1, SMTT(20) DEF SameWave, EngineState
  <2> QED BY <1>1, <1>5, <2>1, <2>2, WavesKept DEF CallsChange, StartsChange, OutputsChange
<1>17. CASE Step
  <2>1. UNCHANGED <<coord, cli, toEng, starts>>
    BY <1>17 DEF Step
  <2> QED BY <1>1, <1>5, <1>17, <2>1, StepWave, WavesKept DEF CallsChange, StartsChange
<1>18. CASE ResumeBarrier
  <2>1. UNCHANGED <<coord, cli, toEng, starts, fromEng>>
    BY <1>18, ZenonT(30) DEF ResumeBarrier, chans
  <2>2. SameWave
    <3>1. PICK b : eng' = [e \in Engines |-> [eng[e] EXCEPT !.pc = "input", !.running = b]]
      BY <1>18, Zenon DEF ResumeBarrier
    <3> QED BY <1>2, <3>1, ZenonT(30) DEF SameWave, EngineState
  <2> QED BY <1>1, <1>5, <2>1, <2>2, WavesKept, Zenon DEF CallsChange, StartsChange, OutputsChange
<1>19. CASE UNCHANGED vars
  <2>1. UNCHANGED <<eng, coord, cli, toEng, starts, fromEng>>
    BY <1>19 DEF vars, chans
  <2> QED BY <1>1, <1>4, <1>5, <2>1, WavesKept DEF CallsChange, StartsChange, OutputsChange
<1> QED BY <1>6, <1>7, <1>8, <1>9, <1>10, <1>11, <1>12, <1>13, <1>14, <1>15, <1>16, <1>17,
           <1>18, <1>19, Zenon DEF Next

\* The wave numbers agree in every state of the data-parallel engines, whatever
\* the order in which requests, wave reports and START_DP_WAVE messages arrive.
THEOREM WavesAlwaysAgree == Spec => []WavesAgree
<1>1. Waves => WavesAgree
  BY DEF Waves
<1> QED BY InitWaves, WavesStep, <1>1, PTL DEF Spec

----------------------------------------------------------------------------
(* The phases of a pause                                                   *)

Holds(q, t) == \E i \in 1..Len(q) : q[i].type = t
Once(q, t) == \A i, j \in 1..Len(q) : q[i].type = t /\ q[j].type = t => i = j

\* The engine's scheduler is paused and has nothing to do.
Still(en) ==
  /\ en.pc = "input" /\ ~en.running
  /\ en.pause_state # "UNPAUSED"
  /\ en.pause_state = "PAUSED_NEW" => en.active = {}

Unpaused(en) ==
  /\ en.pause_state = "UNPAUSED" /\ ~en.pending_pause /\ ~en.ignore_start /\ ~en.future

\* A call of the controller that engine e has not taken.
Queued(e, t) == Holds(toEng[Controller][e], t)

\* The calls are the controller's, and one of each kind is under way to an engine.
OneCall ==
  /\ \A c \in Clients \ {Controller}, e \in Engines :
       ~Holds(toEng[c][e], "PAUSE") /\ ~Holds(toEng[c][e], "RESUME")
  /\ \A e \in Engines : /\ Once(toEng[Controller][e], "PAUSE")
                        /\ Once(toEng[Controller][e], "RESUME")
  /\ \A e \in Engines : Queued(e, "PAUSE") => ctl.state = "pausing"
  /\ \A e \in Engines : Queued(e, "RESUME") => ctl.state = "resuming"

Serving ==
  \A e \in Engines : Unpaused(eng[e]) /\ eng[e].pc # "resume"

\* An engine has to take the pause, or waits for the others to agree.
Gathering ==
  /\ ctl.replies = {}
  /\ \A e \in Engines :
       /\ eng[e].pc # "resume"
       /\ IF Queued(e, "PAUSE") THEN Unpaused(eng[e])
          ELSE /\ eng[e].pending_pause /\ eng[e].running /\ eng[e].future
               /\ ~eng[e].ignore_start /\ eng[e].pause_state # "UNPAUSED"

\* All engines have agreed on the pause.
Agreed ==
  \A e \in Engines :
    /\ ~Queued(e, "PAUSE") /\ eng[e].pc # "resume"
    /\ ~eng[e].pending_pause /\ eng[e].ignore_start /\ eng[e].pause_state # "UNPAUSED"

\* They finish what they run, or have stopped.
Finishes == ctl.replies = {} /\ \A e \in Engines : eng[e].running /\ eng[e].future
Stopped == \A e \in Engines : Still(eng[e])

\* An engine has reported its pause, or is about to.
Reporting == \A e \in Engines : eng[e].future <=> e \notin ctl.replies

\* An engine waits for the resume, deaf to wake-ups, or has come to the barrier.
Resuming ==
  \A e \in Engines :
    /\ ~eng[e].pending_pause /\ ~eng[e].future
    /\ IF Queued(e, "RESUME") THEN Still(eng[e]) /\ eng[e].ignore_start
       ELSE eng[e].pc = "resume" /\ Unpaused(eng[e]) /\ ~eng[e].running

Phase ==
  /\ ctl.state = "idle" => Serving
  /\ ctl.state = "pausing" =>
       \/ Gathering
       \/ Agreed /\ Finishes
       \/ Agreed /\ Stopped /\ Reporting
  /\ ctl.state = "paused" => Agreed /\ Stopped /\ \A e \in Engines : ~eng[e].future
  /\ ctl.state = "resuming" => Resuming

Counters == \A e, f \in Engines : eng[e].counter = eng[f].counter

Pauses == Types /\ OneCall /\ Phase /\ Counters

----------------------------------------------------------------------------
(* The phases of a pause are kept                                          *)

\* The kinds of calls in a queue after one was added.
LEMMA HoldsAppend ==
  ASSUME NEW q \in Seq(Calls), NEW m \in Calls, NEW t
  PROVE  Holds(Append(q, m), t) <=> Holds(q, t) \/ m.type = t
<1>1. ASSUME Holds(q, t) PROVE Holds(Append(q, m), t)
  BY <1>1, SeqAppend, SeqLen DEF Holds
<1>2. ASSUME m.type = t PROVE Holds(Append(q, m), t)
  BY <1>2, SeqAppend, SeqLen DEF Holds
<1>3. ASSUME Holds(Append(q, m), t) PROVE Holds(q, t) \/ m.type = t
  BY <1>3, AppendIn DEF Holds
<1> QED BY <1>1, <1>2, <1>3

\* A call that the queue does not hold yet is in it once.
LEMMA OnceAppend ==
  ASSUME NEW q \in Seq(Calls), NEW m \in Calls, NEW t, Once(q, t), m.type = t => ~Holds(q, t)
  PROVE  Once(Append(q, m), t)
<1> SUFFICES ASSUME NEW i \in 1..Len(Append(q, m)), NEW j \in 1..Len(Append(q, m)),
                    Append(q, m)[i].type = t, Append(q, m)[j].type = t
             PROVE  i = j
  BY DEF Once
<1>1. (i \in 1..Len(q) /\ Append(q, m)[i] = q[i]) \/ (i = Len(q) + 1 /\ Append(q, m)[i] = m)
  BY AppendIn
<1>2. (j \in 1..Len(q) /\ Append(q, m)[j] = q[j]) \/ (j = Len(q) + 1 /\ Append(q, m)[j] = m)
  BY AppendIn
<1> QED BY <1>1, <1>2 DEF Once, Holds

\* The kinds of calls in a queue after the first was taken.
LEMMA HoldsTail ==
  ASSUME NEW q \in Seq(Calls), q # <<>>, NEW t
  PROVE  /\ Holds(Tail(q), t) => Holds(q, t)
         /\ Holds(q, t) /\ Head(q).type # t => Holds(Tail(q), t)
         /\ Holds(q, Head(q).type)
         /\ Once(q, t) => Once(Tail(q), t)
         /\ Once(q, t) /\ Head(q).type = t => ~Holds(Tail(q), t)
<1>1. Len(q) \in Nat /\ Len(q) >= 1 /\ Len(Tail(q)) = Len(q) - 1 /\ Head(q) = q[1]
  BY SeqTail, SeqLen
<1>2. \A i \in 1..Len(Tail(q)) : i + 1 \in 1..Len(q) /\ Tail(q)[i] = q[i + 1]
  BY TailIn
<1>3. Holds(Tail(q), t) => Holds(q, t)
  BY <1>2 DEF Holds
<1>4. ASSUME Holds(q, t), Head(q).type # t PROVE Holds(Tail(q), t)
  <2>1. PICK i \in 1..Len(q) : q[i].type = t
    BY <1>4 DEF Holds
  <2>2. i - 1 \in 1..Len(Tail(q)) /\ (i - 1) + 1 = i
    BY <1>1, <1>4, <2>1
  <2> QED BY <1>2, <2>1, <2>2, Zenon DEF Holds
<1>5. Holds(q, Head(q).type)
  BY <1>1 DEF Holds
<1>6. ASSUME Once(q, t) PROVE Once(Tail(q), t)
  <2> SUFFICES ASSUME NEW i \in 1..Len(Tail(q)), NEW j \in 1..Len(Tail(q)),
                      Tail(q)[i].type = t, Tail(q)[j].type = t
               PROVE  i = j
    BY DEF Once
  <2>1. i + 1 = j + 1
    BY <1>2, <1>6 DEF Once
  <2> QED BY <1>1, <2>1
<1>7. ASSUME Once(q, t), Head(q).type = t, Holds(Tail(q), t) PROVE FALSE
  <2>1. PICK i \in 1..Len(Tail(q)) : Tail(q)[i].type = t
    BY <1>7 DEF Holds
  <2>2. i + 1 = 1
    BY <1>1, <1>2, <1>7, <2>1 DEF Once
  <2> QED BY <1>1, <2>2
<1> QED BY <1>3, <1>4, <1>5, <1>6, <1>7

\* An engine takes a request or a wake-up, or begins a pass.
Minor(en, new) ==
  /\ new.counter = en.counter /\ new.pending_pause = en.pending_pause
  /\ new.ignore_start = en.ignore_start /\ new.pause_state = en.pause_state
  /\ new.future = en.future
  /\ \/ new.pc = en.pc /\ new.active \subseteq en.active
     \/ en.pc = "input" /\ new.pc = "step" /\ ~Still(en)
  /\ \/ new.running = en.running
     \/ /\ new.running /\ en.pc = "input"
        /\ en.pause_state = "UNPAUSED" \/ ~en.ignore_start

\* The calls under way stay the same.
SameCalls ==
  /\ \A c \in Clients, e \in Engines, t \in {"PAUSE", "RESUME"} :
       Holds(toEng'[c][e], t) <=> Holds(toEng[c][e], t)
  /\ \A e \in Engines, t \in {"PAUSE", "RESUME"} :
       Once(toEng[Controller][e], t) => Once(toEng'[Controller][e], t)

\* What a change of no weight to a pause leaves as it is.
LEMMA MinorKeeps ==
  ASSUME NEW en, NEW new, Minor(en, new)
  PROVE  /\ Unpaused(en) => Unpaused(new)
         /\ Still(en) /\ en.ignore_start => Still(new)
         /\ en.pc = "resume" <=> new.pc = "resume"
         /\ en.running => new.running
         /\ en.pc = "resume" => new.running = en.running
  BY DEF Minor, Unpaused, Still

\* Such changes of the engines keep the phase of the pause.
LEMMA MinorPauses ==
  ASSUME Pauses, Types', \A e \in Engines : Minor(eng[e], eng'[e]), SameCalls,
         ctl'.state = ctl.state, ctl'.replies = ctl.replies
  PROVE  Pauses'
<1>1. Types /\ Controller \in Clients
  BY EnginesFacts DEF Pauses
<1>2. OneCall'
  BY <1>1 DEF Pauses, OneCall, SameCalls, Queued
<1>3. Counters'
  BY DEF Pauses, Counters, Minor
<1>4. \A e \in Engines, t \in {"PAUSE", "RESUME"} : Queued(e, t)' <=> Queued(e, t)
  BY <1>1 DEF SameCalls, Queued
<1>5. \A e \in Engines :
         /\ Unpaused(eng[e]) => Unpaused(eng'[e])
         /\ Still(eng[e]) /\ eng[e].ignore_start => Still(eng'[e])
         /\ eng[e].pc = "resume" <=> eng'[e].pc = "resume"
         /\ eng[e].running => eng'[e].running
         /\ eng[e].pc = "resume" => eng'[e].running = eng[e].running
  BY MinorKeeps
<1>6. \A e \in Engines :
         /\ eng'[e].pending_pause = eng[e].pending_pause
         /\ eng'[e].ignore_start = eng[e].ignore_start /\ eng'[e].pause_state = eng[e].pause_state
         /\ eng'[e].future = eng[e].future
  BY DEF Minor
<1>7. Serving => Serving'
  BY <1>5, Zenon DEF Serving
<1>8. Gathering => Gathering'
  BY <1>4, <1>5, <1>6, Zenon DEF Gathering
<1>9. Agreed => Agreed'
  BY <1>4, <1>5, <1>6 DEF Agreed
<1>10. Finishes => Finishes'
  BY <1>5, <1>6 DEF Finishes
<1>11. Agreed /\ Stopped => Stopped'
  BY <1>5 DEF Agreed, Stopped
<1>12. Reporting => Reporting'
  BY <1>6, Zenon DEF Reporting
<1>13. Resuming => Resuming'
  BY <1>4, <1>5, <1>6, Zenon DEF Resuming
<1>14. Phase'
  BY <1>6, <1>7, <1>8, <1>9, <1>10, <1>11, <1>12, <1>13
     DEF Pauses, Phase
<1> QED BY <1>2, <1>3, <1>14 DEF Pauses

\* No change is one of no weight.
LEMMA MinorSame == ASSUME NEW en PROVE Minor(en, en)
  BY DEF Minor

\* A request or an abort is no call of the controller.
LEMMA OtherCallAdded ==
  ASSUME Types, NEW c \in Clients, NEW e \in Engines, NEW m \in Calls,
         m.type \notin {"PAUSE", "RESUME"}, toEng' = [toEng EXCEPT ![c][e] = Append(@, m)]
  PROVE  SameCalls
<1>1. \A d \in Clients, f \in Engines :
        \/ toEng'[d][f] = toEng[d][f]
        \/ toEng[d][f] \in Seq(Calls) /\ toEng'[d][f] = Append(toEng[d][f], m)
  BY DEF Types
<1>2. Controller \in Clients
  BY EnginesFacts
<1> QED BY <1>1, <1>2, HoldsAppend, OnceAppend DEF SameCalls

\* Nor is one that is taken.
LEMMA OtherCallTaken ==
  ASSUME Types, NEW c \in Clients, NEW e \in Engines, toEng[c][e] # <<>>,
         Head(toEng[c][e]).type \notin {"PAUSE", "RESUME"},
         toEng' = [toEng EXCEPT ![c][e] = Tail(@)]
  PROVE  SameCalls
<1>1. \A d \in Clients, f \in Engines :
        \/ toEng'[d][f] = toEng[d][f]
        \/ /\ toEng[d][f] \in Seq(Calls) /\ toEng[d][f] # <<>>
           /\ Head(toEng[d][f]).type \notin {"PAUSE", "RESUME"}
           /\ toEng'[d][f] = Tail(toEng[d][f])
  BY DEF Types
<1>2. Controller \in Clients
  BY EnginesFacts
<1> QED BY <1>1, <1>2, HoldsTail DEF SameCalls

\* No queue changes.
LEMMA CallsUnchanged == ASSUME UNCHANGED toEng PROVE SameCalls
  BY DEF SameCalls

\* The clients' and the coordinator's steps.
LEMMA OutsidePauses ==
  ASSUME Pauses, Types',
         \/ \E c \in Clients, r \in Requests, e \in Engines : AddRequest(c, r, e)
         \/ \E c \in Clients, r \in Requests, e \in Engines : AbortRequest(c, r, e)
         \/ \E c \in Clients : UpdateStats(c)
         \/ \E c \in Clients : HandleFirstReq(c)
         \/ \E e \in Engines : HandleEngineOutput(e)
         \/ UNCHANGED vars
  PROVE  Pauses'
<1>1. Types
  BY DEF Pauses
<1>2. ASSUME eng' = eng PROVE \A e \in Engines : Minor(eng[e], eng'[e])
  BY <1>2, MinorSame
<1>3. ASSUME NEW c \in Clients, NEW r \in Requests, NEW e \in Engines, AddRequest(c, r, e)
      PROVE  Pauses'
  <2> DEFINE m == [type |-> "ADD", req |-> r, wave |-> cli[c].wave]
  <2>1. m \in Calls /\ m.type \notin {"PAUSE", "RESUME"}
    BY <1>1, Zenon DEF Calls, Add, Types, ClientState
  <2>2. /\ eng' = eng /\ ctl' = ctl
        /\ toEng' = [toEng EXCEPT ![c][e] = Append(@, m)]
    BY <1>3, Zenon DEF AddRequest
  <2> HIDE DEF m
  <2>3. SameCalls
    BY <1>1, <2>1, <2>2, OtherCallAdded, Zenon
  <2> QED BY <1>2, <2>2, <2>3, MinorPauses
<1>4. ASSUME NEW c \in Clients, NEW r \in Requests, NEW e \in Engines, AbortRequest(c, r, e)
      PROVE  Pauses'
  <2> DEFINE m == [type |-> "ABORT", req |-> r]
  <2>1. m \in Calls /\ m.type \notin {"PAUSE", "RESUME"}
    BY DEF Calls, Abort
  <2>2. /\ eng' = eng
        /\ toEng' = [toEng EXCEPT ![c][e] = Append(@, m)]
    BY <1>4 DEF AbortRequest
  <2>3. ctl'.state = ctl.state /\ ctl'.replies = ctl.replies
    BY <1>1, <1>4 DEF AbortRequest, Types, ControllerState
  <2> HIDE DEF m
  <2>4. SameCalls
    BY <1>1, <2>1, <2>2, OtherCallAdded, Zenon
  <2> QED BY <1>2, <2>2, <2>3, <2>4, MinorPauses
<1>5. CASE \/ \E c \in Clients : UpdateStats(c)
           \/ \E c \in Clients : HandleFirstReq(c)
           \/ \E e \in Engines : HandleEngineOutput(e)
           \/ UNCHANGED vars
  <2>1. UNCHANGED <<eng, toEng, ctl>>
    BY <1>5, Zenon DEF UpdateStats, HandleFirstReq, HandleEngineOutput, chans, vars
  <2> QED BY <1>2, <2>1, CallsUnchanged, MinorPauses
<1> QED BY <1>3, <1>4, <1>5, Zenon

\* The controller calls all engines.
LEMMA CallAllHolds ==
  ASSUME Types, NEW m \in Calls, CallAll(m)
  PROVE  /\ \A c \in Clients \ {Controller}, e \in Engines : toEng'[c][e] = toEng[c][e]
         /\ \A e \in Engines : /\ toEng[Controller][e] \in Seq(Calls)
                               /\ toEng'[Controller][e] = Append(toEng[Controller][e], m)
         /\ \A e \in Engines : \A t : Queued(e, t)' <=> Queued(e, t) \/ m.type = t
<1>1. Controller \in Clients
  BY EnginesFacts
<1>2. /\ \A c \in Clients \ {Controller}, e \in Engines : toEng'[c][e] = toEng[c][e]
      /\ \A e \in Engines : /\ toEng[Controller][e] \in Seq(Calls)
                            /\ toEng'[Controller][e] = Append(toEng[Controller][e], m)
  BY <1>1 DEF Types, CallAll
<1>3. ASSUME NEW e \in Engines, NEW t
      PROVE  Queued(e, t)' <=> Queued(e, t) \/ m.type = t
  <2>1. toEng[Controller][e] \in Seq(Calls) /\ toEng'[Controller][e] = Append(toEng[Controller][e], m)
    BY <1>2
  <2>2. Holds(Append(toEng[Controller][e], m), t) <=> Holds(toEng[Controller][e], t) \/ m.type = t
    BY <2>1, HoldsAppend
  <2> QED BY <2>1, <2>2, Zenon DEF Queued
<1> QED BY <1>2, <1>3

\* The controller asks all engines to pause.
LEMMA PauseGenerationPauses ==
  ASSUME Pauses, Types', NEW mode \in PauseModes, PauseGeneration(mode)
  PROVE  Pauses'
<1> DEFINE m == [type |-> "PAUSE", mode |-> mode]
<1>1. m \in Calls /\ m.type = "PAUSE"
  BY DEF Calls, Pause
<1>2. /\ Types /\ CallAll(m) /\ eng' = eng /\ ctl.state = "idle"
      /\ ctl'.state = "pausing" /\ ctl'.replies = {}
  BY DEF PauseGeneration, Pauses, Types, ControllerState
<1> HIDE DEF m
<1>3. /\ \A c \in Clients \ {Controller}, e \in Engines : toEng'[c][e] = toEng[c][e]
      /\ \A e \in Engines : /\ toEng[Controller][e] \in Seq(Calls)
                            /\ toEng'[Controller][e] = Append(toEng[Controller][e], m)
      /\ \A e \in Engines : \A t : Queued(e, t)' <=> Queued(e, t) \/ m.type = t
  BY <1>1, <1>2, CallAllHolds
<1>4. \A e \in Engines : ~Queued(e, "PAUSE") /\ ~Queued(e, "RESUME")
  BY <1>2 DEF Pauses, OneCall
<1>5. \A e \in Engines : Once(toEng'[Controller][e], "PAUSE") /\ Once(toEng'[Controller][e], "RESUME")
  <2> SUFFICES ASSUME NEW e \in Engines, NEW t \in {"PAUSE", "RESUME"}
               PROVE  Once(toEng'[Controller][e], t)
    OBVIOUS
  <2>1. Once(toEng[Controller][e], t) /\ ~Holds(toEng[Controller][e], t)
    BY <1>4 DEF Pauses, OneCall, Queued
  <2>2. toEng[Controller][e] \in Seq(Calls) /\ toEng'[Controller][e] = Append(toEng[Controller][e], m)
    BY <1>3
  <2>3. Once(Append(toEng[Controller][e], m), t)
    BY <1>1, <2>1, <2>2, OnceAppend, Zenon
  <2> QED BY <2>2, <2>3
<1>6. OneCall'
  <2>1. \A c \in Clients \ {Controller}, e \in Engines :
          ~Holds(toEng'[c][e], "PAUSE") /\ ~Holds(toEng'[c][e], "RESUME")
    BY <1>3 DEF Pauses, OneCall
  <2>2. \A e \in Engines : ~Queued(e, "RESUME")'
    BY <1>1, <1>3, <1>4
  <2> QED BY <1>2, <1>5, <2>1, <2>2, Zenon DEF OneCall
<1>7. Gathering'
  <2>1. \A e \in Engines : Queued(e, "PAUSE")'
    BY <1>1, <1>3, Zenon
  <2>2. Serving
    BY <1>2 DEF Pauses, Phase
  <2> QED BY <1>2, <2>1, <2>2 DEF Gathering, Serving
<1>8. Phase'
  BY <1>2, <1>7 DEF Phase
<1>9. Counters'
  BY <1>2 DEF Pauses, Counters
<1> QED BY <1>6, <1>8, <1>9 DEF Pauses

\* The controller asks all engines to go on.
LEMMA ResumeGenerationPauses ==
  ASSUME Pauses, Types', ResumeGeneration
  PROVE  Pauses'
<1> DEFINE m == [type |-> "RESUME"]
<1>1. m \in Calls /\ m.type = "RESUME"
  BY DEF Calls, Resume
<1>2. /\ Types /\ CallAll(m) /\ eng' = eng /\ ctl.state = "paused"
      /\ ctl'.state = "resuming"
  BY Zenon DEF ResumeGeneration, Pauses, Types, ControllerState
<1> HIDE DEF m
<1>3. /\ \A c \in Clients \ {Controller}, e \in Engines : toEng'[c][e] = toEng[c][e]
      /\ \A e \in Engines : /\ toEng[Controller][e] \in Seq(Calls)
                            /\ toEng'[Controller][e] = Append(toEng[Controller][e], m)
      /\ \A e \in Engines : \A t : Queued(e, t)' <=> Queued(e, t) \/ m.type = t
  BY <1>1, <1>2, CallAllHolds
<1>4. \A e \in Engines : ~Queued(e, "PAUSE") /\ ~Queued(e, "RESUME")
  BY <1>2 DEF Pauses, OneCall
<1>5. \A e \in Engines : Once(toEng'[Controller][e], "PAUSE") /\ Once(toEng'[Controller][e], "RESUME")
  <2> SUFFICES ASSUME NEW e \in Engines, NEW t \in {"PAUSE", "RESUME"}
               PROVE  Once(toEng'[Controller][e], t)
    OBVIOUS
  <2>1. Once(toEng[Controller][e], t) /\ ~Holds(toEng[Controller][e], t)
    BY <1>4, Zenon DEF Pauses, OneCall, Queued
  <2>2. toEng[Controller][e] \in Seq(Calls) /\ toEng'[Controller][e] = Append(toEng[Controller][e], m)
    BY <1>3
  <2>3. Once(Append(toEng[Controller][e], m), t)
    BY <1>1, <2>1, <2>2, OnceAppend
  <2> QED BY <2>2, <2>3
<1>6. OneCall'
  <2>1. \A c \in Clients \ {Controller}, e \in Engines :
          ~Holds(toEng'[c][e], "PAUSE") /\ ~Holds(toEng'[c][e], "RESUME")
    BY <1>3 DEF Pauses, OneCall
  <2>2. \A e \in Engines : ~Queued(e, "PAUSE")'
    BY <1>1, <1>3, <1>4, Zenon
  <2> QED BY <1>2, <1>5, <2>1, <2>2, Zenon DEF OneCall
<1>7. Resuming'
  <2>1. \A e \in Engines : Queued(e, "RESUME")'
    BY <1>1, <1>3
  <2>2. Agreed /\ Stopped /\ \A e \in Engines : ~eng[e].future
    BY <1>2 DEF Pauses, Phase
  <2> QED BY <1>2, <2>1, <2>2 DEF Resuming, Agreed, Stopped
<1>8. Phase'
  BY <1>2, <1>7 DEF Phase
<1>9. Counters'
  BY <1>2 DEF Pauses, Counters
<1> QED BY <1>6, <1>8, <1>9 DEF Pauses

\* Only engine e changes.
OnlyEngine(e, new) == eng' = [eng EXCEPT ![e] = new]

\* A change of one engine.
LEMMA MinorEngine ==
  ASSUME Types, NEW e \in Engines, NEW new, OnlyEngine(e, new), Minor(eng[e], new)
  PROVE  \A f \in Engines : Minor(eng[f], eng'[f])
<1>1. \A f \in Engines : eng'[f] = IF f = e THEN new ELSE eng[f]
  BY DEF OnlyEngine, Types
<1> QED BY <1>1, MinorSame

\* A paused engine that has nothing to do has no work.
LEMMA StillNoWork == ASSUME NEW en \in EngineState, Still(en) PROVE ~has_work(en)
  BY DEF Still, has_work, Unfinished, UnfinishedAfter, EngineState

\* A request added to an engine is of no weight to a pause.
LEMMA AddMinor ==
  ASSUME Types, NEW e \in Engines, NEW msg \in Calls, eng[e].pc = "input", HandleAdd(e, msg)
  PROVE  \E new : OnlyEngine(e, new) /\ Minor(eng[e], new)
<1>1. eng[e] \in EngineState
  BY DEF Types
<1>2. CASE msg.wave < eng[e].wave /\ ~eng[e].running /\ eng[e].pause_state = "UNPAUSED"
  <2> DEFINE new == [[eng[e] EXCEPT !.waiting = @ \cup {msg.req}] EXCEPT !.running = TRUE]
  <2>1. OnlyEngine(e, new)
    BY <1>2 DEF HandleAdd, OnlyEngine
  <2>2. Minor(eng[e], new)
    BY <1>1, <1>2, Zenon DEF Minor, EngineState
  <2> QED BY <2>1, <2>2
<1>3. CASE ~(msg.wave < eng[e].wave /\ ~eng[e].running /\ eng[e].pause_state = "UNPAUSED")
  <2> DEFINE new == [[eng[e] EXCEPT !.waiting = @ \cup {msg.req}]
                       EXCEPT !.wave = IF msg.wave > @ THEN msg.wave ELSE @]
  <2>1. OnlyEngine(e, new)
    BY <1>3 DEF HandleAdd, OnlyEngine
  <2>2. Minor(eng[e], new)
    BY <1>1 DEF Minor, EngineState
  <2> QED BY <2>1, <2>2
<1> QED BY <1>2, <1>3

\* An engine takes the pause: the engines are gathering.
LEMMA TakesPause ==
  ASSUME Pauses, Types', NEW e \in Engines, NEW msg \in Calls, pause_scheduler(e, msg),
         ctl.state = "pausing", Queued(e, "PAUSE"), ~Queued(e, "PAUSE")',
         \A f \in Engines : f # e => (Queued(f, "PAUSE")' <=> Queued(f, "PAUSE"))
  PROVE  Phase' /\ Counters'
<1>1. eng \in [Engines -> EngineState] /\ eng[e] \in EngineState
  BY Zenon DEF Pauses, Types
<1>2. Gathering
  BY Zenon DEF Pauses, Phase, Agreed
<1>3. PICK gone, ps : /\ ps \in {"PAUSED_ALL", "PAUSED_NEW"}
                      /\ OnlyEngine(e, [Without(eng[e], gone) EXCEPT
                           !.pause_state = ps,
                           !.pending_pause = TRUE, !.running = TRUE, !.future = TRUE])
  BY Zenon DEF pause_scheduler, OnlyEngine
<1>4. /\ eng'[e].pause_state = ps /\ eng'[e].pending_pause /\ eng'[e].running /\ eng'[e].future
      /\ eng'[e].ignore_start = eng[e].ignore_start /\ eng'[e].pc = eng[e].pc
      /\ eng'[e].counter = eng[e].counter
  BY <1>1, <1>3 DEF OnlyEngine, Without, EngineState
<1>5. \A f \in Engines : f # e => eng'[f] = eng[f]
  BY <1>1, <1>3 DEF OnlyEngine
<1>6. ctl' = ctl
  BY Zenon DEF pause_scheduler
<1>7. Gathering'
  <2>1. Unpaused(eng[e]) /\ eng[e].pc # "resume"
    BY <1>2, Zenon DEF Gathering
  <2>2. ~eng'[e].ignore_start /\ eng'[e].pause_state # "UNPAUSED" /\ eng'[e].pc # "resume"
    BY <1>3, <1>4, <2>1 DEF Unpaused
  <2> QED BY <1>2, <1>4, <1>5, <1>6, <2>2, ZenonT(30) DEF Gathering
<1>8. Counters'
  <2>1. \A f \in Engines : eng'[f].counter = eng[f].counter
    BY <1>4, <1>5
  <2> QED BY <2>1 DEF Pauses, Counters
<1> QED BY <1>6, <1>7, <1>8 DEF Phase

\* An engine takes the resume: it goes on to the barrier.
LEMMA TakesResume ==
  ASSUME Pauses, Types', NEW e \in Engines, NEW msg \in Calls, resume_scheduler(e, msg),
         ctl.state = "resuming", Queued(e, "RESUME"), ~Queued(e, "RESUME")',
         \A f \in Engines : f # e => (Queued(f, "RESUME")' <=> Queued(f, "RESUME"))
  PROVE  Phase' /\ Counters' /\ ctl' = ctl
<1>1. eng \in [Engines -> EngineState] /\ eng[e] \in EngineState
  BY Zenon DEF Pauses, Types
<1>2. Resuming /\ Still(eng[e]) /\ ~eng[e].pending_pause /\ ~eng[e].future
  BY DEF Pauses, Phase, Resuming
<1>3. /\ OnlyEngine(e, [eng[e] EXCEPT !.pause_state = "UNPAUSED", !.ignore_start = FALSE,
                                      !.pc = "resume"])
      /\ ctl' = ctl
  BY <1>1, <1>2, ZenonT(30) DEF resume_scheduler, OnlyEngine, Still
<1>4. /\ eng'[e].pause_state = "UNPAUSED" /\ ~eng'[e].ignore_start /\ eng'[e].pc = "resume"
      /\ eng'[e].pending_pause = eng[e].pending_pause /\ eng'[e].future = eng[e].future
      /\ eng'[e].running = eng[e].running /\ eng'[e].counter = eng[e].counter
  BY <1>1, <1>3 DEF OnlyEngine, EngineState
<1>5. \A f \in Engines : f # e => eng'[f] = eng[f]
  BY <1>1, <1>3 DEF OnlyEngine
<1>6. Resuming'
  <2>1. /\ ~eng'[e].pending_pause /\ ~eng'[e].future /\ eng'[e].pc = "resume"
        /\ Unpaused(eng'[e]) /\ ~eng'[e].running
    BY <1>2, <1>4, Zenon DEF Unpaused, Still
  <2> QED BY <1>2, <1>5, <2>1, Zenon DEF Resuming
<1>7. Counters'
  <2>1. \A f \in Engines : eng'[f].counter = eng[f].counter
    BY <1>4, <1>5, Zenon
  <2> QED BY <2>1, Zenon DEF Pauses, Counters
<1> QED BY <1>3, <1>6, <1>7 DEF Phase

\* A call of the controller is taken.
LEMMA CallTaken ==
  ASSUME Pauses, NEW c \in Clients, NEW e \in Engines, toEng[c][e] # <<>>,
         NEW t \in {"PAUSE", "RESUME"}, Head(toEng[c][e]).type = t,
         toEng' = [toEng EXCEPT ![c][e] = Tail(@)]
  PROVE  /\ c = Controller /\ Queued(e, t) /\ ~Queued(e, t)'
         /\ \A f \in Engines, u \in {"PAUSE", "RESUME"} :
              f # e \/ u # t => (Queued(f, u)' <=> Queued(f, u))
         /\ \A d \in Clients, f \in Engines, u \in {"PAUSE", "RESUME"} :
              Holds(toEng'[d][f], u) => Holds(toEng[d][f], u)
         /\ \A f \in Engines, u \in {"PAUSE", "RESUME"} : Once(toEng'[Controller][f], u)
<1> DEFINE q == toEng[c][e]
<1>1. toEng \in [Clients -> [Engines -> Seq(Calls)]] /\ q \in Seq(Calls) /\ Controller \in Clients
  BY EnginesFacts DEF Pauses, Types
<1>2. \A d \in Clients, f \in Engines :
        toEng'[d][f] = IF d = c /\ f = e THEN Tail(q) ELSE toEng[d][f]
  BY <1>1
<1> HIDE DEF q
<1>3. q # <<>> /\ Head(q).type = t /\ toEng[c][e] = q
  BY DEF q
<1>4. /\ \A u : Holds(Tail(q), u) => Holds(q, u)
      /\ \A u : Holds(q, u) /\ t # u => Holds(Tail(q), u)
      /\ Holds(q, t)
      /\ \A u : Once(q, u) => Once(Tail(q), u)
      /\ Once(q, t) => ~Holds(Tail(q), t)
  BY <1>1, <1>3, HoldsTail
<1>5. c = Controller
  BY <1>3, <1>4 DEF Pauses, OneCall
<1>6. \A f \in Engines, u \in {"PAUSE", "RESUME"} : Once(toEng[Controller][f], u)
  BY DEF Pauses, OneCall
<1>7. Queued(e, t) /\ ~Queued(e, t)'
  BY <1>1, <1>2, <1>3, <1>4, <1>5, <1>6, Zenon DEF Queued
<1>8. \A f \in Engines, u \in {"PAUSE", "RESUME"} :
              f # e \/ u # t => (Queued(f, u)' <=> Queued(f, u))
  BY <1>1, <1>2, <1>3, <1>4, <1>5, SMTT(20) DEF Queued
<1>9. \A d \in Clients, f \in Engines, u \in {"PAUSE", "RESUME"} :
              Holds(toEng'[d][f], u) => Holds(toEng[d][f], u)
  BY <1>2, <1>3, <1>4
<1>10. \A f \in Engines, u \in {"PAUSE", "RESUME"} : Once(toEng'[Controller][f], u)
  BY <1>1, <1>2, <1>3, <1>4, <1>6, Zenon
<1> QED BY <1>5, <1>7, <1>8, <1>9, <1>10, Zenon

\* Whatever call an engine takes, the phase is kept or the next one begins.
LEMMA ClientRequestPauses ==
  ASSUME Pauses, Types', NEW e \in Engines, NEW c \in Clients, HandleClientRequest(e, c)
  PROVE  Pauses'
<1> DEFINE msg == Head(toEng[c][e])
<1>1. /\ Types /\ toEng[c][e] \in Seq(Calls) /\ toEng[c][e] # <<>>
      /\ toEng' = [toEng EXCEPT ![c][e] = Tail(@)]
      /\ eng[e].pc = "input" /\ eng[e] \in EngineState
  BY DEF Pauses, Types, HandleClientRequest, ReadsInput
<1>2. msg \in Calls /\ Holds(toEng[c][e], msg.type)
  BY <1>1, HeadIn, HoldsTail
<1> HIDE DEF msg
<1>3. CASE msg.type = "ADD" /\ HandleAdd(e, msg)
  <2>1. \A f \in Engines : Minor(eng[f], eng'[f])
    BY <1>1, <1>2, <1>3, AddMinor, MinorEngine, Zenon
  <2>2. SameCalls
    BY <1>1, <1>3, OtherCallTaken, Zenon DEF msg
  <2>3. ctl' = ctl
    BY <1>3 DEF HandleAdd
  <2> QED BY <2>1, <2>2, <2>3, MinorPauses, Zenon
<1>4. CASE msg.type = "ABORT" /\ HandleAbort(e, msg)
  <2>1. OnlyEngine(e, Without(eng[e], {msg.req})) /\ ctl' = ctl
    BY <1>4 DEF HandleAbort, OnlyEngine
  <2>2. Minor(eng[e], Without(eng[e], {msg.req}))
    BY <1>1 DEF Minor, Without, EngineState
  <2>3. \A f \in Engines : Minor(eng[f], eng'[f])
    BY <1>1, <2>1, <2>2, MinorEngine
  <2>4. SameCalls
    BY <1>1, <1>4, OtherCallTaken, Zenon DEF msg
  <2> QED BY <2>1, <2>3, <2>4, MinorPauses, Zenon
<1>5. CASE msg.type = "PAUSE" /\ pause_scheduler(e, msg)
  <2>1. /\ Queued(e, "PAUSE") /\ ~Queued(e, "PAUSE")'
        /\ \A f \in Engines, u \in {"PAUSE", "RESUME"} :
              f # e \/ u # "PAUSE" => (Queued(f, u)' <=> Queued(f, u))
        /\ \A d \in Clients, f \in Engines, u \in {"PAUSE", "RESUME"} :
              Holds(toEng'[d][f], u) => Holds(toEng[d][f], u)
        /\ \A f \in Engines, u \in {"PAUSE", "RESUME"} : Once(toEng'[Controller][f], u)
    BY <1>1, <1>5, CallTaken, ZenonT(30) DEF msg
  <2>2. ctl.state = "pausing" /\ ctl' = ctl
    BY <1>5, <2>1 DEF Pauses, OneCall, pause_scheduler
  <2>3. Phase' /\ Counters'
    BY <1>2, <1>5, <2>1, <2>2, TakesPause
  <2>4. OneCall'
    BY <2>1, <2>2, Zenon DEF Pauses, OneCall
  <2> QED BY <2>3, <2>4 DEF Pauses
<1>6. CASE msg.type = "RESUME" /\ resume_scheduler(e, msg)
  <2>1. /\ Queued(e, "RESUME") /\ ~Queued(e, "RESUME")'
        /\ \A f \in Engines, u \in {"PAUSE", "RESUME"} :
              f # e \/ u # "RESUME" => (Queued(f, u)' <=> Queued(f, u))
        /\ \A d \in Clients, f \in Engines, u \in {"PAUSE", "RESUME"} :
              Holds(toEng'[d][f], u) => Holds(toEng[d][f], u)
        /\ \A f \in Engines, u \in {"PAUSE", "RESUME"} : Once(toEng'[Controller][f], u)
    BY <1>1, <1>6, CallTaken, ZenonT(30) DEF msg
  <2>2. ctl.state = "resuming"
    BY <2>1 DEF Pauses, OneCall
  <2>3. Phase' /\ Counters' /\ ctl' = ctl
    BY <1>2, <1>6, <2>1, <2>2, TakesResume, Zenon
  <2>4. OneCall'
    BY <2>1, <2>3, Zenon DEF Pauses, OneCall
  <2> QED BY <2>3, <2>4, Zenon DEF Pauses
<1> QED BY <1>3, <1>4, <1>5, <1>6, Zenon DEF HandleClientRequest, msg

\* A wake-up does not start an engine that has agreed on a pause.
LEMMA StartPauses ==
  ASSUME Pauses, Types', NEW e \in Engines, HandleStart(e)
  PROVE  Pauses'
<1>1. /\ Types /\ eng[e] \in EngineState /\ UNCHANGED <<toEng, ctl>> /\ eng[e].pc = "input"
      /\ OnlyEngine(e, Started(eng[e], Head(starts[e])))
  BY Zenon DEF Pauses, Types, HandleStart, ReadsInput, OnlyEngine
<1>2. Minor(eng[e], Started(eng[e], Head(starts[e])))
  BY <1>1, ZenonT(30) DEF Started, Minor, EngineState
<1>3. \A f \in Engines : Minor(eng[f], eng'[f])
  BY <1>1, <1>2, MinorEngine
<1> QED BY <1>1, <1>3, CallsUnchanged, MinorPauses, ZenonT(30)

\* An engine with work, or in a wave, enters a pass.
LEMMA EnterStepPauses ==
  ASSUME Pauses, Types', NEW e \in Engines, EnterStep(e)
  PROVE  Pauses'
<1>1. /\ Types /\ eng[e] \in EngineState /\ UNCHANGED <<toEng, ctl>>
      /\ eng[e].pc = "input" /\ ~Still(eng[e])
  <2>1. Types /\ eng[e] \in EngineState
    BY DEF Pauses, Types
  <2>2. eng[e].pc = "input" /\ has_work(eng[e]) /\ UNCHANGED <<toEng, ctl>>
    BY Zenon DEF EnterStep, chans
  <2> QED BY <2>1, <2>2, StillNoWork
<1>2. PICK a, w : OnlyEngine(e, [eng[e] EXCEPT !.pc = "step", !.active = a, !.waiting = w])
  <2> DEFINE a == IF eng[e].pause_state = "UNPAUSED" THEN eng[e].active \cup eng[e].waiting
                  ELSE eng[e].active
             w == IF eng[e].pause_state = "UNPAUSED" THEN {} ELSE eng[e].waiting
  <2>1. eng' = [eng EXCEPT ![e] = [eng[e] EXCEPT !.pc = "step", !.active = a, !.waiting = w]]
    BY <1>1, Zenon DEF EnterStep, Types
  <2> HIDE DEF a, w
  <2> QED BY <2>1, Zenon DEF OnlyEngine
<1>3. Minor(eng[e], [eng[e] EXCEPT !.pc = "step", !.active = a, !.waiting = w])
  BY <1>1 DEF Minor, EngineState
<1>4. \A f \in Engines : Minor(eng[f], eng'[f])
  BY <1>1, <1>2, <1>3, MinorEngine
<1> QED BY <1>1, <1>4, CallsUnchanged, MinorPauses

\* The last engine to report its pause ends the controller's call.
LEMMA NotifyIdlePauses ==
  ASSUME Pauses, Types', NEW e \in Engines, NotifyIdle(e)
  PROVE  Pauses'
<1>1. /\ eng \in [Engines -> EngineState] /\ eng[e] \in EngineState
      /\ eng[e].future /\ ~eng[e].running /\ toEng' = toEng
      /\ OnlyEngine(e, [eng[e] EXCEPT !.future = FALSE])
  BY DEF Pauses, Types, NotifyIdle, has_work, OnlyEngine, chans
<1>2. /\ ctl \in ControllerState /\ Replied({e})
  BY DEF Pauses, Types, NotifyIdle
<1>3. /\ \A f \in Engines : f # e => eng'[f] = eng[f]
      /\ ~eng'[e].future /\ eng'[e].pc = eng[e].pc /\ eng'[e].running = eng[e].running
      /\ eng'[e].pause_state = eng[e].pause_state /\ eng'[e].active = eng[e].active
      /\ eng'[e].pending_pause = eng[e].pending_pause /\ eng'[e].ignore_start = eng[e].ignore_start
      /\ eng'[e].counter = eng[e].counter
  BY <1>1 DEF OnlyEngine, EngineState
<1>4. /\ ctl.state = "pausing" /\ Agreed /\ Stopped
      /\ \A f \in Engines : eng[f].future <=> f \notin ctl.replies
  <2>1. ~Serving /\ ~Gathering /\ ~Finishes /\ ~Resuming /\ ~(\A f \in Engines : ~eng[f].future)
    BY <1>1 DEF Serving, Unpaused, Gathering, Finishes, Resuming
  <2>2. ctl.state \in {"idle", "pausing", "paused", "resuming"}
    BY <1>2 DEF ControllerState
  <2> QED BY <2>1, <2>2 DEF Pauses, Phase, Reporting
<1>5. \A f \in Engines, t \in {"PAUSE", "RESUME"} : Queued(f, t)' <=> Queued(f, t)
  BY <1>1 DEF Queued
<1>6. \A f \in Engines : ~Queued(f, "PAUSE") /\ ~Queued(f, "RESUME")
  BY <1>4 DEF Agreed, Pauses, OneCall
<1>7. OneCall'
  BY <1>1, <1>5, <1>6 DEF Pauses, OneCall
<1>8. Counters'
  <2>1. \A f \in Engines : eng'[f].counter = eng[f].counter
    BY <1>3
  <2> QED BY <2>1 DEF Pauses, Counters
<1>9. Agreed'
  BY <1>3, <1>4, <1>5 DEF Agreed
<1>10. Stopped'
  <2>1. \A f \in Engines : Still(eng[f]) => Still(eng'[f])
    BY <1>3 DEF Still
  <2> QED BY <1>4, <2>1 DEF Stopped
<1>11. CASE ctl.replies \cup {e} = Engines
  <2>1. ctl'.state = "paused"
    BY <1>2, <1>4, <1>11 DEF Replied, ControllerState
  <2>2. \A f \in Engines : ~eng'[f].future
    BY <1>3, <1>4, <1>11
  <2>3. Phase'
    BY <1>9, <1>10, <2>1, <2>2 DEF Phase, Reporting
  <2> QED BY <1>7, <1>8, <2>3 DEF Pauses
<1>12. CASE ctl.replies \cup {e} # Engines
  <2>1. ctl'.state = "pausing" /\ ctl'.replies = ctl.replies \cup {e}
    BY <1>2, <1>4, <1>12 DEF Replied, ControllerState
  <2>2. \A f \in Engines : eng'[f].future <=> f \notin ctl'.replies
    BY <1>3, <1>4, <2>1
  <2>3. Phase'
    BY <1>9, <1>10, <2>1, <2>2 DEF Phase, Reporting
  <2> QED BY <1>7, <1>8, <2>3 DEF Pauses
<1> QED BY <1>11, <1>12

\* The engines leave the barrier together, and serve.
LEMMA ResumeBarrierPauses ==
  ASSUME Pauses, Types', ResumeBarrier
  PROVE  Pauses'
<1>1. /\ Types /\ toEng' = toEng /\ 0 \in Engines /\ (\A e \in Engines : eng[e].pc = "resume")
      /\ Replied(Engines)
  BY EnginesFacts, ZenonT(30) DEF Pauses, ResumeBarrier, chans
<1>2. PICK b : eng' = [e \in Engines |-> [eng[e] EXCEPT !.pc = "input", !.running = b]]
  BY Zenon DEF ResumeBarrier
<1>3. eng \in [Engines -> EngineState] /\ ctl \in ControllerState
  BY <1>1, Zenon DEF Types
<1>4. \A e \in Engines :
         /\ eng'[e].pc = "input" /\ eng'[e].pause_state = eng[e].pause_state
         /\ eng'[e].pending_pause = eng[e].pending_pause /\ eng'[e].future = eng[e].future
         /\ eng'[e].ignore_start = eng[e].ignore_start /\ eng'[e].counter = eng[e].counter
  BY <1>2, <1>3, ZenonT(30) DEF EngineState
<1>5. ctl.state = "resuming" /\ Resuming
  <2>1. ~Serving /\ ~Gathering /\ ~Agreed
    BY <1>1 DEF Serving, Gathering, Agreed
  <2>2. ctl.state \in {"idle", "pausing", "paused", "resuming"}
    BY <1>3 DEF ControllerState
  <2> QED BY <2>1, <2>2 DEF Pauses, Phase
<1>6. ctl'.state = "idle"
  <2>1. ctl.replies \cup Engines = Engines
    BY <1>3 DEF ControllerState
  <2> QED BY <1>1, <1>3, <1>5, <2>1 DEF Replied, ControllerState
<1>7. \A e \in Engines : Unpaused(eng[e]) /\ ~Queued(e, "RESUME") /\ ~Queued(e, "PAUSE")
  <2>1. \A e \in Engines : ~Still(eng[e])
    BY <1>1 DEF Still
  <2> QED BY <1>5, <2>1 DEF Resuming, Pauses, OneCall
<1>8. Serving'
  BY <1>4, <1>7 DEF Serving, Unpaused
<1>9. OneCall'
  <2>1. \A e \in Engines, t \in {"PAUSE", "RESUME"} : ~Queued(e, t)'
    BY <1>1, <1>7 DEF Queued
  <2> QED BY <1>1, <2>1 DEF Pauses, OneCall
<1>10. Counters'
  BY <1>4 DEF Pauses, Counters
<1>11. Phase'
  BY <1>6, <1>8 DEF Phase
<1> QED BY <1>9, <1>10, <1>11, Zenon DEF Pauses

\* The engines serve, and no call is under way.
LEMMA InitPauses == Init => Pauses
<1> SUFFICES ASSUME Init PROVE Pauses
  OBVIOUS
<1>1. Types
  BY InitTypes
<1>2. ctl.state = "idle" /\ Controller \in Clients
  BY EnginesFacts DEF Init
<1>3. \A c \in Clients, e \in Engines : \A t : ~Holds(toEng[c][e], t) /\ Once(toEng[c][e], t)
  <2>1. \A c \in Clients, e \in Engines : toEng[c][e] = <<>>
    BY DEF Init
  <2>2. 1..Len(<<>>) = {}
    BY SeqEmpty
  <2> QED BY <2>1, <2>2, Zenon DEF Holds, Once
<1>4. OneCall
  BY <1>2, <1>3, Zenon DEF OneCall, Queued
<1>5. Serving /\ Counters
  BY DEF Init, Serving, Unpaused, Counters
<1> QED BY <1>1, <1>2, <1>4, <1>5, Zenon DEF Pauses, Phase

----------------------------------------------------------------------------
(* The ranks agree                                                         *)

\* What Cardinality stands for, to use the library's facts about it below.
LEMMA CardinalityIs ==
  ASSUME NEW S
  PROVE  Cardinality(S) = LET CS[T \in SUBSET S] ==
                                IF T = {} THEN 0 ELSE 1 + CS[T \ {CHOOSE x : x \in T}]
                          IN  CS[S]
  BY DEF Cardinality

LOCAL INSTANCE FiniteSetTheorems

\* What the ranks learn from the sum of the pause flags.
LEMMA PauseCounts ==
  ASSUME Types
  PROVE  /\ PauseCount \in Nat
         /\ PauseCount = DPSize <=> \A e \in Engines : eng[e].pending_pause
         /\ PauseCount % DPSize = 0 => \/ \A e \in Engines : eng[e].pending_pause
                                       \/ \A e \in Engines : ~eng[e].pending_pause
<1> DEFINE P == {e \in Engines : eng[e].pending_pause}
<1>1. IsFiniteSet(Engines) /\ Cardinality(Engines) = DPSize
  <2>1. /\ IsFiniteSet(0..(DPSize - 1))
        /\ Cardinality(0..(DPSize - 1)) =
             IF 0 > DPSize - 1 THEN 0 ELSE (DPSize - 1) - 0 + 1
    BY FS_Interval, EnginesFacts
  <2> QED BY <2>1, EnginesFacts DEF Engines
<1>2. /\ IsFiniteSet(P) /\ Cardinality(P) <= Cardinality(Engines)
      /\ Cardinality(P) = Cardinality(Engines) => P = Engines
  BY <1>1, FS_Subset
<1>3. Cardinality(P) \in Nat /\ (Cardinality(P) = 0 <=> P = {})
  BY <1>2, FS_CardinalityType, FS_EmptySet
<1>4. PauseCount = Cardinality(P)
  BY CardinalityIs DEF PauseCount, Cardinality
<1>5. ASSUME NEW n \in Nat, n <= DPSize, n % DPSize = 0 PROVE n = 0 \/ n = DPSize
  <2>1. CASE n < DPSize
    <3>1. n % DPSize = n
      BY <2>1, EnginesFacts
    <3> QED BY <1>5, <3>1
  <2> QED BY <1>5, <2>1, EnginesFacts
<1>6. P = Engines => \A e \in Engines : eng[e].pending_pause
  OBVIOUS
<1>7. (\A e \in Engines : eng[e].pending_pause) => P = Engines
  OBVIOUS
<1>8. P = {} => \A e \in Engines : ~eng[e].pending_pause
  OBVIOUS
<1> HIDE DEF P
<1> QED BY <1>1, <1>2, <1>3, <1>4, <1>5, <1>6, <1>7, <1>8

\* What the end of a pass makes of all engines.
LEMMA StepFields ==
  ASSUME Types, Step
  PROVE  \E stops, paused \in BOOLEAN :
           /\ \A e \in Engines :
                /\ eng'[e].running = ~stops
                /\ eng'[e].pc = "input" /\ eng'[e].future = eng[e].future
                /\ eng'[e].pause_state = eng[e].pause_state
                /\ eng'[e].ignore_start = (eng[e].ignore_start \/ paused)
                /\ eng'[e].pending_pause = (eng[e].pending_pause /\ ~paused)
                /\ eng'[e].counter = IF stops THEN 0 ELSE (eng[e].counter + 1) % SyncInterval
                /\ stops => (eng[e].pause_state = "PAUSED_NEW" => eng'[e].active = {})
           /\ paused => \A e \in Engines : eng[e].pending_pause
           /\ stops /\ ~paused => \A e \in Engines : ~eng[e].pending_pause
<1> DEFINE sync == eng[0].counter + 1 = SyncInterval
           state == sync_dp_state
           stops == sync /\ ~state.unfinished
           paused == sync /\ state.consensus
<1>1. eng' = [e \in Engines |-> AfterStep(eng[e], sync, state)]
  BY DEF Step
<1>2. sync \in BOOLEAN /\ state \in [unfinished : BOOLEAN, consensus : BOOLEAN]
  BY DEF sync_dp_state, has_unfinished_dp
<1>3. /\ state.consensus <=> PauseCount = DPSize
      /\ ~state.unfinished => /\ PauseCount % DPSize = 0
                              /\ \A e \in Engines : UnfinishedAfter(eng[e], Finishing) = {}
  BY Zenon DEF sync_dp_state, has_unfinished_dp
<1> HIDE DEF sync, state
<1>4. stops \in BOOLEAN /\ paused \in BOOLEAN
  BY <1>2
<1>5. \A e \in Engines :
        /\ eng'[e].running = ~stops
        /\ eng'[e].pc = "input" /\ eng'[e].future = eng[e].future
        /\ eng'[e].pause_state = eng[e].pause_state
        /\ eng'[e].ignore_start = (eng[e].ignore_start \/ paused)
        /\ eng'[e].pending_pause = (eng[e].pending_pause /\ ~paused)
        /\ eng'[e].counter = IF stops THEN 0 ELSE (eng[e].counter + 1) % SyncInterval
        /\ eng'[e].active = eng[e].active \ Finishing
  <2> SUFFICES ASSUME NEW e \in Engines
               PROVE  /\ eng'[e].running = ~stops
                      /\ eng'[e].pc = "input" /\ eng'[e].future = eng[e].future
                      /\ eng'[e].pause_state = eng[e].pause_state
                      /\ eng'[e].ignore_start = (eng[e].ignore_start \/ paused)
                      /\ eng'[e].pending_pause = (eng[e].pending_pause /\ ~paused)
                      /\ eng'[e].counter = IF stops THEN 0 ELSE (eng[e].counter + 1) % SyncInterval
                      /\ eng'[e].active = eng[e].active \ Finishing
    OBVIOUS
  <2> DEFINE g == eng[e]
  <2>1. eng'[e] = AfterStep(g, sync, state) /\ g \in EngineState
    BY <1>1 DEF Types
  <2> HIDE DEF g, stops, paused
  <2>2. /\ AfterStep(g, sync, state).running = ~stops
        /\ AfterStep(g, sync, state).pc = "input" /\ AfterStep(g, sync, state).future = g.future
        /\ AfterStep(g, sync, state).pause_state = g.pause_state
        /\ AfterStep(g, sync, state).ignore_start = (g.ignore_start \/ paused)
        /\ AfterStep(g, sync, state).pending_pause = (g.pending_pause /\ ~paused)
        /\ AfterStep(g, sync, state).counter = IF stops THEN 0 ELSE (g.counter + 1) % SyncInterval
        /\ AfterStep(g, sync, state).active = g.active \ Finishing
    BY <1>2, <2>1, AfterStepFields DEF stops, paused
  <2> QED BY <2>1, <2>2 DEF g
<1>6. ASSUME NEW e \in Engines, stops, eng[e].pause_state = "PAUSED_NEW"
      PROVE  eng'[e].active = {}
  <2>1. UnfinishedAfter(eng[e], Finishing) = eng[e].active \ Finishing
    BY <1>6 DEF UnfinishedAfter
  <2> QED BY <1>3, <1>5, <1>6, <2>1
<1>7. paused => \A e \in Engines : eng[e].pending_pause
  BY <1>3, PauseCounts
<1>8. stops /\ ~paused => \A e \in Engines : ~eng[e].pending_pause
  BY <1>3, PauseCounts
<1> HIDE DEF stops, paused
<1> QED BY <1>4, <1>5, <1>6, <1>7, <1>8, Zenon

\* The engines agree on the pause at the end of a pass, together.
LEMMA StepPauses ==
  ASSUME Pauses, Types', Step
  PROVE  Pauses'
<1>1. Types /\ UNCHANGED <<toEng, ctl>> /\ 0 \in Engines /\ (\A e \in Engines : eng[e].pc = "step")
  BY EnginesFacts, Zenon DEF Pauses, Step
<1>2. PICK stops, paused \in BOOLEAN :
           /\ \A e \in Engines :
                /\ eng'[e].running = ~stops
                /\ eng'[e].pc = "input" /\ eng'[e].future = eng[e].future
                /\ eng'[e].pause_state = eng[e].pause_state
                /\ eng'[e].ignore_start = (eng[e].ignore_start \/ paused)
                /\ eng'[e].pending_pause = (eng[e].pending_pause /\ ~paused)
                /\ eng'[e].counter = IF stops THEN 0 ELSE (eng[e].counter + 1) % SyncInterval
                /\ stops => (eng[e].pause_state = "PAUSED_NEW" => eng'[e].active = {})
           /\ paused => \A e \in Engines : eng[e].pending_pause
           /\ stops /\ ~paused => \A e \in Engines : ~eng[e].pending_pause
  BY <1>1, StepFields
<1>3. Counters'
  BY <1>2 DEF Pauses, Counters
<1>4. \A e \in Engines, t \in {"PAUSE", "RESUME"} : Queued(e, t)' <=> Queued(e, t)
  BY <1>1, Zenon DEF Queued
<1>5. OneCall'
  BY <1>1, <1>4 DEF Pauses, OneCall
<1>6. ~Stopped /\ ~Resuming
  BY <1>1 DEF Stopped, Resuming, Still
<1>7. ctl.state \in {"idle", "pausing"}
  BY <1>1, <1>6 DEF Pauses, Phase, Types, ControllerState
<1>8. ASSUME Serving PROVE Serving'
  <2>1. ~paused
    BY <1>1, <1>2, <1>8, Zenon DEF Serving, Unpaused
  <2> QED BY <1>2, <1>8, <2>1 DEF Serving, Unpaused
<1>9. ASSUME Gathering, ~paused PROVE Gathering'
  <2> SUFFICES ASSUME NEW e \in Engines
               PROVE  /\ eng'[e].pc # "resume"
                      /\ IF Queued(e, "PAUSE") THEN Unpaused(eng'[e])
                         ELSE /\ eng'[e].pending_pause /\ eng'[e].running /\ eng'[e].future
                              /\ ~eng'[e].ignore_start /\ eng'[e].pause_state # "UNPAUSED"
    BY <1>1, <1>4, <1>9, ZenonT(30) DEF Gathering
  <2>1. CASE Queued(e, "PAUSE")
    BY <1>2, <1>9, <2>1 DEF Gathering, Unpaused
  <2>2. CASE ~Queued(e, "PAUSE")
    BY <1>2, <1>9, <2>2, Zenon DEF Gathering
  <2> QED BY <2>1, <2>2, Zenon
<1>10. ASSUME Gathering, paused PROVE Agreed' /\ ctl.replies = {} /\ \A e \in Engines : eng[e].future
  <2>1. \A e \in Engines : ~Queued(e, "PAUSE")
    BY <1>2, <1>10 DEF Gathering, Unpaused
  <2> QED BY <1>2, <1>4, <1>10, <2>1, ZenonT(30) DEF Gathering, Agreed
<1>11. ASSUME Agreed PROVE Agreed'
  BY <1>2, <1>4, <1>11, Zenon DEF Agreed
<1>12. ASSUME Agreed', ctl.replies = {}, \A e \in Engines : eng[e].future
       PROVE  \/ Finishes'
              \/ Stopped' /\ Reporting'
  <2>1. CASE stops
    <3>1. \A e \in Engines : eng'[e].pause_state # "UNPAUSED"
      BY <1>12 DEF Agreed
    <3>2. Stopped'
      BY <1>2, <2>1, <3>1, ZenonT(30) DEF Stopped, Still
    <3> QED BY <1>1, <1>2, <1>12, <3>2 DEF Reporting
  <2>2. CASE ~stops
    BY <1>1, <1>2, <1>12, <2>2, Zenon DEF Finishes
  <2> QED BY <2>1, <2>2
<1>13. Phase'
  <2>1. CASE ctl.state = "idle"
    BY <1>1, <1>8, <2>1 DEF Pauses, Phase
  <2>2. CASE ctl.state = "pausing"
    <3>1. Gathering \/ (Agreed /\ Finishes)
      BY <1>6, <2>2 DEF Pauses, Phase
    <3>2. Gathering' \/ (Agreed' /\ (Finishes' \/ (Stopped' /\ Reporting')))
      <4>1. CASE Gathering /\ ~paused
        BY <1>9, <4>1
      <4>2. CASE Gathering /\ paused
        BY <1>10, <1>12, <4>2
      <4>3. CASE Agreed /\ Finishes
        <5>1. ctl.replies = {} /\ \A e \in Engines : eng[e].future
          BY <4>3 DEF Finishes
        <5> QED BY <1>11, <1>12, <4>3, <5>1
      <4> QED BY <3>1, <4>1, <4>2, <4>3
    <3> QED BY <1>1, <2>2, <3>2 DEF Phase
  <2> QED BY <1>7, <2>1, <2>2
<1> QED BY <1>3, <1>5, <1>13, Zenon DEF Pauses

\* Every step keeps the phases.
LEMMA PausesStep ==
  ASSUME Pauses, [Next]_vars
  PROVE  Pauses'
<1>1. Types'
  BY TypesStep DEF Pauses
<1> QED BY <1>1, OutsidePauses, PauseGenerationPauses, ResumeGenerationPauses, ClientRequestPauses,
           StartPauses, NotifyIdlePauses, EnterStepPauses, StepPauses, ResumeBarrierPauses, Zenon
        DEF Next

\* The ranks never wait for each other in different collectives, whatever requests
\* and wake-ups are under way when an engine pauses or resumes: no rank enters a
\* forward pass while another is in the barrier of resume_scheduler, and the step
\* counters that decide on the all-reduce are equal.
THEOREM RanksMeet == Spec => []CollectivesMatch
<1>1. ASSUME Pauses PROVE CollectivesMatch
  <2>1. \A e, f \in Engines : eng[e].counter = eng[f].counter
    BY <1>1, Zenon DEF Pauses, Counters
  <2>2. CASE ctl.state = "resuming"
    BY <1>1, <2>1, <2>2 DEF Pauses, Phase, Resuming, Still, CollectivesMatch
  <2>3. CASE ctl.state # "resuming"
    <3>1. \A e \in Engines : eng[e].pc # "resume"
      BY <1>1, <2>3, Zenon DEF Pauses, Phase, Types, ControllerState, Serving, Gathering, Agreed
    <3> QED BY <2>1, <3>1 DEF CollectivesMatch
  <2> QED BY <2>2, <2>3
<1> QED BY InitPauses, PausesStep, <1>1, PTL DEF Spec

\* From the first report of a complete pause to the resume no engine computes:
\* START_DP_WAVE messages and requests that arrive late find the engines with
\* ignore_start_dp_wave set and a paused scheduler.
THEOREM PausesHold == Spec => []PauseHolds
<1>1. ASSUME Pauses PROVE PauseHolds
  <2>1. ASSUME ctl.state = "paused" \/ (ctl.state = "pausing" /\ ctl.replies # {}) PROVE Stopped
    BY <1>1, <2>1 DEF Pauses, Phase, Gathering, Finishes
  <2>2. ASSUME Stopped, NEW e \in Engines PROVE eng[e].pc = "input" /\ ~has_work(eng[e])
    <3>1. Still(eng[e]) /\ eng[e] \in EngineState
      BY <1>1, <2>2 DEF Stopped, Pauses, Types
    <3> QED BY <3>1, StillNoWork DEF Still
  <2> QED BY <2>1, <2>2, Zenon DEF PauseHolds
<1> QED BY InitPauses, PausesStep, <1>1, PTL DEF Spec
=============================================================================
