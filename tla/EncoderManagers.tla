-------------------------- MODULE EncoderManagers ---------------------------
(***************************************************************************)
(* Scheduler.__init__ builds one of two encoder-cache managers, depending  *)
(* on the model: the engine behaves as EncoderScheduler or, for an         *)
(* encoder-decoder model, as EncoderDecoderCache.                          *)
(***************************************************************************)
EXTENDS EncoderScheduler

CONSTANTS ed_Requests, ed_num_embeds, MaxSteps, MaxFreeSlots

VARIABLES
  ed_num_free_slots, ed_allocated, ed_to_free, ed_status, ed_steps, ed_pass,
  ed_queued, ed_done, ed_encoder_cache, ed_last_encoded

EncoderDecoder == INSTANCE EncoderDecoderCache WITH
  Requests <- ed_Requests, num_embeds <- ed_num_embeds, num_free_slots <- ed_num_free_slots,
  allocated <- ed_allocated,
  to_free <- ed_to_free, status <- ed_status, steps <- ed_steps, pass <- ed_pass,
  queued <- ed_queued, done <- ed_done, encoder_cache <- ed_encoder_cache,
  last_encoded <- ed_last_encoded

edVars == <<ed_num_free_slots, ed_allocated, ed_to_free, ed_status, ed_steps, ed_pass,
            ed_queued, ed_done, ed_encoder_cache, ed_last_encoded>>

InitManager == Init /\ EncoderDecoder!Init

\* manager_cls_obj.
NextOfManager ==
  \/ ~config.is_encoder_decoder /\ Next /\ UNCHANGED edVars
  \/ config.is_encoder_decoder /\ EncoderDecoder!Next /\ UNCHANGED vars

\* The engine thread keeps turning and the workers run what they are given.
FairManagers ==
  /\ InitManager /\ [][NextOfManager]_<<vars, edVars>>
  /\ FairSchedule /\ FairExecute /\ FairUpdate

\* For encoder-decoder models the workers keep an output until the next step and no
\* longer: the two lists through which an allocation passes lose none and report
\* none early, with two steps in flight and preemptions in between.
OutputsLiveOneStep == EncoderDecoder!OutputsLiveOneStep
=============================================================================
