------------------------- MODULE MCEncoderScheduler -------------------------
(***************************************************************************)
(* Prompts of a few positions with inputs of one to three embeddings, for  *)
(* a cache that holds only some of them.                                   *)
(***************************************************************************)
EXTENDS EncoderManagers

CONSTANTS r1, r2, r3, hA, hB, hC

Input(h, offset, length, embeds) ==
  [identifier |-> h, offset |-> offset, length |-> length, embeds |-> embeds]

\* r1 has an input with a position that takes no embedding; r2 repeats one
\* content and shares it with r1; r3 shares its only input with r1.
MCFeatures ==
  (r1 :> <<Input(hA, 0, 2, {0, 1}), Input(hB, 3, 2, {4})>>) @@
  (r2 :> <<Input(hA, 0, 2, {0, 1}), Input(hA, 2, 2, {2, 3}), Input(hC, 5, 1, {5})>>) @@
  (r3 :> <<Input(hB, 1, 1, {1})>>)
MCPrompt == (r1 :> 5) @@ (r2 :> 6) @@ (r3 :> 2)

\* A drafter that reads one position ahead, in an engine where anything happens;
\* an undisturbed engine without one, that must not split inputs; the drafter in
\* an undisturbed engine; and an encoder-decoder model.
Drafting == [is_encoder_decoder |-> FALSE, num_prefill_lookahead |-> 1,
             disable_chunked_mm_input |-> FALSE, drop_stale_output |-> TRUE, undisturbed |-> FALSE]
Unsplit  == [is_encoder_decoder |-> FALSE, num_prefill_lookahead |-> 0,
             disable_chunked_mm_input |-> TRUE, drop_stale_output |-> FALSE, undisturbed |-> TRUE]
MCConfigurations    == {Drafting, Unsplit, [Unsplit EXCEPT !.is_encoder_decoder = TRUE]}
MCUndisturbedDrafts == {[Drafting EXCEPT !.undisturbed = TRUE, !.drop_stale_output = FALSE]}

\* The inputs of the encoder-decoder model's requests do not fit the cache together.
MCEmbeds == (r1 :> 2) @@ (r2 :> 1)

MCMaxTokens == (r1 :> 2) @@ (r2 :> 1) @@ (r3 :> 1)
MCPriority  == (r1 :> 2) @@ (r2 :> 1) @@ (r3 :> 3)
=============================================================================
