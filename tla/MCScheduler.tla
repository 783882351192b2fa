----------------------------- MODULE MCScheduler -----------------------------
(***************************************************************************)
(* Small instances of the scheduler: two or three requests whose prompts   *)
(* agree on their first SharedBlocks blocks, so that one can hit what      *)
(* another has cached. The pool is too small for all of them at once, so   *)
(* that running requests are preempted. r1 has the highest priority.       *)
(***************************************************************************)
EXTENDS Scheduler, TLC

CONSTANTS r1, r2, r3, SharedBlocks, Prompt1, Prompt2, Prompt3, Output1, Output2, Output3

\* The value of request r among the three given.
Pick(r, x1, x2, x3) == IF r = r1 THEN x1 ELSE IF r = r2 THEN x2 ELSE x3

\* A key names a position and the request whose tokens are hashed there.
MCKeys        == (1..MaxBlocks) \X Requests
MCHashTokens  == [k \in Keys |-> k[1] * BlockSize]
MCBlockHashes ==
  [r \in Requests |-> [i \in 1..MaxBlocks |-> <<i, IF i <= SharedBlocks THEN r1 ELSE r>>]]
MCPromptLen   == [r \in Requests |-> Pick(r, Prompt1, Prompt2, Prompt3)]
MCMaxOutput   == [r \in Requests |-> Pick(r, Output1, Output2, Output3)]
MCPriority    == [r \in Requests |-> Pick(r, 1, 2, 3)]

\* One step at a time, no connector.
Plain ==
  [QueueSize |-> 1, DeferBlockFree |-> FALSE, RequiresKVDelivery |-> FALSE, ExternalPrefixes |-> {},
   LoadModes |-> {}, MayDefer |-> FALSE, DelaysFree |-> FALSE, MaxResets |-> 0,
   RecomputeLoadFailures |-> FALSE, MaxLoadFailures |-> 0, Aborts |-> TRUE]

\* A connector that does everything it may, except that its loads succeed.
Connected ==
  [QueueSize |-> 2, DeferBlockFree |-> TRUE, RequiresKVDelivery |-> TRUE,
   ExternalPrefixes |-> {2, 4}, LoadModes |-> BOOLEAN, MayDefer |-> TRUE, DelaysFree |-> TRUE,
   MaxResets |-> 1, RecomputeLoadFailures |-> FALSE, MaxLoadFailures |-> 0, Aborts |-> TRUE]

\* Loads that fail: asynchronous ones under both policies, synchronous ones
\* under the policy that fails their requests.
FailingLoads ==
  {[Connected EXCEPT !.MayDefer = FALSE, !.DelaysFree = FALSE, !.MaxResets = 0,
                     !.LoadModes = {TRUE}, !.MaxLoadFailures = 2,
                     !.RecomputeLoadFailures = recompute] : recompute \in BOOLEAN}
  \cup
  {[Connected EXCEPT !.MayDefer = FALSE, !.DelaysFree = FALSE, !.MaxResets = 0,
                     !.LoadModes = {FALSE}, !.MaxLoadFailures = 1, !.Aborts = FALSE]}

AsyncConfigurations ==
  {[Plain EXCEPT !.QueueSize = 3, !.MaxResets = 2], Connected} \cup FailingLoads

LivenessConfigurations ==
  {[Plain EXCEPT !.QueueSize = 2, !.DeferBlockFree = TRUE, !.ExternalPrefixes = {4},
                 !.LoadModes = {TRUE}, !.MaxLoadFailures = 2]}

\* Synchronous loads of which one fails, its request and those that share it too.
SharedFailure ==
  {[Plain EXCEPT !.ExternalPrefixes = {2}, !.LoadModes = {FALSE}, !.MaxLoadFailures = 1,
                 !.Aborts = FALSE]}

PlainConfigurations == {Plain}
=============================================================================
