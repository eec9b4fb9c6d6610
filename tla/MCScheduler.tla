------------------------------ MODULE MCScheduler ------------------------------
(***************************************************************************)
(* Two or three requests that share their first block, on so few blocks    *)
(* that they have to preempt each other, and the configurations of the     *)
(* runs.                                                                   *)
(***************************************************************************)
EXTENDS Scheduler

CONSTANTS r1, r2, r3

HashesOf(r) == CASE r = r1 -> <<"a", "ab", "abc">>
                 [] r = r2 -> <<"a", "ad", "ade">>
                 [] OTHER  -> <<"a", "ab", "abc">>

MCBlockHashes == [r \in Requests |-> HashesOf(r)]
MCPromptLen   == [r \in Requests |-> IF r = r1 THEN 3 ELSE 2]
MCMaxTokens   == [r \in Requests |-> 5]
MCPriority    == [r \in Requests |-> IF r = r1 THEN 2 ELSE IF r = r2 THEN 1 ELSE 3]

(* A second request whose prompt goes on for a full block after the shared *)
(* one.                                                                    *)
MCSharedPrompts == [r \in Requests |-> IF r = r1 THEN 3 ELSE 4]

(* Two prompts that need all three blocks each.                            *)
MCLongPrompts   == [r \in Requests |-> IF r = r2 THEN 2 ELSE 5]
MCLongMaxTokens == [r \in Requests |-> IF r = r2 THEN 4 ELSE 6]

(* Blocks of one token, for a chunk of a prompt that fills several blocks. *)
MCUnitHashes == [r \in Requests |-> IF r = r2 THEN <<"x", "xy", "xyz">>
    ELSE <<"a", "ab", "abc", "abcd", "abcde", "abcdef", "abcdefg">>]
MCUnitPrompts   == [r \in Requests |-> IF r = r2 THEN 1 ELSE 6]
MCUnitMaxTokens == [r \in Requests |-> IF r = r2 THEN 3 ELSE 7]

BlockSymmetry == Permutations(Blocks \ {NullBlock})
-----------------------------------------------------------------------------
Two   == {r1, r2}
Three == {r1, r2, r3}
Basic == [policy |-> "FCFS", window |-> 0, max_running |-> 2, long_prefill |-> 0,
          must_fit |-> TRUE, async_scheduling |-> FALSE, batch_queue_size |-> 1,
          decode_gap |-> 0, connector |-> "none", load_failures |-> FALSE,
          recompute_failures |-> FALSE, forced_resets |-> FALSE,
          sent |-> Two, aborts |-> {}]

(* One batch at a time, and one more in flight with AsyncScheduler.        *)
Sync  == [Basic EXCEPT !.sent = Three, !.aborts = Three, !.forced_resets = TRUE]
Async == [Basic EXCEPT !.async_scheduling = TRUE, !.batch_queue_size = 2]
Chunked == [Async EXCEPT !.aborts = Two, !.forced_resets = TRUE, !.long_prefill = 1]
Windowed == [Async EXCEPT !.window = 2, !.sent = Three, !.aborts = {r2}, !.forced_resets = TRUE]

(* Two pipeline stages, without and with AsyncScheduler.                   *)
Pipeline == [Basic EXCEPT !.batch_queue_size = 2, !.sent = Three, !.aborts = {r2}]
AsyncPipeline == [Basic EXCEPT !.async_scheduling = TRUE, !.batch_queue_size = 3,
                    !.decode_gap = 2, !.long_prefill = 1, !.sent = Three, !.aborts = {r2}]

(* KV connectors whose loads may fail.                                     *)
Remote     == [Basic EXCEPT !.connector = "async", !.load_failures = TRUE]
RemoteRecompute == [Remote EXCEPT !.recompute_failures = TRUE, !.aborts = Two,
                      !.async_scheduling = TRUE, !.batch_queue_size = 2]
RemoteFail == [Remote EXCEPT !.aborts = Two]
InStep     == [Basic EXCEPT !.connector = "sync", !.load_failures = TRUE]
InStepFail == [InStep EXCEPT !.sent = Three]
InStepRecompute == [InStep EXCEPT !.recompute_failures = TRUE]

(* Requests that cannot all be served at once.                             *)
Crowded == [Async EXCEPT !.must_fit = FALSE, !.long_prefill = 2, !.sent = Three,
              !.aborts = {r2}]
Prioritised == [Basic EXCEPT !.policy = "PRIORITY", !.max_running = 3, !.must_fit = FALSE,
                  !.long_prefill = 1, !.sent = Three, !.aborts = {r2}]
LoadsCompete == [Basic EXCEPT !.connector = "async", !.must_fit = FALSE, !.sent = Three]

SchedulerConfigs == {Sync, Chunked, Windowed, Pipeline, AsyncPipeline,
                     RemoteRecompute, RemoteFail, InStepFail, InStepRecompute}
ProgressConfigs  == {Crowded, LoadsCompete, Prioritised}

(* Configurations in which the code departs from what it documents.        *)
LoadFailureAbort  == {[InStep EXCEPT !.aborts = Two]}
LoadFailureShared == {InStep}
ResetPipeline     == {[Basic EXCEPT !.batch_queue_size = 2, !.forced_resets = TRUE]}
PriorityPreempt   == {[Basic EXCEPT !.policy = "PRIORITY", !.long_prefill = 2]}
LoadFailureAsync  == {[InStepRecompute EXCEPT !.async_scheduling = TRUE, !.batch_queue_size = 2]}
RecomputeAbort    == {[InStepRecompute EXCEPT !.aborts = Two]}
ResetTwice        == {[Basic EXCEPT !.async_scheduling = TRUE, !.batch_queue_size = 3,
                         !.decode_gap = 2, !.forced_resets = TRUE]}
PipelinePreempt   == {[Pipeline EXCEPT !.batch_queue_size = 3]}
StoppedWhileLoading == {[Basic EXCEPT !.batch_queue_size = 3, !.connector = "async",
                           !.aborts = {r2}]}
=============================================================================
