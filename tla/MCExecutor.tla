------------------------------ MODULE MCExecutor ------------------------------
(***************************************************************************)
(* The executor with two workers.                                          *)
(***************************************************************************)
EXTENDS Executor

\* One batch at a time, answers from the first rank.
Single == [depth |-> 1, outputRank |-> 0, async |-> FALSE, aggregate |-> FALSE,
           spec |-> FALSE, unsampled |-> FALSE, faults |-> 2]

\* The same with batches that need no sampling.
Pooling == [Single EXCEPT !.unsampled = TRUE, !.faults = 1]

\* Two batches in flight, some without sampling, and answers from the last rank
\* (pipeline parallel).
Pipelined == [Single EXCEPT !.depth = 2, !.outputRank = 1,
                            !.unsampled = TRUE, !.faults = 1]

\* Two batches in flight and outputs handed over by the workers' own threads.
Async == [Single EXCEPT !.depth = 2, !.async = TRUE, !.spec = TRUE, !.faults = 1]

\* Every rank answers every batch (a KV connector's outputs are aggregated).
Aggregated == [Single EXCEPT !.depth = 2, !.aggregate = TRUE, !.faults = 1]

ExecutorConfigs == {Single, Pooling, Pipelined, Async, Aggregated}
================================================================================
