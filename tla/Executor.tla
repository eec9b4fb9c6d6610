-------------------------------- MODULE Executor --------------------------------
(***************************************************************************)
(* The multiprocess executor of one engine: the calls of the engine thread *)
(* on all workers (MultiprocExecutor.collective_rpc), the workers' busy    *)
(* loops, the futures through which answers come back, and the monitor     *)
(* thread that shuts the executor down when a worker process dies.         *)
(*                                                                         *)
(* The broadcast queue is used at the level of BroadcastQueue: calls[i] is *)
(* the kind of the i-th message put, taken[w] the number of messages that  *)
(* worker w got.  resp[w] is the response queue of worker w, pending[w]    *)
(* the outputs w has not put there yet: at most one without asynchronous   *)
(* scheduling, else the queue of its output thread.                        *)
(***************************************************************************)
EXTENDS Naturals, Sequences, FiniteSets

CONSTANTS Ranks,       \* the workers, numbered
          Chunks,      \* messages the broadcast queue holds
          RespChunks,  \* messages a response queue holds
          MaxCalls,    \* calls made in all
          Configs      \* the configurations: [depth, outputRank, async,
                       \* aggregate, spec, unsampled, faults], unsampled when
                       \* there are batches without sampling

ASSUME ConfigsAssumption ==
    /\ Ranks # {} /\ Ranks \subseteq Nat /\ Chunks > 0 /\ RespChunks > 0 /\ MaxCalls \in Nat
    /\ \A c \in Configs : c.outputRank \in Ranks /\ c.depth > 0

VARIABLES
    config,
    calls,    \* kinds of the calls put on the broadcast queue, in order
    engine,   \* the engine thread: pc, the kind of the call it is making, the
              \* call it waits for, whether the last batch's sampling is deferred
    futures,  \* futures_queue, oldest first: [call, asks]
    batches,  \* batch_queue, oldest first: the calls waited for, one per batch
    reading,  \* the future whose answers are being read, and from whom they came
    answers,  \* per call: "none", "ok" or "error"
    taken, pending, resp, alive,
    monitor,  \* "watch", "failed", "shut", "told"
    faults    \* exceptions, timeouts and deaths so far

engineVars == <<calls, engine, futures, batches, reading, answers>>
workerVars == <<taken, pending, alive>>
vars == <<config, engineVars, workerVars, resp, monitor, faults>>

Nothing == [call |-> 0, asks |-> {}, from |-> {}]

Init ==
    /\ config \in Configs
    /\ calls = <<>> /\ futures = <<>> /\ batches = <<>>
    /\ engine = [pc |-> "loop", kind |-> "utility", target |-> 0, deferred |-> FALSE]
    /\ reading = Nothing
    /\ answers = [c \in 1..MaxCalls |-> "none"]
    /\ taken = [w \in Ranks |-> 0]
    /\ pending = [w \in Ranks |-> <<>>]
    /\ resp = [w \in Ranks |-> <<>>]
    /\ alive = [w \in Ranks |-> TRUE]
    /\ monitor = "watch"
    /\ faults = 0

Fault == faults < config.faults /\ faults' = faults + 1

-----------------------------------------------------------------------------
(* The engine thread.                                                      *)

\* The workers whose answer a call wants: one, unless all are aggregated.
Asks(kind) ==
    IF kind = "utility" \/ (kind # "draft" /\ config.aggregate)
    THEN Ranks
    ELSE {config.outputRank}

\* rpc_broadcast_mq and response_mqs are dropped at the end of shutdown().
Dropped == monitor \in {"shut", "told"}

\* An exception in a step ends the engine; one in a utility call is returned
\* to the client that asked for it.
Raise(kind) ==
    engine' = [engine EXCEPT !.pc = IF kind = "utility" THEN "loop" ELSE "dead"]

\* collective_rpc begins: a failed executor takes no more calls.
Enter(kind) ==
    IF monitor = "watch"
    THEN engine' = [engine EXCEPT !.pc = "call", !.kind = kind]
    ELSE Raise(kind)

BlockOn(call) == engine' = [engine EXCEPT !.pc = "wait", !.target = call]

\* step_with_batch_queue schedules a batch while the batch queue has room.
StartBatch ==
    /\ engine.pc = "loop"
    /\ Len(batches) < config.depth
    /\ Len(calls) + (IF config.spec THEN 3 ELSE 2) <= MaxCalls
    /\ Enter("execute")
    /\ UNCHANGED <<calls, futures, batches, reading, answers>>

\* A client's utility call, on every worker.
StartUtility ==
    /\ engine.pc = "loop"
    /\ Len(calls) < MaxCalls
    /\ Enter("utility")
    /\ UNCHANGED <<calls, futures, batches, reading, answers>>

\* Nothing to schedule: wait for the oldest batch.
AwaitBatch ==
    /\ engine.pc = "loop"
    /\ batches # <<>>
    /\ BlockOn(Head(batches))
    /\ batches' = Tail(batches)
    /\ UNCHANGED <<calls, futures, reading, answers>>

\* The broadcast queue is looked up ...
LookUp ==
    /\ engine.pc = "call"
    /\ IF Dropped THEN Raise(engine.kind) ELSE engine' = [engine EXCEPT !.pc = "put"]
    /\ UNCHANGED <<calls, futures, batches, reading, answers>>

\* ... and the call is put on it once it has room.  The wait in acquire_write
\* has no timeout here, and no shutdown ends it.
RingFull == \E w \in Ranks : Len(calls) - taken[w] >= Chunks

Send ==
    /\ engine.pc = "put"
    /\ ~RingFull
    /\ calls' = Append(calls, engine.kind)
    /\ engine' = [engine EXCEPT !.pc = "sent"]
    /\ UNCHANGED <<futures, batches, reading, answers>>

\* The future of a batch joins the batch queue.  The oldest one is waited for when
\* the queue is full, unless it has been waited for already.
Enqueue ==
    LET queue == Append(batches, Len(calls))
    IN  IF Len(queue) = config.depth /\ ~engine.deferred
        THEN BlockOn(Head(queue)) /\ batches' = Tail(queue)
        ELSE engine' = [engine EXCEPT !.pc = "loop", !.deferred = FALSE] /\ batches' = queue

\* Calls whose answer is waited for at once.
AwaitedCall(kind) ==
    kind \in {"utility", "draft"} \/ (kind = "execute" /\ config.depth = 1)

\* The response queues are looked up and the future is made.  What follows
\* depends on the call.  EngineCore.step, with one batch at a time, waits for each
\* of its calls.  step_with_batch_queue calls the sampling of a batch at once, or
\* has none to call, or defers it until the batch before, whose output it needs,
\* has been waited for.
Collect ==
    /\ engine.pc = "sent"
    /\ UNCHANGED <<calls, reading, answers>>
    /\ IF Dropped /\ Asks(engine.kind) # Ranks
       THEN Raise(engine.kind) /\ UNCHANGED <<futures, batches>>
       ELSE LET asks == IF Dropped THEN {} ELSE Asks(engine.kind)
            IN  /\ futures' = Append(futures, [call |-> Len(calls), asks |-> asks])
                /\ \/ /\ engine.kind = "execute" /\ config.depth # 1
                      /\ \/ Enter("sample") /\ UNCHANGED batches
                         \/ config.unsampled /\ Enqueue
                         \/ /\ batches # <<>>
                            /\ batches' = Tail(batches)
                            /\ engine' = [engine EXCEPT !.pc = "wait",
                                             !.target = Head(batches), !.deferred = TRUE]
                   \/ engine.kind = "sample" /\ Enqueue
                   \/ AwaitedCall(engine.kind) /\ BlockOn(Len(calls)) /\ UNCHANGED batches

\* FutureWrapper.result drains the futures ahead of the one waited for.
Pop_Newest ==
    [future |-> futures[Len(futures)], rest |-> SubSeq(futures, 1, Len(futures) - 1)]
Pop ==
    [future |-> Head(futures), rest |-> Tail(futures)]

Drain ==
    /\ engine.pc = "wait"
    /\ answers[engine.target] = "none"
    /\ reading = Nothing
    /\ reading' = [call |-> Pop.future.call, asks |-> Pop.future.asks, from |-> {}]
    /\ futures' = Pop.rest
    /\ UNCHANGED <<calls, engine, batches, answers>>

Reading == reading.call # 0
Left == reading.asks \ reading.from
Due == CHOOSE w \in Left : \A v \in Left : w <= v

Complete(outcome) ==
    /\ answers' = [answers EXCEPT ![reading.call] = outcome]
    /\ reading' = Nothing

\* get_response reads the queues in rank order and stops at the first failure.
ReadAnswer ==
    /\ Reading
    /\ Left # {}
    /\ resp[Due] # <<>>
    /\ resp' = [resp EXCEPT ![Due] = Tail(@)]
    /\ IF Head(resp[Due]).ok
       THEN reading' = [reading EXCEPT !.from = @ \union {Due}] /\ UNCHANGED answers
       ELSE Complete("error")
    /\ UNCHANGED <<calls, engine, futures, batches>>

ReadAll ==
    /\ Reading
    /\ Left = {}
    /\ Complete("ok")
    /\ UNCHANGED <<calls, engine, futures, batches>>

\* The response queue was shut down while the read waited.
Cancelled_Never ==
    FALSE
Cancelled ==
    monitor \in {"shut", "told"}

ReadCancelled ==
    /\ Reading
    /\ Left # {}
    /\ resp[Due] = <<>>
    /\ Cancelled
    /\ Complete("error")
    /\ UNCHANGED <<calls, engine, futures, batches>>

\* The deadline of the call passes before the answer is there.
ReadTimeout ==
    /\ Reading
    /\ Left # {}
    /\ resp[Due] = <<>>
    /\ calls[reading.call] # "draft"
    /\ Fault
    /\ Complete("error")
    /\ UNCHANGED <<calls, engine, futures, batches>>

\* The execute_model call of a batch.
ExecuteOf(sample) ==
    CHOOSE c \in 1..sample :
        /\ calls[c] = "execute"
        /\ \A d \in (c + 1)..sample : calls[d] # "execute"

Failed(call) ==
    \/ answers[call] = "error"
    \/ calls[call] = "sample" /\ answers[ExecuteOf(call)] = "error"

\* The call waited for is done.  After the execution of its batch, step calls the
\* sampling if there is one.
Return ==
    /\ engine.pc = "wait"
    /\ answers[engine.target] # "none"
    /\ LET kind == calls[engine.target]
       IN  IF Failed(engine.target)
           THEN Raise(kind)
           ELSE \/ /\ kind # "draft" /\ engine.deferred
                   /\ Enter(IF config.spec THEN "draft" ELSE "sample")
                \/ kind = "draft" /\ Enter("sample")
                \/ kind = "execute" /\ config.depth = 1 /\ Enter("sample")
                \/ /\ kind # "draft" /\ ~engine.deferred
                   /\ kind = "execute" => config.unsampled
                   /\ engine' = [engine EXCEPT !.pc = "loop"]
    /\ UNCHANGED <<calls, futures, batches, reading, answers>>

\* The engine handles the message of executor_fail_callback.
ExecutorFailed ==
    /\ engine.pc = "loop"
    /\ monitor = "told"
    /\ engine' = [engine EXCEPT !.pc = "dead"]
    /\ UNCHANGED <<calls, futures, batches, reading, answers>>

-----------------------------------------------------------------------------
(* The workers and the monitor thread.                                     *)

\* worker_busy_loop: the next message is taken and the method run; its output,
\* or the exception it raised, is handed over if the call wants it.
Work(w) ==
    /\ alive[w]
    /\ taken[w] < Len(calls)
    /\ config.async \/ pending[w] = <<>>
    /\ taken' = [taken EXCEPT ![w] = @ + 1]
    /\ \E ok \in BOOLEAN :
          /\ IF ok THEN UNCHANGED faults ELSE Fault
          /\ pending' = IF w \in Asks(calls[taken'[w]])
                        THEN [pending EXCEPT ![w] =
                                 Append(@, [call |-> taken'[w], ok |-> ok])]
                        ELSE pending
    /\ UNCHANGED <<resp, alive, monitor>>

\* enqueue_output, by the busy loop itself or by its output thread.
Reply(w) ==
    /\ alive[w]
    /\ pending[w] # <<>>
    /\ Len(resp[w]) < RespChunks
    /\ resp' = [resp EXCEPT ![w] = Append(@, Head(pending[w]))]
    /\ pending' = [pending EXCEPT ![w] = Tail(@)]
    /\ UNCHANGED <<taken, alive, monitor, faults>>

Die(w) ==
    /\ alive[w]
    /\ Fault
    /\ alive' = [alive EXCEPT ![w] = FALSE]
    /\ UNCHANGED <<taken, pending, resp, monitor>>

Monitor_Silent ==
    /\ \/ /\ monitor = "watch"
          /\ \E w \in Ranks : ~alive[w]
          /\ monitor' = "failed"
          /\ UNCHANGED alive
       \/ /\ monitor = "failed"
          /\ monitor' = "shut"
          /\ alive' = [w \in Ranks |-> FALSE]
    /\ UNCHANGED <<taken, pending, resp, faults>>

\* The monitor thread: marks the executor failed, terminates every worker and
\* shuts the queues down, and calls the engine back.
Monitor ==
    /\ \/ /\ monitor = "watch"
          /\ \E w \in Ranks : ~alive[w]
          /\ monitor' = "failed"
          /\ UNCHANGED alive
       \/ /\ monitor = "failed"
          /\ monitor' = "shut"
          /\ alive' = [w \in Ranks |-> FALSE]
       \/ /\ monitor = "shut"
          /\ monitor' = "told"
          /\ UNCHANGED alive
    /\ UNCHANGED <<taken, pending, resp, faults>>

-----------------------------------------------------------------------------
\* The steps of the engine thread that are not inputs from outside.
EngineStep ==
    \/ /\ AwaitBatch \/ LookUp \/ Send \/ Collect \/ Drain \/ ReadAll \/ ReadCancelled
          \/ Return \/ ExecutorFailed
       /\ UNCHANGED <<resp, faults>>
    \/ ReadAnswer /\ UNCHANGED faults

EngineNext ==
    \/ EngineStep
    \/ (StartBatch \/ StartUtility) /\ UNCHANGED <<resp, faults>>
    \/ ReadTimeout /\ UNCHANGED resp

Next ==
    /\ UNCHANGED config
    /\ \/ EngineNext /\ UNCHANGED <<workerVars, monitor>>
       \/ \E w \in Ranks : (Work(w) \/ Reply(w) \/ Die(w)) /\ UNCHANGED engineVars
       \/ Monitor /\ UNCHANGED engineVars

Spec == Init /\ [][Next]_vars

\* The engine thread, the threads of a live worker and the monitor thread all
\* run; requests, exceptions, timeouts and deaths need not come.
Fairness ==
    /\ WF_vars(EngineStep /\ UNCHANGED <<config, workerVars, monitor>>)
    /\ \A w \in Ranks :
          /\ WF_vars(Work(w) /\ UNCHANGED <<config, engineVars>>)
          /\ WF_vars(Reply(w) /\ UNCHANGED <<config, engineVars>>)
    /\ WF_vars(Monitor /\ UNCHANGED <<config, engineVars>>)

FairSpec == Spec /\ Fairness

-----------------------------------------------------------------------------
(* Properties.                                                             *)

\* The answer about to be read belongs to the call it is read for.
Fresh ==
    Reading /\ Left # {} /\ resp[Due] # <<>>
        => Head(resp[Due]).call = reading.call

\* Whatever a future reads is an answer to its own call, as long as no call has
\* failed: with several batches in flight, calls for one rank between calls for
\* all, and sampling deferred, draining the futures in order never hands a call
\* the answer of another (FutureWrapper.result, collective_rpc).
OwnAnswersUntilFailure ==
    (\A c \in 1..Len(calls) : answers[c] # "error") => Fresh

\* The engine waits for room that a dead worker will not make.
Stuck == engine.pc = "put" /\ RingFull /\ \E w \in Ranks : ~alive[w]

\* The engine thread always comes back from a call, or the engine ends: a slow
\* worker, a failed one, one that dies or full queues do not block it for good.
\* The exception is a worker that dies when the broadcast queue is full.
CallsReturn == []<>(engine.pc \in {"loop", "dead"} \/ Stuck)

\* When a worker process dies, the engine ends: through a call that fails, a
\* read that is cancelled or the callback that finds it idle, with the same
\* exception.
DeathEndsEngine == (\E w \in Ranks : ~alive[w]) ~> (engine.pc = "dead" \/ Stuck)
================================================================================
