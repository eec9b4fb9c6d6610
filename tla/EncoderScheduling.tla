--------------------------- MODULE EncoderScheduling ---------------------------
(***************************************************************************)
(* How schedule() and update_from_output() of scheduler.py use the encoder *)
(* cache manager, and how the model runner follows with the cache that     *)
(* holds the encoder outputs.                                              *)
(*                                                                         *)
(* schedule() is one call of the engine's thread; it is cut here into one  *)
(* step per request.  KV cache blocks are left to Scheduler: allocate_slots *)
(* may find no block at any time, a bounded number of times, and a waiting *)
(* request may find any part of its prompt in the prefix cache.  A request *)
(* is over when its prompt is computed and the output has come back.       *)
(***************************************************************************)
EXTENDS EncoderCacheManager

CONSTANTS PromptLen,   \* PromptLen[r]: number of tokens of the prompt
          Priority,    \* Priority[r]: a larger value is preempted first
          Hits,        \* lengths of a prefix that may be found in the KV cache
          Configs      \* scheduler configurations, one of which is used

(***************************************************************************)
(* A configuration has the scheduling policy; the budgets of a step in     *)
(* tokens and in embeddings; max_num_running_reqs as running;              *)
(* disable_chunked_mm_input as whole; shift, 1 with an EAGLE drafter; the  *)
(* batches that may be in flight (batches); the requests that arrive late; *)
(* and a bound on faults: failed block allocations, aborts and resets.     *)
(***************************************************************************)
ASSUME ConfigsAssumption ==
    /\ IsFiniteSet(Requests)
    /\ \A r \in Requests : PromptLen[r] \in Nat /\ Priority[r] \in Int
    /\ Hits \subseteq Nat
    /\ \A c \in Configs :
         /\ {c.tokens, c.compute, c.running, c.shift, c.batches, c.faults} \subseteq Nat
         /\ c.late \subseteq Requests
         /\ \A h \in Hashes : NumEmbeds(h) <= c.compute

VARIABLES
    config,
    m,          \* the encoder cache manager
    status,     \* status[r]: "new", "waiting", "running" or "finished"
    computed,   \* computed[r]: num_computed_tokens
    running,    \* the running requests
    waiting,    \* the waiting requests
    step,       \* the local state of schedule()
    queue,      \* what was sent to the worker and is not executed
    outputs,    \* batches that were executed and not processed
    worker,     \* hashes of the outputs in the cache of the worker
    faults      \* number of faults so far

vars == <<config, m, status, computed, running, waiting, step, queue, outputs,
          worker, faults>>
requests == <<status, running, waiting>>

NoTrial == [n |-> 0]
Idle == [at |-> "idle", index |-> 1, tokens |-> 0, compute |-> 0, batch |-> <<>>,
         preempted |-> FALSE, trial |-> NoTrial]

Init ==
    /\ config \in Configs
    /\ m = EmptyCache
    /\ status = [r \in Requests |-> IF r \in config.late THEN "new" ELSE "waiting"]
    /\ computed = [r \in Requests |-> 0]
    /\ running = <<>>
    /\ LET S == Requests \ config.late IN
       waiting \in {s \in [1..Cardinality(S) -> S] : IsInjective(s)}
    /\ step = Idle
    /\ queue = <<>>
    /\ outputs = <<>>
    /\ worker = {}
    /\ faults = 0

(***************************************************************************)
(* _try_schedule_encoder_inputs                                            *)
(***************************************************************************)
\* get_mm_features_in_window: the inputs of r that overlap [start, end).
InWindow(r, start, end) ==
    {i \in DOMAIN Features[r] :
        /\ Features[r][i].offset + Features[r][i].length > start
        /\ Features[r][i].offset < end}

\* get_embeds_indices_in_range is empty for the tokens [start, end).
NoEmbeds(f, start, end) == \A x \in f.embeds : f.offset + x \notin start..(end - 1)

\* The input is left for a later step; the tokens before it may be computed.
StopBefore(t, f, start) ==
    [t EXCEPT !.n = LET before == f.offset - start - config.shift
                    IN  IF before > 0 THEN before ELSE 0,
              !.stop = TRUE]

\* One pass of the loop over the inputs, on what is known so far: input i of r.
TryInput(t, r, i, start) ==
    LET f == Features[r][i]
        end == start + t.n
        scheduled == InputEmbeds(r, t.inputs)
    IN  IF t.stop \/ f.hash \in HashesOf(r, t.inputs) THEN t
        ELSE IF IsCached(t.m, f.hash) THEN [t EXCEPT !.m = UseCached(@, r, i)]
        ELSE IF config.whole /\ start < f.offset /\ end < f.offset + f.length
             THEN StopBefore(t, f, start)
        ELSE IF ~CanAllocate(t.m, f.hash, t.compute, scheduled) THEN StopBefore(t, f, start)
        ELSE IF NoEmbeds(f, start, end)
             THEN [t EXCEPT !.m = Reclaim(@, f.hash, scheduled)]
        ELSE [t EXCEPT !.m = Reclaim(@, f.hash, scheduled),
                       !.inputs = @ \union {i},
                       !.compute = @ - NumEmbeds(f.hash)]

\* The manager, the inputs to compute and the tokens left of n tokens of r,
\* after each input.
Tries(r, start, n) ==
    LET window == IF n = 0 THEN {} ELSE InWindow(r, start, start + n + config.shift)
        t[k \in 0..Len(Features[r])] ==
          IF k = 0 THEN [m |-> m, n |-> n, inputs |-> {}, compute |-> step.compute,
                         stop |-> FALSE]
          ELSE IF k \in window THEN TryInput(t[k - 1], r, k, start) ELSE t[k - 1]
    IN  t
TrySchedule(r, start, n) == Tries(r, start, n)[Len(Features[r])]

\* What is kept while allocate_slots is tried for r.
Trial(r, start, t) ==
    [req |-> r, start |-> start, n |-> t.n, inputs |-> t.inputs, compute |-> t.compute]

(***************************************************************************)
(* schedule                                                                *)
(***************************************************************************)
Fault == faults < config.faults /\ faults' = faults + 1

MinOf(a, b) == IF a <= b THEN a ELSE b

\* A step starts when a batch may be sent and some request is not finished.
StartStep ==
    /\ step = Idle
    /\ Len(queue) + Len(outputs) < config.batches
    /\ \A k \in DOMAIN queue : ~queue[k].reset
    /\ running # <<>> \/ waiting # <<>>
    /\ step' = [Idle EXCEPT !.at = "running", !.tokens = config.tokens,
                            !.compute = config.compute]
    /\ UNCHANGED <<config, m, requests, computed, queue, outputs, worker, faults>>

\* The next running request: its encoder inputs are tried.
TryRunning ==
    /\ step.at = "running" /\ step.trial = NoTrial
    /\ step.index <= Len(running) /\ step.tokens > 0
    /\ LET r == running[step.index]
           n == MinOf(PromptLen[r] - computed[r], step.tokens)
       IN \E t \in {TrySchedule(r, computed[r], n)} :
           /\ m' = t.m
           /\ step' = IF t.n = 0 THEN [step EXCEPT !.index = @ + 1]
                      ELSE [step EXCEPT !.trial = Trial(r, computed[r], t)]
    /\ UNCHANGED <<config, requests, computed, queue, outputs, worker, faults>>

\* The request has its blocks: its inputs are allocated, it joins the batch.
Scheduled(t) ==
    /\ m' = Allocate(m, t.req, t.inputs)
    /\ step' = [step EXCEPT
                  !.batch = Append(@, [req |-> t.req, start |-> t.start, n |-> t.n,
                                       inputs |-> t.inputs]),
                  !.tokens = @ - t.n,
                  !.compute = IF t.inputs = {} THEN @ ELSE t.compute,
                  !.index = IF step.at = "running" THEN @ + 1 ELSE @,
                  !.trial = NoTrial]

AdmitRunning ==
    /\ step.at = "running" /\ step.trial # NoTrial
    /\ Scheduled(step.trial)
    /\ UNCHANGED <<config, requests, computed, queue, outputs, worker, faults>>

\* The request that allocate_slots takes the blocks from.
Victim ==
    IF config.policy = "PRIORITY"
    THEN CHOOSE r \in Range(running) :
            \A s \in Range(running) : Priority[r] >= Priority[s]
    ELSE running[Len(running)]

\* There are no blocks: a request is preempted, and taken back out of the
\* batch if it was scheduled in this step.
Preempt ==
    /\ step.at = "running" /\ step.trial # NoTrial
    /\ Fault
    /\ LET v == Victim
           taken == {x \in Range(step.batch) : x.req = v}
           mine == CHOOSE x \in taken : TRUE
           back == IF taken = {} THEN step
                   ELSE [step EXCEPT
                           !.batch = Keep(@, Range(@) \ taken),
                           !.tokens = @ + mine.n,
                           !.compute = @ + InputEmbeds(v, mine.inputs),
                           !.index = @ - 1]
       IN  /\ m' = FreeAll(m, v)
           /\ status' = [status EXCEPT ![v] = "waiting"]
           /\ computed' = [computed EXCEPT ![v] = 0]
           /\ running' = IF config.policy = "PRIORITY" THEN Without(running, v)
                         ELSE SubSeq(running, 1, Len(running) - 1)
           /\ waiting' = <<v>> \o waiting
           /\ step' = IF v = step.trial.req
                      THEN [back EXCEPT !.preempted = TRUE, !.at = "output",
                                        !.trial = NoTrial]
                      ELSE [back EXCEPT !.preempted = TRUE]
    /\ UNCHANGED <<config, queue, outputs, worker>>

\* The waiting requests are looked at unless a request was preempted.
EndRunning ==
    /\ step.at = "running" /\ step.trial = NoTrial
    /\ step.index > Len(running) \/ step.tokens = 0
    /\ step' = [step EXCEPT !.at = IF step.preempted THEN "output" ELSE "waiting"]
    /\ UNCHANGED <<config, m, requests, computed, queue, outputs, worker, faults>>

\* The waiting queue is ordered by arrival, or by priority.
First ==
    IF config.policy = "PRIORITY"
    THEN CHOOSE r \in Range(waiting) :
            \A s \in Range(waiting) : Priority[r] <= Priority[s]
    ELSE Head(waiting)

\* The first waiting request, of which a prefix may be in the KV cache.
TryWaiting ==
    /\ step.at = "waiting" /\ step.trial = NoTrial
    /\ waiting # <<>> /\ step.tokens > 0 /\ Len(running) < config.running
    /\ \E start \in {k \in Hits : k < PromptLen[First]} :
         LET r == First
             n == MinOf(PromptLen[r] - start, step.tokens)
         IN \E t \in {TrySchedule(r, start, n)} :
             /\ m' = t.m
             /\ step' = IF t.n = 0 THEN [step EXCEPT !.at = "output"]
                        ELSE [step EXCEPT !.trial = Trial(r, start, t)]
    /\ UNCHANGED <<config, requests, computed, queue, outputs, worker, faults>>

AdmitWaiting ==
    /\ step.at = "waiting" /\ step.trial # NoTrial
    /\ Scheduled(step.trial)
    /\ LET r == step.trial.req IN
       /\ status' = [status EXCEPT ![r] = "running"]
       /\ computed' = [computed EXCEPT ![r] = step.trial.start]
       /\ running' = Append(running, r)
       /\ waiting' = Without(waiting, r)
    /\ UNCHANGED <<config, queue, outputs, worker, faults>>

\* There are no blocks: the references taken while trying are given back.
RefuseWaiting_Keeps ==
    /\ step.at = "waiting" /\ step.trial # NoTrial
    /\ Fault
    /\ step' = [step EXCEPT !.at = "output", !.trial = NoTrial]
    /\ UNCHANGED <<config, m, requests, computed, queue, outputs, worker>>
RefuseWaiting ==
    /\ step.at = "waiting" /\ step.trial # NoTrial
    /\ Fault
    /\ m' = FreeAll(m, step.trial.req)
    /\ step' = [step EXCEPT !.at = "output", !.trial = NoTrial]
    /\ UNCHANGED <<config, requests, computed, queue, outputs, worker>>

EndWaiting ==
    /\ step.at = "waiting" /\ step.trial = NoTrial
    /\ waiting = <<>> \/ step.tokens = 0 \/ Len(running) = config.running
    /\ step' = [step EXCEPT !.at = "output"]
    /\ UNCHANGED <<config, m, requests, computed, queue, outputs, worker, faults>>

\* The tokens that the batch computes of r.
Advance(r) ==
    LET mine == {x \in Range(step.batch) : x.req = r} IN
    IF mine = {} THEN 0 ELSE (CHOOSE x \in mine : TRUE).n

\* The batch goes to the worker, with the hashes evicted since the last one.
Output ==
    /\ step.at = "output"
    /\ queue' = Append(queue, [batch |-> step.batch, freed |-> m.freed, reset |-> FALSE])
    /\ m' = TakeFreed(m)
    /\ computed' = [r \in Requests |-> computed[r] + Advance(r)]
    /\ step' = Idle
    /\ UNCHANGED <<config, requests, outputs, worker, faults>>

(***************************************************************************)
(* The model runner.                                                       *)
(***************************************************************************)
\* _execute_mm_encoder: the outputs computed for a batch.
Computes(out) == UNION {HashesOf(x.req, x.inputs) : x \in Range(out.batch)}

\* Evicted outputs leave the cache before the new ones are stored.
Stored(out) == (worker \ out.freed) \union Computes(out)

\* _gather_mm_embeddings, for the model and once more, one token further,
\* for an EAGLE drafter.
Gathers(x) ==
    HashesOf(x.req, {i \in DOMAIN Features[x.req] :
        \E d \in 0..config.shift :
          ~NoEmbeds(Features[x.req][i], x.start + d, x.start + d + x.n)})
Gathered(out) == UNION {Gathers(x) : x \in Range(out.batch)}

Execute ==
    /\ queue # <<>>
    /\ worker' = Stored(Head(queue))
    /\ queue' = Tail(queue)
    /\ outputs' = IF Head(queue).reset THEN outputs
                  ELSE Append(outputs, Head(queue).batch)
    /\ UNCHANGED <<config, m, requests, computed, step, faults>>

(***************************************************************************)
(* add_request, update_from_output, finish_requests and                    *)
(* reset_encoder_cache, which run between two calls of schedule().         *)
(***************************************************************************)
AddRequest(r) ==
    /\ step = Idle /\ status[r] = "new"
    /\ status' = [status EXCEPT ![r] = "waiting"]
    /\ waiting' = Append(waiting, r)
    /\ UNCHANGED <<config, m, computed, running, step, queue, outputs, worker, faults>>

\* _free_encoder_inputs: the inputs that are in the KV cache completely.
Processed(x, r) ==
    {i \in x.ids[r] : Features[r][i].offset + Features[r][i].length <= computed[r]}

\* The output of the last token of the prompt ends the request.
Ends(x) == x.start + x.n = PromptLen[x.req]

\* The manager after each request of a batch.
Updates(batch) ==
    LET u[k \in 0..Len(batch)] ==
          IF k = 0 THEN m
          ELSE LET x == batch[k]
                   a == u[k - 1]
               IN  IF status[x.req] = "finished" THEN a
                   ELSE FreeInputs(a, x.req, IF Ends(x) THEN a.ids[x.req]
                                             ELSE Processed(a, x.req))
    IN  u

UpdateFromOutput ==
    /\ step = Idle /\ outputs # <<>>
    /\ LET b == Head(outputs)
           over == {x.req : x \in {y \in Range(b) : status[y.req] # "finished" /\ Ends(y)}}
       IN  /\ m' = Updates(b)[Len(b)]
           /\ status' = [r \in Requests |-> IF r \in over THEN "finished" ELSE status[r]]
           /\ running' = Keep(running, Requests \ over)
           /\ waiting' = Keep(waiting, Requests \ over)
    /\ outputs' = Tail(outputs)
    /\ UNCHANGED <<config, computed, step, queue, worker, faults>>

Abort(r) ==
    /\ step = Idle /\ status[r] \in {"waiting", "running"}
    /\ Fault
    /\ m' = FreeAll(m, r)
    /\ status' = [status EXCEPT ![r] = "finished"]
    /\ running' = Without(running, r)
    /\ waiting' = Without(waiting, r)
    /\ UNCHANGED <<config, computed, step, queue, outputs, worker>>

\* The worker clears its cache after the batches sent before; the engine waits.
ResetEncoderCache ==
    /\ step = Idle
    /\ Fault
    /\ m' = EmptyCache
    /\ queue' = Append(queue, [batch |-> <<>>, freed |-> Hashes, reset |-> TRUE])
    /\ UNCHANGED <<config, requests, computed, step, outputs, worker>>

Schedule ==
    \/ StartStep \/ TryRunning \/ AdmitRunning \/ EndRunning
    \/ TryWaiting \/ AdmitWaiting \/ EndWaiting \/ Output

Next ==
    \/ Schedule \/ Preempt \/ RefuseWaiting
    \/ Execute \/ UpdateFromOutput
    \/ \E r \in Requests : AddRequest(r) \/ Abort(r)
    \/ ResetEncoderCache

Spec == Init /\ [][Next]_vars

(***************************************************************************)
(* The engine's loop and the worker keep running.  No fairness is asked of *)
(* faults.                                                                 *)
(***************************************************************************)
Fairness == WF_vars(Schedule) /\ WF_vars(Execute) /\ WF_vars(UpdateFromOutput)
FairSpec == Spec /\ Fairness

(***************************************************************************)
(* Properties                                                              *)
(***************************************************************************)
\* The counters agree with the entries, and the list of freeable entries holds
\* each entry without references once: can_allocate never runs out of entries
\* to evict, and the assertions of allocate hold.
SlotsMatchEntries ==
    LET entries == DOMAIN m.cached
        used == {h \in entries : m.cached[h] # {}}
    IN  /\ m.free = CacheSize - Embeds(entries) /\ m.free >= 0
        /\ m.reclaimable = CacheSize - Embeds(used)
        /\ Range(m.freeable) = entries \ used
        /\ Len(m.freeable) = Cardinality(entries \ used)

\* Between two steps only running requests keep entries from being evicted:
\* what a request took while it was tried, preempted, aborted or finished is
\* given back (schedule, _preempt_request, _free_request).
ReferencesReturned ==
    step = Idle => \A r \in Requests : status[r] # "running" =>
        m.ids[r] = {} /\ \A h \in DOMAIN m.cached : r \notin m.cached[h]

\* The worker finds every encoder output it reads: the assertion "Encoder
\* cache miss" of _gather_mm_embeddings holds.
WorkerHit == queue # <<>> => Gathered(Head(queue)) \subseteq Stored(Head(queue))

\* What the worker's cache holds after the first n batches of the queue: what
\* it holds or computes and no later one of these batches frees.
Following(n) ==
    {h \in Hashes : \E k \in 0..n :
        /\ IF k = 0 THEN h \in worker ELSE h \in Computes(queue[k])
        /\ \A j \in (k + 1)..n : h \notin queue[j].freed}

\* Once the worker has executed what it was sent, its cache holds exactly the
\* entries of the manager, so that the manager's size bounds the worker's
\* memory and every hit of the manager is one of the worker.
CachesAgree == step = Idle => DOMAIN m.cached = Following(Len(queue))

\* Every request ends: requests do not wait for each other's cache space for
\* ever, and an input that has to wait for space is computed later.
AllServed == <>[](running = <<>> /\ waiting = <<>>)
================================================================================
