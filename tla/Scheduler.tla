------------------------------- MODULE Scheduler -------------------------------
(***************************************************************************)
(* The scheduler (sched/scheduler.py, sched/async_scheduler.py) on top of  *)
(* the KV cache manager of KVCache.tla, driven by the engine core loop     *)
(* (engine/core.py) and answered by the workers.                           *)
(*                                                                         *)
(* The scheduler runs in one thread.  schedule() is cut into the           *)
(* iterations of its two loops, one action each, under the variable phase; *)
(* everything else that changes the scheduler happens in phase "idle".     *)
(* Batches that are scheduled and not yet processed wait in batch_queue.   *)
(*                                                                         *)
(* Two ghost variables say what the workers do with the KV cache: data     *)
(* holds what is in every block once all scheduled batches have run (they  *)
(* run in the order they were scheduled), and tainted the requests that    *)
(* got an output token computed from a block that did not hold their own   *)
(* prefix, or computed for another position than the one it is put at.     *)
(***************************************************************************)
EXTENDS KVCache, SequencesExt, FiniteSetsExt

CONSTANTS PromptLen,      \* num_prompt_tokens of every request
          MaxTokens,      \* num_prompt_tokens + max_tokens of every request
          Priority,       \* the order of requests by (priority, arrival_time)
          Configs,        \* the configurations to consider, see Config
          None            \* no request

(***************************************************************************)
(* The settings of an engine, and what its clients and its KV connector    *)
(* may do.                                                                 *)
(***************************************************************************)
Config ==
    [policy             : {"FCFS", "PRIORITY"},
     window             : Nat,       \* sliding_window, 0 for full attention
     max_running        : Nat \ {0}, \* max_num_running_reqs
     long_prefill       : Nat,       \* long_prefill_token_threshold, 0 for none
     must_fit           : BOOLEAN,   \* scheduler_reserve_full_isl
     async_scheduling   : BOOLEAN,   \* AsyncScheduler rather than Scheduler
     batch_queue_size   : Nat \ {0}, \* max_concurrent_batches
     decode_gap         : Nat,       \* pp_size with AsyncScheduler and the V2 model
                                     \* runner, else 0
     connector          : {"none", "sync", "async"}, \* how a KV connector loads
     load_failures      : BOOLEAN,   \* whether its loads can fail
     recompute_failures : BOOLEAN,   \* kv_load_failure_policy is "recompute"
     forced_resets      : BOOLEAN,   \* whether reset_prefix_cache may preempt all
     sent               : SUBSET Requests,  \* the requests that come
     aborts             : SUBSET Requests]  \* those that their clients may abort

ASSUME SchedulerAssumption ==
    /\ PromptLen \in [Requests -> Nat \ {0}] /\ MaxTokens \in [Requests -> Nat]
    /\ \A r \in Requests : /\ PromptLen[r] < MaxTokens[r]
                           /\ MaxTokens[r] <= MaxModelLen
                           /\ cdiv(MaxTokens[r], BlockSize) <= Len(BlockHashes[r])
    /\ Priority \in [Requests -> Nat]
    /\ \A r, s \in Requests : Priority[r] = Priority[s] => r = s
    /\ Configs \subseteq Config
    /\ \A c \in Configs : c.decode_gap > 0 =>
          c.async_scheduling /\ c.batch_queue_size = c.decode_gap + 1
    /\ None \notin Requests

VARIABLES config,               \* one of Configs, fixed when the engine starts
          kv,                   \* kv_cache_manager
          status, tokens, computed, \* of every request: status, num_tokens and
                                \* num_computed_tokens
          preempted,            \* the requests with num_preemptions > 0
          placeholders, to_discard, \* num_output_placeholders and
                                \* async_tokens_to_discard
          waiting, skipped_waiting, running,
          inflight_prefills, finished_req_ids,
          finished_recving, failed_recving, \* finished_ and failed_recving_kv_req_ids
          phase, step,          \* where schedule() is, and its local variables
          batch_queue,          \* scheduled batches, the oldest first
          cooldown,             \* next_decode_eligible_step - current_step, at least 0
          loading,              \* loads that the workers have begun
          data, tainted         \* ghosts, see above

reqVars   == <<status, tokens, computed, preempted, placeholders, to_discard>>
queueVars == <<waiting, skipped_waiting, running>>
recvVars  == <<finished_recving, failed_recving, loading>>
ghosts    == <<data, tainted>>
vars == <<config, kv, reqVars, queueVars, inflight_prefills, finished_req_ids, recvVars,
          phase, step, batch_queue, cooldown, ghosts>>

Statuses == {"NEW", "WAITING", "WAITING_FOR_REMOTE_KVS", "RUNNING", "PREEMPTED",
             "FINISHED", "DELETED"}
Live(r) == status[r] \in {"WAITING", "WAITING_FOR_REMOTE_KVS", "RUNNING", "PREEMPTED"}

NoData == [hash |-> NoHash, n |-> 0]
NoStep == [budget |-> 0, idx |-> 1, req |-> None, new |-> 0, scheduled |-> <<>>,
           preempted |-> FALSE, skipped |-> <<>>, loads |-> {}]

Init ==
    /\ config \in Configs
    /\ kv = InitCache(config.window)
    /\ status = [r \in Requests |-> "NEW"]
    /\ tokens = PromptLen
    /\ computed = [r \in Requests |-> 0]
    /\ placeholders = [r \in Requests |-> 0]
    /\ to_discard = [r \in Requests |-> 0]
    /\ waiting = <<>> /\ skipped_waiting = <<>> /\ running = <<>>
    /\ preempted = {} /\ inflight_prefills = {} /\ finished_req_ids = {}
    /\ finished_recving = {} /\ failed_recving = {} /\ loading = {}
    /\ phase = "idle" /\ step = NoStep
    /\ batch_queue = <<>> /\ cooldown = [r \in Requests |-> 0]
    /\ data = [b \in Blocks |-> NoData] /\ tainted = {}

-----------------------------------------------------------------------------
(* The request queues (request_queue.py): a FIFO, or a heap by priority    *)
(* whose sequence is the order in which it pops.                           *)

Insert(q, r) == SelectSeq(q, LAMBDA s : Priority[s] < Priority[r]) \o <<r>>
                  \o SelectSeq(q, LAMBDA s : Priority[s] > Priority[r])
add_request(q, r) == IF config.policy = "FCFS" THEN Append(q, r) ELSE Insert(q, r)
prepend_request(q, r) == IF config.policy = "FCFS" THEN <<r>> \o q ELSE Insert(q, r)
prepend_requests_FirstOnly(q, rs) == SelectSeq(rs, LAMBDA r : r = rs[1]) \o q
prepend_requests(q, rs) ==
    IF config.policy = "FCFS" THEN rs \o q ELSE FoldLeft(Insert, q, rs)
remove_requests(q, S) == SelectSeq(q, LAMBDA r : r \notin S)

(* _select_waiting_queue_for_scheduling, then peek_request.                *)
FromSkipped ==
    /\ skipped_waiting # <<>>
    /\ \/ config.policy = "FCFS" \/ waiting = <<>>
       \/ Priority[Head(waiting)] > Priority[Head(skipped_waiting)]
NextWaiting == IF FromSkipped THEN Head(skipped_waiting) ELSE Head(waiting)

PopWaiting ==
    IF FromSkipped
    THEN skipped_waiting' = Tail(skipped_waiting) /\ UNCHANGED waiting
    ELSE waiting' = Tail(waiting) /\ UNCHANGED skipped_waiting

has_requests ==
    \/ waiting \o skipped_waiting \o running # <<>>
    \/ finished_req_ids # {}
    \/ \E r \in Requests : status[r] = "FINISHED"

-----------------------------------------------------------------------------
(* add_request, for a request that the client sends.                       *)
add(r) ==
    /\ phase = "idle" /\ Len(batch_queue) < config.batch_queue_size
    /\ status[r] = "NEW" /\ r \in config.sent
    /\ status' = [status EXCEPT ![r] = "WAITING"]
    /\ waiting' = add_request(waiting, r)
    /\ UNCHANGED <<config, kv, tokens, computed, preempted, placeholders, to_discard,
                   skipped_waiting, running, inflight_prefills, finished_req_ids,
                   recvVars, phase, step, batch_queue, cooldown, ghosts>>

(* _connector_finished: the connector sees the blocks inside the window.   *)
connector_finished(k, r, c) ==
    IF config.connector = "none" THEN k ELSE remove_skipped_blocks(k, r, c)

(* _free_request without a delay.                                          *)
free_WindowOnly(k, r, c) == connector_finished(k, r, c)
free(k, r, c) == free_request(connector_finished(k, r, c), r)

(* finish_requests(S): blocks that a load still writes to stay allocated.  *)
DelayFree_Never(S) == {}
DelayFree(S) == {r \in S : /\ status[r] = "WAITING_FOR_REMOTE_KVS"
                           /\ r \notin finished_recving}

(* An abort of the client, which the engine core also handles between the  *)
(* execution of a batch and update_from_output.                            *)
abort(r) ==
    /\ phase = "idle" /\ Live(r) /\ r \in config.aborts
    /\ status' = [status EXCEPT ![r] = IF r \in DelayFree({r}) THEN "FINISHED"
                                                               ELSE "DELETED"]
    /\ kv' = IF r \in DelayFree({r}) THEN connector_finished(kv, r, computed[r])
                                      ELSE free(kv, r, computed[r])
    /\ running' = remove_requests(running, {r})
    /\ waiting' = remove_requests(waiting, {r})
    /\ skipped_waiting' = remove_requests(skipped_waiting, {r})
    /\ finished_recving' = finished_recving \ {r}
    /\ failed_recving' = failed_recving \ {r}
    /\ inflight_prefills' = inflight_prefills \ {r}
    /\ finished_req_ids' = finished_req_ids \cup {r}
    /\ UNCHANGED <<config, tokens, computed, preempted, placeholders, to_discard, loading,
                   phase, step, batch_queue, cooldown, ghosts>>

(* The outputs of a request that reset_prefix_cache takes to be in flight. *)
FramesInFlight_None(r) == 0
FramesInFlight(r) == placeholders[r]

(* reset_prefix_cache, which with running requests preempts them all first *)
(* and drops the output of the batches in flight.                          *)
reset(force) ==
    LET all   == Range(running)
        freed == FoldLeft(free_request, kv, Reverse(running))
    IN  /\ phase = "idle" /\ Len(batch_queue) < config.batch_queue_size
        /\ IF force
           THEN /\ config.forced_resets
                /\ kv' = Raise(reset_prefix_cache(freed), ~CanReset(freed),
                               "reset_prefix_cache: a block is still used")
                /\ status' = [r \in Requests |-> IF r \in all THEN "PREEMPTED"
                                                              ELSE status[r]]
                /\ computed' = [r \in Requests |-> IF r \in all THEN 0 ELSE computed[r]]
                /\ preempted' = preempted \cup all
                /\ to_discard' = [r \in Requests |-> IF r \in all THEN FramesInFlight(r)
                                                                  ELSE to_discard[r]]
                /\ placeholders' = [r \in Requests |-> IF r \in all THEN 0
                                                                    ELSE placeholders[r]]
                /\ waiting' = prepend_requests(waiting, running)
                /\ running' = <<>>
                /\ inflight_prefills' = inflight_prefills \ all
           ELSE /\ CanReset(kv) /\ kv' = reset_prefix_cache(kv)
                /\ UNCHANGED <<status, computed, preempted, to_discard, placeholders,
                               waiting, running, inflight_prefills>>
        /\ UNCHANGED <<config, tokens, skipped_waiting, finished_req_ids, recvVars,
                       phase, step, batch_queue, cooldown, ghosts>>

-----------------------------------------------------------------------------
(* schedule()                                                              *)

StartStep ==
    /\ phase = "idle" /\ Len(batch_queue) < config.batch_queue_size /\ has_requests
    /\ phase' = "running"
    /\ step' = [NoStep EXCEPT !.budget = MaxBatchedTokens]
    /\ cooldown' = [r \in Requests |-> MaxOf(0, cooldown[r] - 1)]
    /\ UNCHANGED <<config, kv, reqVars, queueVars, inflight_prefills,
                   finished_req_ids, recvVars, batch_queue, ghosts>>

Chunk(n) ==
    IF 0 < config.long_prefill /\ config.long_prefill < n THEN config.long_prefill ELSE n

(* The next running request: how many tokens it gets, or that it has to be *)
(* passed over in this step.                                               *)
PickRunning_NoGap ==
    LET r    == running[step.idx]
        enough == /\ placeholders[r] > 0
                  /\ computed[r] + 2 - placeholders[r] >= MaxTokens[r]
        n    == Min({Chunk(tokens[r] + placeholders[r] - computed[r]), step.budget,
                     MaxModelLen - 1 - computed[r]})
    IN  /\ phase = "running" /\ step.idx <= Len(running) /\ step.budget > 0
        /\ IF enough \/ n = 0
           THEN step' = [step EXCEPT !.idx = @ + 1] /\ UNCHANGED phase
           ELSE step' = [step EXCEPT !.req = r, !.new = n] /\ phase' = "allocating"
        /\ UNCHANGED <<config, kv, reqVars, queueVars, inflight_prefills,
                       finished_req_ids, recvVars, batch_queue, cooldown, ghosts>>
PickRunning ==
    LET r    == running[step.idx]
        enough == /\ placeholders[r] > 0
                  /\ computed[r] + 2 - placeholders[r] >= MaxTokens[r]
        n    == Min({Chunk(tokens[r] + placeholders[r] - computed[r]), step.budget,
                     MaxModelLen - 1 - computed[r]})
    IN  /\ phase = "running" /\ step.idx <= Len(running) /\ step.budget > 0
        /\ IF enough \/ cooldown[r] > 0 \/ n = 0
           THEN step' = [step EXCEPT !.idx = @ + 1] /\ UNCHANGED phase
           ELSE step' = [step EXCEPT !.req = r, !.new = n] /\ phase' = "allocating"
        /\ UNCHANGED <<config, kv, reqVars, queueVars, inflight_prefills,
                       finished_req_ids, recvVars, batch_queue, cooldown, ghosts>>

Args(r, hits, ext, new, delay, must_fit, reserved) ==
    [computed |-> computed[r], num_tokens |-> tokens[r], new |-> new, hits |-> hits,
     ext |-> ext, lookahead |-> 0, delay |-> delay, must_fit |-> must_fit,
     reserved |-> reserved]

Entry(r, n, start, local) == [req |-> r, n |-> n, start |-> start, local |-> local]
IsScheduled(r) == \E i \in DOMAIN step.scheduled : step.scheduled[i].req = r

(* Which running request has to make room.                                 *)
Victim ==
    IF config.policy = "PRIORITY"
    THEN CHOOSE r \in Range(running) : \A s \in Range(running) : Priority[s] <= Priority[r]
    ELSE Last(running)

(* Whether preempting v takes back what this step has scheduled for it.    *)
Undone_Never(v) == FALSE
Undone(v) == config.policy = "PRIORITY" /\ IsScheduled(v)

(* _preempt_request, for a request taken from the running queue.           *)
preempt_request(k, v) ==
    /\ kv' = free_request(k, v)
    /\ status' = [status EXCEPT ![v] = "PREEMPTED"]
    /\ computed' = [computed EXCEPT ![v] = 0]
    /\ preempted' = preempted \cup {v}
    /\ inflight_prefills' = inflight_prefills \ {v}
    /\ waiting' = prepend_request(waiting, v)

(* allocate_slots for the picked request; without enough free blocks a     *)
(* running request is preempted, which gives back what it was scheduled    *)
(* for in this step.                                                       *)
AllocateRunning ==
    LET r   == step.req
        res == allocate_slots(kv, r, Args(r, <<>>, 0, step.new, FALSE, FALSE, 0))
        v   == Victim
        undone == Undone(v)
        kept == SelectSeq(step.scheduled, LAMBDA e : e.req # v)
        back == IF undone THEN SelectSeq(step.scheduled, LAMBDA e : e.req = v)[1].n ELSE 0
    IN  /\ phase = "allocating"
        /\ IF res.ok
           THEN /\ kv' = res.kv
                /\ step' = [step EXCEPT !.req = None, !.new = 0, !.idx = @ + 1,
                              !.budget = @ - step.new,
                              !.scheduled = Append(@, Entry(r, step.new, computed[r],
                                                            computed[r]))]
                /\ phase' = "running"
                /\ UNCHANGED <<status, computed, preempted, waiting, running, inflight_prefills>>
           ELSE /\ running' = remove_requests(running, {v})
                /\ preempt_request(res.kv, v)
                /\ step' = [step EXCEPT !.preempted = TRUE,
                              !.scheduled = IF undone THEN kept ELSE @,
                              !.budget = @ + back,
                              !.idx = IF undone THEN @ - 1 ELSE @]
                /\ phase' = IF v = r THEN "done" ELSE phase
        /\ UNCHANGED <<config, tokens, placeholders, to_discard, skipped_waiting,
                       finished_req_ids, recvVars, batch_queue, cooldown, ghosts>>

EndRunning ==
    /\ phase = "running" /\ ~(step.idx <= Len(running) /\ step.budget > 0)
    /\ phase' = IF step.preempted THEN "done" ELSE "waiting"
    /\ UNCHANGED <<config, kv, reqVars, queueVars, inflight_prefills,
                   finished_req_ids, recvVars, step, batch_queue, cooldown, ghosts>>

MoreWaiting ==
    /\ phase = "waiting" /\ step.budget > 0
    /\ waiting \o skipped_waiting # <<>>
    /\ Len(running) # config.max_running

(* A request whose load is not over is put aside for this step.            *)
SkipBlocked ==
    LET r == NextWaiting
    IN  /\ MoreWaiting
        /\ status[r] = "WAITING_FOR_REMOTE_KVS" /\ r \notin finished_recving
        /\ PopWaiting
        /\ step' = [step EXCEPT !.skipped = Append(@, r)]
        /\ UNCHANGED <<config, kv, reqVars, running, inflight_prefills,
                       finished_req_ids, recvVars, phase, batch_queue, cooldown,
                       ghosts>>

(* _try_promote_blocked_waiting_request and _update_waiting_for_remote_kv: *)
(* its load is over.  The request keeps its place at the head of the queue *)
(* and is scheduled next.                                                  *)
Promote ==
    LET r == NextWaiting
        c == computed[r]
    IN  /\ MoreWaiting
        /\ status[r] = "WAITING_FOR_REMOTE_KVS" /\ r \in finished_recving
        /\ kv' = IF r \in failed_recving /\ c = 0 THEN free_request(kv, r)
                                                  ELSE cache_blocks(kv, r, c)
        /\ computed' = [computed EXCEPT ![r] =
                          IF r \notin failed_recving /\ c = tokens[r] THEN c - 1 ELSE c]
        /\ failed_recving' = failed_recving \ {r}
        /\ finished_recving' = finished_recving \ {r}
        /\ status' = [status EXCEPT ![r] = IF r \in preempted THEN "PREEMPTED" ELSE "WAITING"]
        /\ UNCHANGED <<config, tokens, preempted, placeholders, to_discard, queueVars,
                       inflight_prefills, finished_req_ids, loading, phase, step,
                       batch_queue, cooldown, ghosts>>

(* _inflight_prefill_reserved_blocks                                       *)
Reserved_None == 0
Reserved ==
    MapThenSumSet(
        LAMBDA r : get_num_blocks_to_allocate(kv, r, MinOf(tokens[r], MaxModelLen),
                                              <<>>, computed[r], TRUE),
        inflight_prefills)

(* The next waiting request, of which the connector can load ext tokens    *)
(* beyond the ones in the local prefix cache.                              *)
ScheduleWaiting(ext) ==
    LET r     == NextWaiting
        fresh == computed[r] = 0
        hits  == IF fresh THEN get_computed_blocks(kv, r, tokens[r]) ELSE <<>>
        local == computed[r] + Len(hits) * BlockSize
        have  == local + ext
        load  == config.connector = "async" /\ ext > 0
        n     == IF load THEN 0 ELSE MinOf(Chunk(tokens[r] - have), step.budget)
        res   == allocate_slots(kv, r, Args(r, hits, ext, n, load, config.must_fit,
                                            IF load THEN Reserved ELSE 0))
    IN  /\ MoreWaiting
        /\ status[r] # "WAITING_FOR_REMOTE_KVS"
        /\ ext > 0 => fresh /\ config.connector # "none"
        /\ IF load THEN have <= tokens[r] ELSE have < tokens[r]
        /\ kv' = Raise(res.kv, status[r] \notin {"WAITING", "PREEMPTED"},
                       "Invalid request status")
        /\ IF res.ok
           THEN /\ PopWaiting
                /\ computed' = [computed EXCEPT ![r] = have]
                /\ status' = [status EXCEPT ![r] = IF load THEN "WAITING_FOR_REMOTE_KVS"
                                                           ELSE "RUNNING"]
                /\ running' = IF load THEN running ELSE Append(running, r)
                /\ inflight_prefills' = IF load \/ have + n < tokens[r]
                                        THEN inflight_prefills \cup {r}
                                        ELSE inflight_prefills
                /\ step' = IF load
                           THEN [step EXCEPT !.skipped = Append(@, r),
                                             !.loads = @ \cup {r}]
                           ELSE [step EXCEPT !.budget = @ - n,
                                   !.scheduled = Append(@, Entry(r, n, have, local))]
                /\ UNCHANGED phase
           ELSE /\ phase' = "done"
                /\ UNCHANGED <<computed, status, queueVars, inflight_prefills, step>>
        /\ UNCHANGED <<config, tokens, preempted, placeholders, to_discard,
                       finished_req_ids, recvVars, batch_queue, cooldown, ghosts>>

-----------------------------------------------------------------------------
(* What the workers do with a batch.                                       *)

(* Block i of r's table holds the KV of the first n tokens of that block.  *)
Holds(d, r, i, n) ==
    /\ i \in DOMAIN kv.req_to_blocks[r]
    /\ kv.req_to_blocks[r][i] # NullBlock
    /\ d[kv.req_to_blocks[r][i]].hash = BlockHashes[r][i]
    /\ d[kv.req_to_blocks[r][i]].n >= n

(* All tokens that the token after the first c ones attends to are there.  *)
PrefixHeld(d, r, c) ==
    \A t \in get_num_skipped_tokens(kv, c)..(c - 1) :
        Holds(d, r, t \div BlockSize + 1, (t % BlockSize) + 1)

(* The tokens from .. to-1 of r are written; only good says that what they *)
(* were computed from, or loaded from, is right.                           *)
Write(d, r, from, to, good) ==
    LET first(i) == MaxOf(0, from - (i - 1) * BlockSize)
        last(i)  == MinOf(BlockSize, to - (i - 1) * BlockSize)
        blocks   == {i \in DOMAIN kv.req_to_blocks[r] :
                       kv.req_to_blocks[r][i] # NullBlock /\ first(i) < last(i)}
        new(i)   == LET old == d[kv.req_to_blocks[r][i]]
                        same == old.hash = BlockHashes[r][i] /\ old.n >= first(i)
                    IN  IF ~good \/ (first(i) > 0 /\ ~same)
                        THEN IF same THEN [old EXCEPT !.n = first(i)] ELSE NoData
                        ELSE [hash |-> BlockHashes[r][i],
                              n |-> IF same THEN MaxOf(old.n, last(i)) ELSE last(i)]
        at(b)    == CHOOSE i \in blocks : kv.req_to_blocks[r][i] = b
    IN  [b \in Blocks |-> IF \E i \in blocks : kv.req_to_blocks[r][i] = b
                          THEN new(at(b)) ELSE d[b]]

(* One request of a batch on what the ones before it left in w: its sync   *)
(* load, of which the blocks from lost on fail, and then the tokens that   *)
(* it computes.  good remembers whether it computed them from its prefix.  *)
Run(w, e, lost) ==
    LET l == Write(Write(w.data, e.req, e.local, e.start, TRUE), e.req,
                   MaxOf(e.local, (lost - 1) * BlockSize), e.start, FALSE)
        good == PrefixHeld(l, e.req, e.start)
    IN  [data |-> Write(l, e.req, e.start, e.start + e.n, good),
         good |-> Append(w.good, good)]

(* The block positions of an entry that a sync load fills.                 *)
LoadedAt(e) == {i \in DOMAIN kv.req_to_blocks[e.req] :
                  /\ e.local < e.start
                  /\ i > e.local \div BlockSize /\ i <= cdiv(e.start, BlockSize)
                  /\ kv.req_to_blocks[e.req][i] # NullBlock}

(* AsyncScheduler._update_after_schedule: one more output is expected of a *)
(* request whose scheduled tokens reach the end of what it has.            *)
ExpectOutput_EveryChunk(r, samples) ==
    IF config.async_scheduling THEN placeholders[r] + 1 ELSE placeholders[r]
ExpectOutput(r, samples) ==
    IF config.async_scheduling /\ samples THEN placeholders[r] + 1 ELSE placeholders[r]

(* It also spaces the decodes of a request over the pipeline stages.       *)
NextEligible(r, samples) == IF samples THEN config.decode_gap ELSE cooldown[r]

(***************************************************************************)
(* The end of schedule(): requests put aside go back, _update_after_       *)
(* schedule moves num_computed_tokens, and the batch goes to the workers.  *)
(* lost says from which block on each sync load fails, 0 for none.         *)
(***************************************************************************)
EndStep(lost) ==
    LET es     == step.scheduled
        at(e)  == IF lost[e.req] = 0 THEN Len(kv.req_to_blocks[e.req]) + 1 ELSE lost[e.req]
        result == FoldLeft(LAMBDA w, e : Run(w, e, at(e)), [data |-> data, good |-> <<>>], es)
        samples(e) == e.start + e.n >= tokens[e.req] + placeholders[e.req]
        out(i) == [req |-> es[i].req, n |-> es[i].n, end |-> es[i].start + es[i].n,
                   samples |-> samples(es[i]), good |-> result.good[i]]
        of(r)  == {e \in Range(es) : e.req = r}
        blocks(e) == {kv.req_to_blocks[e.req][j] : j \in {j \in LoadedAt(e) : j >= at(e)}}
    IN  /\ phase \in {"waiting", "done"} /\ ~MoreWaiting
        /\ \A r \in Requests : lost[r] # 0 =>
              config.load_failures /\ \E e \in of(r) : lost[r] \in LoadedAt(e)
        /\ skipped_waiting' = prepend_requests(skipped_waiting, step.skipped)
        /\ computed' = [r \in Requests |-> computed[r] + SumSet({e.n : e \in of(r)})]
        /\ inflight_prefills' = {r \in inflight_prefills : \A e \in of(r) : ~samples(e)}
        /\ placeholders' = [r \in Requests |->
              IF of(r) = {} THEN placeholders[r]
              ELSE ExpectOutput(r, \E e \in of(r) : samples(e))]
        /\ cooldown' = [r \in Requests |-> NextEligible(r, \E e \in of(r) : samples(e))]
        /\ finished_req_ids' = {}
        /\ batch_queue' = Append(batch_queue,
              [reqs |-> [i \in DOMAIN es |-> out(i)], loads |-> step.loads,
               invalid |-> UNION {blocks(e) : e \in Range(es)}])
        /\ data' = result.data
        /\ kv' = Raise(kv, \/ step.budget < 0 \/ Len(running) > config.max_running
                           \/ \E e \in Range(es) : e.n <= 0 \/ e.req \notin Range(running),
                       "schedule: scheduling constraints")
        /\ phase' = "idle" /\ step' = NoStep
        /\ UNCHANGED <<config, status, tokens, preempted, to_discard, waiting, running, recvVars,
                       tainted>>

-----------------------------------------------------------------------------
(* _update_requests_with_invalid_blocks and _handle_invalid_blocks         *)

(* Where the table of r, before the tokens of this batch, has a block of B. *)
InvalidAt(r, B, n) ==
    {i \in DOMAIN kv.req_to_blocks[r] : /\ i <= cdiv(computed[r] - n, BlockSize)
                                        /\ kv.req_to_blocks[r][i] \in B}

(* The ones that no request before r in the running queue recomputes.      *)
OwnInvalidAt(r, B, n) ==
    LET before == {s \in Range(running) : \E i, j \in DOMAIN running :
                      running[i] = s /\ running[j] = r /\ i < j}
        marked == UNION {{kv.req_to_blocks[s][i] : i \in InvalidAt(s, B, n[s])} : s \in before}
    IN  {i \in InvalidAt(r, B, n[r]) : kv.req_to_blocks[r][i] \notin marked}

(* num_computed_tokens of a request with an invalid block.                 *)
Truncated(r, B, n) ==
    LET own == OwnInvalidAt(r, B, n)
    IN  IF own # {} THEN (Min(own) - 1) * BlockSize ELSE computed[r] - n[r]

BlocksToEvict_Downstream(S, B, n) ==
    UNION {{kv.req_to_blocks[r][i] : i \in {i \in DOMAIN kv.req_to_blocks[r] :
              \E j \in OwnInvalidAt(r, B, n) : j < i}} : r \in S}
BlocksToEvict(S, B, n) ==
    UNION {{kv.req_to_blocks[r][i] : i \in {i \in DOMAIN kv.req_to_blocks[r] :
              \E j \in OwnInvalidAt(r, B, n) : j <= i}} : r \in S}

(* The requests that a block of B fails: loads in progress, and running    *)
(* requests that loaded it within their step or share it.                  *)
FailedAsync(B, n) == {r \in Range(skipped_waiting) :
                        status[r] = "WAITING_FOR_REMOTE_KVS" /\ InvalidAt(r, B, n[r]) # {}}
FailedSync(B, n) == {r \in Range(running) : InvalidAt(r, B, n[r]) # {}}

(* AsyncScheduler._update_request_with_output caches what is computed by   *)
(* now, unless the request was preempted.                                  *)
CacheOutput(k, r, num_tokens) ==
    IF config.async_scheduling /\ status[r] = "RUNNING"
    THEN cache_blocks(k, r, num_tokens) ELSE k

(* _update_from_kv_xfer_finished: loads of waiting requests are noted, the *)
(* blocks of requests that ended during their load are freed.              *)
Received(done, ended) ==
    {r \in done : status[r] = "WAITING_FOR_REMOTE_KVS" /\ r \notin ended}
LateFree(done, ended) == {r \in done : status[r] = "FINISHED" \/ r \in ended}

(* step_with_batch_queue waits for the oldest batch only when no further   *)
(* one can be scheduled.                                                   *)
AwaitsOutput ==
    /\ phase = "idle" /\ batch_queue # <<>>
    /\ Len(batch_queue) = config.batch_queue_size \/ ~has_requests

(***************************************************************************)
(* update_from_output for the oldest batch.  done are the loads reported   *)
(* as finished with it, bad from which block on each of them failed (0 for *)
(* none), and stop the requests whose new token ends them.                 *)
(***************************************************************************)
update_from_output(done, bad, stop) ==
    LET out  == Head(batch_queue)
        n    == [r \in Requests |-> SumSet({e.n : e \in {e \in Range(out.reqs) : e.req = r}})]
        B    == out.invalid \cup
                UNION {{kv.req_to_blocks[r][i] : i \in {i \in DOMAIN kv.req_to_blocks[r] :
                          bad[r] # 0 /\ i >= bad[r]}} : r \in done}
        failedAsync == FailedAsync(B, n)
        failedSync  == FailedSync(B, n)
        failed == failedAsync \cup failedSync
        skip   == IF config.recompute_failures THEN failedSync ELSE failed
        comp   == [r \in Requests |-> IF r \in failed THEN Truncated(r, B, n) ELSE computed[r]]
        \* the main loop over the batch
        turn   == {e \in Range(out.reqs) : Live(e.req) /\ e.req \notin skip /\ e.samples}
        drop   == {e.req : e \in {e \in turn : to_discard[e.req] > 0}}
        put    == {e \in turn : to_discard[e.req] = 0}
        got    == {e.req : e \in put}
        left   == [r \in Requests |-> IF config.async_scheduling /\ r \in got
                                      THEN placeholders[r] - 1 ELSE placeholders[r]]
        one(k, e) ==
            LET c == IF e.req \in got THEN CacheOutput(k, e.req, comp[e.req] - left[e.req])
                                      ELSE k
            IN  IF e.req \in stop THEN free(c, e.req, comp[e.req]) ELSE c
        evicted == IF config.recompute_failures THEN kv
                   ELSE evict_blocks(kv, BlocksToEvict(failedSync, B, n))
        looped  == FoldLeft(one, evicted, out.reqs)
        \* failed requests, then finished loads
        ended   == IF config.recompute_failures THEN {} ELSE failed
        late    == LateFree(done, ended)
        fail(k, r) == IF r \in DelayFree(ended) THEN connector_finished(k, r, comp[r])
                                                ELSE free(k, r, comp[r])
        freed   == FoldLeft(free_request, FoldLeft(fail, looped, SetToSeq(ended)), SetToSeq(late))
        gone    == stop \cup (ended \ DelayFree(ended)) \cup late
        removed == stop \cup ended
    IN  /\ AwaitsOutput
        /\ done \subseteq loading \cup out.loads
        /\ \A r \in Requests : bad[r] # 0 =>
              /\ config.load_failures /\ r \in done
              /\ bad[r] \in DOMAIN kv.req_to_blocks[r]
              /\ bad[r] > kv.num_cached_block[r] /\ kv.req_to_blocks[r][bad[r]] # NullBlock
        /\ stop \subseteq got /\ \A r \in got : tokens[r] + 1 >= MaxTokens[r] => r \in stop
        /\ batch_queue' = Tail(batch_queue)
        /\ computed' = comp
        /\ tokens' = [r \in Requests |-> IF r \in got THEN tokens[r] + 1 ELSE tokens[r]]
        /\ to_discard' = [r \in Requests |-> IF r \in drop THEN to_discard[r] - 1
                                                           ELSE to_discard[r]]
        /\ placeholders' = left
        /\ kv' = Raise(freed,
                       (\E r \in got : left[r] < 0) \/ (\E r \in done : status[r] = "DELETED"),
                       "update_from_output: assertion")
        /\ status' = [r \in Requests |-> IF r \in gone THEN "DELETED"
                                         ELSE IF r \in ended THEN "FINISHED" ELSE status[r]]
        /\ running' = remove_requests(running,
              ended \cup {r \in stop : status[r] = "RUNNING"})
        /\ waiting' = remove_requests(waiting, ended \cup {r \in stop : status[r] # "RUNNING"})
        /\ skipped_waiting' = remove_requests(skipped_waiting, ended)
        /\ inflight_prefills' = inflight_prefills \ removed
        /\ finished_req_ids' = finished_req_ids \cup removed
        /\ finished_recving' = (finished_recving \ ended) \cup Received(done, ended)
        /\ failed_recving' = IF config.recompute_failures THEN failed_recving \cup failedAsync
                             ELSE failed_recving \ ended
        /\ loading' = (loading \cup out.loads) \ done
        /\ data' = FoldLeft(LAMBDA d, r :
                      LET first == MaxOf(kv.num_cached_block[r], 0) * BlockSize
                          lost  == IF bad[r] = 0 THEN computed[r] ELSE (bad[r] - 1) * BlockSize
                      IN  Write(Write(d, r, first, lost, TRUE), r, lost, computed[r], FALSE),
                    data, SetToSeq(done))
        /\ tainted' = tainted \cup
              {e.req : e \in {e \in put : ~e.good \/ e.end # tokens[e.req]}}
        /\ UNCHANGED <<config, preempted, phase, step, cooldown>>

Losses == IF config.load_failures
          THEN [Requests -> 0..Max({Len(kv.req_to_blocks[r]) : r \in Requests})]
          ELSE [Requests -> {0}]

(* Without work the engine core blocks until a client sends something.     *)
Waits == phase = "idle" /\ batch_queue = <<>> /\ ~has_requests
Wait == Waits /\ UNCHANGED vars

Next ==
    \/ Wait
    \/ \E r \in Requests : add(r)
    \/ \E r \in Requests : abort(r)
    \/ \E force \in BOOLEAN : reset(force)
    \/ StartStep
    \/ PickRunning
    \/ AllocateRunning
    \/ EndRunning
    \/ SkipBlocked
    \/ Promote
    \/ \E ext \in 0..MaxModelLen : ScheduleWaiting(ext)
    \/ \E lost \in Losses : EndStep(lost)
    \/ \E done \in SUBSET (loading \cup UNION {out.loads : out \in Range(batch_queue)}),
          bad \in Losses, stop \in SUBSET Requests : update_from_output(done, bad, stop)

Spec == Init /\ [][Next]_vars

(***************************************************************************)
(* The engine core loop does not stop while it has work (its requests and  *)
(* aborts are finitely many, so infinitely many steps are steps of the     *)
(* loop), which includes that the workers answer; and every load ends.     *)
(***************************************************************************)
FairSpec == /\ Spec
            /\ []<>Waits \/ []<><<TRUE>>_vars
            /\ \A r \in Requests : []<>(r \notin loading)
-----------------------------------------------------------------------------
TypeOK ==
    /\ status \in [Requests -> Statuses]
    /\ tokens \in [Requests -> Nat] /\ computed \in [Requests -> Nat]
    /\ placeholders \in [Requests -> Int] /\ to_discard \in [Requests -> Nat]
    /\ cooldown \in [Requests -> 0..config.decode_gap]
    /\ {waiting, skipped_waiting, running} \subseteq Seq(Requests)
    /\ preempted \cup inflight_prefills \cup finished_req_ids \cup finished_recving
         \cup failed_recving \cup loading \cup tainted \subseteq Requests
    /\ phase \in {"idle", "running", "allocating", "waiting", "done"}
    /\ Len(batch_queue) <= config.batch_queue_size
    /\ data \in [Blocks -> [hash : Hashes \cup {NoHash}, n : 0..BlockSize]]

(* Well typed, no assertion of the scheduler or of the KV cache manager     *)
(* fails and none of their exceptions is raised: the token budget is never overdrawn, at   *)
(* most max_num_running_reqs requests run, every scheduled request is still *)
(* running when the batch is sent and gets at least one token, and the      *)
(* blocks that were promised are there.                                     *)
NoError == TypeOK /\ kv.err = {}

(* Every live request is in exactly one queue, the one its status says:     *)
(* preemption, aborts, loads and late outputs neither lose a request nor    *)
(* leave a dead one in a queue.                                             *)
QueuesMatchStatus ==
    LET held == waiting \o skipped_waiting \o step.skipped \o running
        asleep == Range(skipped_waiting \o step.skipped)
    IN  /\ IsInjective(held)
        /\ Range(held) = {r \in Requests : Live(r)}
        /\ Range(running) = {r \in Requests : status[r] = "RUNNING"}
        /\ {r \in Requests : status[r] = "WAITING_FOR_REMOTE_KVS"} \subseteq asleep

(* A block that the prefix cache offers for a hash holds the KV data of     *)
(* exactly that prefix once the batches already scheduled have run and the  *)
(* failed loads that they report have been handled, so a later request can  *)
(* use it without computing it.  The recompute policy for sync loads leaves *)
(* failed blocks in the cache on purpose, to be computed before their use.  *)
CachedDataValid ==
    /\ phase = "idle" /\ \A out \in Range(batch_queue) : out.invalid = {}
    /\ config.connector # "sync" \/ ~config.recompute_failures
    => \A b \in Blocks : kv.block_hash[b] # NoHash =>
          data[b] = [hash |-> kv.block_hash[b], n |-> BlockSize]

(* Every token a client gets was computed from the KV data of its own       *)
(* prefix, and is the token that follows the ones it already got.           *)
OutputsFromOwnPrefix == tainted = {}

BlocksAccounted ==
    \A b \in Blocks \ {NullBlock} :
        LET holders == {r \in Requests : b \in Range(kv.req_to_blocks[r])}
        IN  /\ kv.ref_cnt[b] = Cardinality(holders)
            /\ Cardinality({i \in DOMAIN kv.free : kv.free[i] = b}) =
                  IF holders = {} THEN 1 ELSE 0

(* Outside schedule(), only requests that run, that are being loaded or     *)
(* that have just been loaded hold blocks; and across aborts, preemptions,  *)
(* failed loads and late outputs every block is either free or counted once *)
(* for each request that holds it.                                          *)
NoBlockLeak ==
    /\ BlocksAccounted
    /\ phase = "idle" => \A r \in Requests : kv.req_to_blocks[r] # <<>> =>
            \/ status[r] \in {"RUNNING", "WAITING_FOR_REMOTE_KVS"}
            \/ status[r] \in {"WAITING", "PREEMPTED"} /\ computed[r] > 0
            \/ status[r] = "FINISHED"
               /\ r \in loading \cup UNION {out.loads : out \in Range(batch_queue)}

(* With asynchronous scheduling the outputs still expected for a request    *)
(* are its placeholders and the frames to discard, one per batch in flight  *)
(* that samples a token for it.                                             *)
PlaceholdersCountFrames ==
    phase = "idle" => \A r \in Requests : Live(r) /\ config.async_scheduling =>
        placeholders[r] + to_discard[r] =
            Cardinality({i \in DOMAIN batch_queue :
                \E e \in Range(batch_queue[i].reqs) : e.req = r /\ e.samples})

(* With asynchronous scheduling over pp_size pipeline stages, pp_size steps *)
(* lie between two batches that sample a token for the same request, as the *)
(* slots in which the workers pass sampled tokens on require.               *)
DecodeCadence ==
    \A i, j \in DOMAIN batch_queue : i < j /\ j - i < config.decode_gap =>
        {e.req : e \in {e \in Range(batch_queue[i].reqs) : e.samples}}
          \cap {e.req : e \in {e \in Range(batch_queue[j].reqs) : e.samples}} = {}

(* A request that a client sent ends: preempted, blocked and skipped        *)
(* requests are scheduled again until they have all their tokens.           *)
RequestsEnd ==
    \A r \in Requests : status[r] = "WAITING" ~> status[r] = "DELETED"
=============================================================================
