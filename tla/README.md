# TLA+ models of the vLLM V1 engine core

This directory specifies the parts of vLLM in which most of the protocol state
lives: the paged KV cache (block pool, prefix cache, block tables), the
encoder cache, the scheduler on top of both, the engine core loop that drives
the scheduler while batches are in flight, the executor and the message queue
that connect the engine to its workers, and the waves of data parallel engines.
All paths below are relative to the repository;
`src/vllm` is vLLM, `src/vllm-ascend` the Ascend plugin.

## The system

| Part | State | Operations | Interacts with |
|---|---|---|---|
| Free block queue (`v1/core/kv_cache_utils.py`) | doubly linked list with two fake ends, counter | popleft, popleft_n, remove, append, append_n, prepend_n | block pool |
| Block pool (`v1/core/block_pool.py`) | reference counts, block hashes, hash map, events | get_new_blocks, touch, free_blocks, cache_full_blocks, evict_blocks, reset_prefix_cache | managers, event subscribers |
| Single type managers (`v1/core/single_type_kv_cache_manager.py`) | block table and number of cached blocks per request | allocation, prefix hits, caching, window eviction, free | coordinator, block pool |
| KV cache manager (`v1/core/kv_cache_manager.py`) | the above | get_computed_blocks, allocate_slots, free, evict_blocks, cache_blocks | scheduler |
| Request queues (`v1/core/sched/request_queue.py`) | FIFO or heap | add, prepend, pop, remove | scheduler |
| Scheduler (`v1/core/sched/scheduler.py`, `async_scheduler.py`) | queues, request status and counters, loads in progress | schedule, update_from_output, add_request, finish_requests, reset_prefix_cache, handling of failed loads | everything |
| Engine core (`v1/engine/core.py`) | queue of batches in flight | step, step_with_batch_queue, aborts between execution and update | scheduler, workers, front end |
| Encoder cache manager (`v1/core/encoder_cache_manager.py`) | entries and their references, freeable order, two slot counters, evictions to report | check_and_update_cache, can_allocate, allocate, free_encoder_input, free, get_freed_mm_hashes, reset | scheduler, model runner |
| Message queue (`distributed/device_communicators/shm_broadcast.py`) | ring of chunks with flags in shared memory, sockets | enqueue, dequeue, wait_until_ready, shutdown | executor, workers |
| Multiprocess executor (`v1/executor/multiproc_executor.py`) | futures, response queues, failure flags | collective_rpc, FutureWrapper.result, worker_busy_loop, monitor, shutdown | engine core, workers |
| Data parallel waves (`v1/engine/core.py`, `coordinator.py`, `core_client.py`) | wave number and running flag at every party, messages under way | add_request, START_DP_WAVE, FIRST_REQ, forward pass, all-reduce, pause, resume | front ends, coordinator, engines |
| KV connector and workers | contents of the KV blocks, loads in progress | load, compute, report | scheduler |

The scheduler runs in one thread. What makes it hard is that its decisions run
ahead of the facts: up to `batch_queue_size` batches are in flight, an output
may return for a request that was meanwhile aborted, preempted or reset, blocks
enter the prefix cache before their data are computed, and asynchronous loads
write into blocks that no batch mentions.

Around it nothing is sequential. The message queue has no lock, only flags that
a writer and several readers poll. Answers of the workers carry no call number,
so their order is all that ties them to a call, and any worker may fail or die
between two steps. Data parallel engines have to start and stop their forward
passes together, on the word of messages that arrive late and over separate
sockets.

## Modules

| Module | Models | Notes |
|---|---|---|
| `BlockQueue` | the promise of the free queue | a sequence of blocks |
| `FreeKVCacheBlockQueue` | the linked list | links as functions, one action per method; refines `BlockQueue` |
| `FreeQueueProofs` | | proofs for all constants: that the list implements `BlockQueue` |
| `BlockPool` | `BlockPool` | methods as operators on a record, so a caller can make several calls in one step; exceptions and failed assertions are collected in `err` |
| `KVCache` | `KVCacheManager`, unitary coordinator, full attention and sliding window managers | operators on the same record; the window is a field of it |
| `KVCacheManager` | the calls a scheduler may make, with all arguments | no scheduling decisions: any request may be served next; refines `BlockOwnership` |
| `BlockOwnership` | the promise of the KV cache manager | who holds, who writes, what is free, what is offered |
| `BlockOwnershipProofs` | | proofs for all constants |
| `KVCacheLemmas`, `KVCacheManagerProofs`, `Counting` | | proofs for all constants: what each call does; that the manager never fails, is exact and implements `BlockOwnership`; the facts about finite sets they count with |
| `Scheduler` | scheduler, async scheduler, engine core loop, workers | extends `KVCache`, so it is the composition with the cache |
| `EncoderCacheManager` | `EncoderCacheManager` | methods as operators on a record |
| `EncoderScheduling` | the scheduler's use of it, the model runner's encoder cache | extends `EncoderCacheManager`; one step per request that `schedule()` looks at |
| `EncoderProofs` | | proofs for all constants: the slots, the references and the worker's cache |
| `BroadcastQueue` | the promise of the message queue | every reader gets every message once and in order |
| `MessageQueue` | the message queue | every access to a flag, a chunk or a socket is a step; refines `BroadcastQueue` |
| `MessageQueueProofs` | | proofs for all constants: the ring, the sockets, and that `MessageQueue` implements `BroadcastQueue` |
| `Executor` | executor, futures, worker loops, monitor | uses the queue at the level of `BroadcastQueue`, with its capacity |
| `ExecutorProofs` | | proofs for all constants: answers go to their own calls |
| `DPWaves` | engines, coordinator and front ends | one queue per socket |
| `DPWavesProofs` | | proofs for all constants: the inductive invariant, types and waves; phases of a pause and the theorems |
| `MC*` | instances for TLC | `MCScheduler` names the configurations |

In `Scheduler`, `schedule()` is cut into the iterations of its two loops
(`PickRunning`, `AllocateRunning`, `SkipBlocked`, `Promote`,
`ScheduleWaiting`), `EndStep` ends it and hands the batch to the workers, and
`update_from_output` is one action. `add`, `abort` and `reset` are only enabled
between engine steps, and `abort` also where `EngineCore` processes aborts:
between the execution of a batch and `update_from_output`. `Wait` is the engine
core blocking on its input queue, so that TLC's deadlock check means something.
The settings of the engine are a variable `config` that never changes, so one
run covers several configurations.

Two ghost variables say what the workers do. `data` is the prefix whose KV data
each block holds after all scheduled batches have run; the workers run batches in
order. `tainted` are the requests that got a token that was computed from a
block with other contents than their own prefix, or for another position than
the one it was appended at. Block hashes are model values with one hash per
prefix; tokens are counted, not represented. What workers and connectors do is
modelled from how the scheduler uses them and is marked external in the map.

`EncoderScheduling` cuts `schedule()` in the same way and keeps of the KV cache
only that `allocate_slots` may refuse and that a prefix may be found. `worker`
is the encoder cache of the model runner; it executes the batches of `queue` in
order, each with the list of freed hashes that `get_freed_mm_hashes` gave it.

In `MessageQueue` the program counter of the writer goes through `enqueue` and
`acquire_write` (`AcquireWrite`, `Fill`, one `ResetFlag` per reader,
`MarkWritten`, `SendOverflow`, `Notify`, `SendRemote`), the one of a reader
through `acquire_read` and `dequeue`. The fences of the code make program order
the order that other processes see.

In `Executor` the engine thread takes one step per queue operation. A batch is
two calls, execute and sample, or only the first when it needs no sampling.
`EngineCore.step` (`depth` 1) waits for each of them; `step_with_batch_queue`
puts the future of the last one into the batch queue and waits for it later, and
when the sampling of a batch is deferred it first waits for the batch before and
then takes its draft tokens. Other calls are utility calls on all ranks. `Monitor` is the thread that waits for dead
processes, in the three steps in which others can see it.

In `DPWaves` an engine alternates between its input queue and a pass; `Pass` and
`AllReduce` are collectives that need all engines. `Home` says which front end
sends a request and which engine the load balancer chose.

## Runs

| Run | Question | States | Time |
|---|---|---|---|
| `free_queue` | Does the linked list implement a sequence, counter and links included? | 326 | 1 s |
| `block_ownership` | Does the contract have the invariants that are proved? | 560 | 1 s |
| `kv_cache_manager` | Are counts, queue, map, events, tables and window consistent after any calls, and is the contract kept? | 6,078 | 1 min |
| `scheduler` | Are queues, blocks, cached data, placeholders, cadence and outputs right, with and without loads that are late or fail? | 807,994 | 1.5 min |
| `progress` | Does every request end? | 57,500 | 15 s |
| `encoder_cache` | Do slots and references add up, do the workers hold what a batch reads, is every request served? | 66,952 | 1 min |
| `message_queue` | Is a chunk never overwritten while it is read, does every message arrive once and in order, does shutdown end every reader? | 131,926 | 1.5 min |
| `executor` | Does every call get its own answers and return, and does a death end the engine? | 1,451,137 | 2.5 min |
| `dp_waves` | Do all engines enter the same collectives, are requests served, do pauses complete and hold? | 81,781 | 3 min |
| `load_failure_abort`, `dp_dropped_request`, `encoder_shift` | Departures, see below | | 5 s |

Properties that carry most of the weight:

* `ImplementsOwnership`: every call of the manager is a step of
  `BlockOwnership`. With the theorems this gives exact reference counts, no
  leaked and no doubly owned block, and no second holder of a block that is
  still written.
* `CachedDataValid`: what the prefix cache offers has been, or will be before
  any use, computed for exactly that prefix.
* `OutputsFromOwnPrefix`: the end-to-end property. Every token a client gets
  was computed from its own prefix and follows the tokens it already has.
* `PlaceholdersCountFrames`: with asynchronous scheduling the placeholders plus
  the frames to discard are the frames in flight.
* `QueuesMatchStatus`, `NoBlockLeak`: no request and no block is lost by
  preemption, aborts, loads or late outputs.
* `RequestsEnd`, `AllServed`: every request ends, whatever it waits for.
* `WorkerHit`: the encoder outputs that a batch reads are in the workers' cache
  when it is executed. `CachesAgree`: when nothing is under way, both sides
  agree on what is cached.
* `ImplementsBroadcast`: with the ring, the overflow path and the remote
  sockets, every reader sees the sequence of messages the writer put. A reader
  that timed out on an oversized message is excepted from then on.
* `Delivered`: no ping is lost between a reader's check and its sleep.
* `OwnAnswersUntilFailure`, `CallsReturn`, `DeathEndsEngine`: the executor.
  Each names its exceptions, which are departures listed below.
* `Lockstep`: engines that wait in a collective wait in the same one, after the
  same number of passes. `RequestsServed`, `PauseCompletes`, `KeptServed`,
  `EnginesStop`: what follows from it for clients.

Bounds. Three real blocks (four names with the null block) of two tokens, two or
three requests whose prompts share their first block and partly the second, and
at most five or six tokens each. This is the smallest size at which two requests
cannot both finish without preemption, a hit can be shared, revived from the
free queue or evicted, a block is partly filled, and a prompt needs several
chunks. The sliding window is 2 or 3 tokens, so that it starts at and inside a
block. Blocks are symmetric, except in `progress`, where symmetry would be
unsound. The encoder cache holds two embeddings, which is two small images or a
large one, for three requests that share one of four images, so that it must
evict and some requests wait. The ring has two chunks and three messages go
round it, the second oversized; two local readers and a remote one are the
least at which one reader can be late while another is done. The executor has
two workers and queues of two chunks instead of ten, which two batches in flight
fill; up to six calls, and two faults, or one where batches need no sampling or
two are in flight. The engines agree every 2 passes instead
of 32, a request takes up to two passes, and a budget says which requests,
rejections and pauses a behaviour may have, and whether a front end's note may be
overtaken by an update (`stall`). In the four modules with such bounds
the behaviours end when the bound is reached, so deadlock is not checked there;
the liveness properties say what must have happened by then. Every property has a mutant: a plausible change of one modelled method
that makes TLC report that property.

Fairness. In `Scheduler` (run `progress`) the engine core does not stop while
it has work: `run_busy_loop` calls the step function again as long as
`has_work()`, and waits for a future only when no further batch can be
scheduled. That the future completes, and that every load ends, is assumed of
the workers and the connector. Requests and aborts are finitely many, forced
resets and load failures are off: a client that resets for ever, or a load that
fails for ever under the recompute policy, does starve a request.
`EncoderScheduling` assumes the same of the loop and the worker.

In `MessageQueue` the writer and every reader keep running their loops; nothing
is asked of timeouts and shutdowns. In `Executor` the engine thread, the threads
of a live worker and the monitor run; exceptions, timeouts and deaths need not
come. In `DPWaves` the tasks of front ends and coordinator poll for ever, and
collectives complete when all have joined. Handling a message is strongly fair:
an engine empties its input queue in every turn of its loop, but is not at it
all the time. Whoever pauses the engines resumes them.

## Proofs

`BlockOwnershipProofs` proves, for any sets of blocks, requests and hashes,
that the contract has `TypeOK`, `RefCountExact`, `FreeIffUnheld`, `SoleWriter`
and `OwnPrefixOnly`. The only assumption is `OwnershipAssumption` (`NoHash` is
not a hash, and the prefixes of a request have hashes).

None of these is inductive alone. That a new block has no other holder follows
from `FreeIffUnheld`; that a freed block reaches count 0 exactly when its last
holder leaves needs `RefCountExact`; that a hit is not being written needs the
half of `SoleWriter` which says that a block with a writer has no hash; and
`OwnPrefixOnly` survives a block getting a hash only because the writer is its
sole holder. `PoolInv` is their conjunction, stated on the record. There is one
lemma for each call (`GivePreserves`, `TakePreserves`, `FillPreserves`,
`UnhashPreserves`), and a step of `Next` is a composition of those calls, so the
proof of `NextPreserves` only chains the lemmas.

`KVCacheManagerProofs` proves, for any finite set of blocks, any requests with
any token counts, any block size and any sliding window or none, that the
manager never fails an assertion or raises (`NoError`), that the hash map, the
events and the tables are exact (`MapMatchesHashes`, `EventsMirrorCache`,
`TablesMatchPrefix`), and that every call is a step of `BlockOwnership`
(`ImplementsOwnership`), so that the theorems above hold of the lists, tables
and maps of the source. The assumptions are `PoolAssumption` (the null block is
a block, and two requests with one hash have it at the same place, after the
same hashes), `CacheAssumption` and `ClientAssumption` on the numbers.

That `allocate_slots` never runs out of blocks is the hard part: it compares the
free blocks with a prediction, and then touches hits, which may take some of the
free blocks, attaches null blocks for what the window skips, and takes new ones.
`Sound` is the invariant of the manager's record: the free queue and the tables
hold no real block twice, map, events and hashes agree, a block in a table has
the hash of its place or none, and the invariant of `BlockOwnership` holds
through the refinement mapping, which gives that a free block is in no table and
that a block behind the cached part has no other holder. `KVCacheLemmas` has one
lemma for each call, which says that it keeps `Sound` and which calls of
`BlockOwnership` it is (`TouchEffect`, `AttachEffect`, `FreeEffect`,
`SkipIs`, `CacheEffect`). `allocate_slots` is their composition; that it
takes what was predicted is a count of the free hits. `IInv` adds to `Sound` what
the scheduler respects between two calls (`Client`): a request that waits has
either no table or a loaded one, and computed tokens lie in the table. One lemma
per action (`ScheduleStep` to `ResetStep`) gives both the invariant and the step
of `BlockOwnership`.

`WindowStaysBacked` is `WindowIsBacked` for every configuration in which loads
fail at most for full attention (`LoadFailures` is a part of `{0}`, as in the
run); with a sliding window and failing loads it is false, as listed below. It
needs to know where a table may have null blocks: each lemma says which places a
call can leave empty (`NullPlaces`), and the last conjunct of `Client` that these
lie behind the window at the tokens that the request is sure to compute next.

`EncoderProofs` proves, for any finite set of requests with any inputs, any size
of the cache and any configuration, that the two slot counters and the freeable
list are exact (`SlotsMatchEntries`). For the configurations without a drafter it
proves `ReferencesReturned`, for those without priorities `CachesAgree`, and for
those with neither `WorkerHit`: with priorities or a drafter the code departs
from these, as listed below, so the theorems carry the premise. The assumptions
are `FeaturesAssumption` (the inputs of a request follow each other, and inputs
with one hash have the same embeddings) and `ConfigsAssumption` (the compute
budget has room for any single input).

The invariant has to hold inside `schedule()`, where nothing is settled: entries
were evicted that the worker still has, inputs are allocated that no worker has
computed, and the request that is tried already holds references. `CacheOK` is
the manager's own part; a request's references are to inputs of its own.
`AgreeOK` says that the manager's entries are what the worker will hold after the
batches sent, less what was evicted since, plus what the batch under construction
computes. `RefsOK` gives references to running requests and to the one that is
tried. `HitOK` says that what a scheduled request reads is held by it or computed
with it, and that a batch under way will find it: an entry with a reference is not
evicted, so no batch sent later frees it before. `OrderOK` is why this holds with
preemptions: without priorities the victim is the last of the queue, behind every
request of the batch. The loop of `_try_schedule_encoder_inputs` has an invariant
of its own (`TryBase`, `TryHit`): the inputs found so far fit together after every
eviction, and the inputs that the remaining tokens read are held or found.

`MessageQueueProofs` proves, for any numbers of chunks, local readers and
messages and any set of remote readers, that the writer and the readers never
meet in a chunk and that a reader finds in its chunk the message it is due
(`ExclusiveAccess`). The assumption is `QueueAssumption`: at least one chunk, and
local and remote readers are different. A flag alone says nothing: chunk i is
used for messages i+1, i+1+Chunks and so on, and an unwritten or unread flag may
belong to any of them. `RingInv` therefore ties the flags to the numbers: a
reader's position is at most the number of messages published and at least that
number less the chunks of the ring, `written` and `read` of a chunk are what the
positions say, with one case for a writer that is inside the chunk and has reset
some of the flags, and a chunk holds its latest message. The step from positions
to indices is arithmetic modulo the number of chunks, which is in lemmas of its
own. `RingInvariant` is this invariant, `RingIsExclusive` its consequence.

The second half proves that `MessageQueue` implements `BroadcastQueue`
(`ImplementsBroadcast`) from the same assumption, for any set of oversized
messages. `RingInv` gives the order of what goes through the chunks, but an
oversized message leaves only a marker there, and its content, like everything
for a remote reader, comes through a socket that knows no numbers. `SocketInv`
says that the socket of a reader lists in increasing order exactly the messages
after the last one it returned, restricted to the oversized ones for a local
reader, less the one that the writer has published and not yet sent, and with
READY in front of them during the handshake. A marker is in a chunk exactly when
its message is oversized, so a reader that saw a marker and turns to its socket
finds that message first or nothing yet. A reader that gave up on an oversized
message is out of step with its socket; for it the invariant only says that what
it finds was sent. `SocketInvariant` is this invariant, `StepImplements` maps
every step to a step of the broadcast or to none, and
`QueueImplementsBroadcast` is the refinement.

`FreeQueueProofs` proves, for any number of blocks and any size of batches, that
the links and the counter of the free list agree (`LinksAgree`), that the list
implements `BlockQueue` (`ImplementsQueue`), and that each method changes the
eviction order as its own counterpart does (`EvictionOrder`). The assumption is
`QueueAssumption`: at least one block, batches of at least one, and fake ends
that are not blocks. `LinksAgree` is not inductive: it does not exclude a ring of
blocks beside the list, which a later `remove` would take for part of it. The
inductive invariant is that there is a sequence s of different blocks such that
the links are exactly those of s between the fake ends and every other block is
unlinked (`Linked`). `CutFront`, `CutOut` and `Insert` say what the three ways of
relinking make of s. That `get_all_free_blocks` returns s (`ReadsBack`) needs an
induction along the links, which is done by the least index at which the walk
would leave s, and a pigeonhole argument that s is no longer than the pool.

`ExecutorProofs` proves, for any set of ranks, any numbers of calls and of batches
in flight and any sizes of the queues, that until a call fails every future reads
the answers to its own call (`OwnAnswersUntilFailure`), from `ConfigsAssumption`.
Answers carry no number in the code, so the invariant has to say where each of
them is. `EngineInv` places the engine in the calls of a batch. `OrderInv` says
that the futures queue holds the futures of the last calls in the order of the
calls, that the future being read is the one before them, and that a call is
without an answer exactly when its future has not been read to the end.
`QueueInv` says that the response queue of a worker followed by what its output
thread still has to put there lists, in increasing order, the answers to exactly
the calls that the worker has run, was asked to answer and whose answer has not
been read. The head of the queue that is read is then the least of those, and
`OrderInv` makes that the call whose future is read. Two exceptions are part of
the invariant: after a failed call nothing is claimed, and after the monitor has
dropped the response queues a future may have nobody to ask.

`DPWavesProofs` proves, for any number of engines from two, any
front ends, requests, budgets and any interval between all-reduces, that engines
that wait in a collective wait in the same one (`Lockstep`) and that no engine
works while all of them have answered a pause (`PauseHolds`), from
`WavesAssumption`. The invariant has four parts: types; `WaveInv`, all engines are
in one wave at one pass count and no front end, coordinator or message is ahead
of them; `PhaseInv`, the engines are in one of four phases of a pause; `ReduceInv`,
they enter and leave the all-reduce together. The phases are serving, pausing
(each engine has either the call under way or has been asked and runs, so that
the all-reduce will come), paused (all agreed, and either all still run with the
answer outstanding or all are quiet) and resuming (each has the call under way or
is in the barrier). `ignore_start_dp_wave` is what keeps the paused phase: a late
START_DP_WAVE cannot make one engine run alone. `WavesAgree` states `WaveInv` for
itself: a request never carries a wave that its engine has not reached, so the
branch of `add_request` for one of a later wave is never taken.

Only model-checked: everything about `Scheduler`. Several of the invariants of
`Scheduler` hold only for the configurations of the runs, because the departures
below break them in others, and an inductive invariant would have to describe
exactly those. Liveness, that of the encoder cache, the message queue, the
executor and the engines included, is out of the prover's reach.

## Departures of the code from its comments and documents

Three are runs that end in a counterexample; PROJECT.json quotes the lines.

* `load_failure_abort`: a request aborted between a failed sync load and its
  report is in no queue that `_handle_invalid_blocks` looks at, so its blocks
  stay in the prefix cache and are used.
* `dp_dropped_request`: the first request of a wave is rejected by the engine
  that the coordinator does not notify; the others wait for it in a collective.
* `encoder_shift`: with a drafter and chunked multimodal inputs, a chunk that
  ends right before an image leaves its encoder output unscheduled, although the
  drafter reads the first embedding.

### KV cache and scheduler

These are reached with the configuration of that name in `MCScheduler`
(give `Configs` that value and check the property named):

* `LoadFailureShared` / `CachedDataValid`, with `MCSharedPrompts`: blocks that
  depend on an invalid block shared with an earlier request are not evicted,
  although `_update_requests_with_invalid_blocks` says so of "downstream
  dependent blocks" (`scheduler.py:2278`).
* `ResetPipeline` / `OutputsFromOwnPrefix`: without asynchronous scheduling a
  forced reset does not discard the outputs of pipelined batches
  (`scheduler.py:1966`).
* `PriorityPreempt` / `CachedDataValid`, with blocks of one token, seven blocks,
  `MaxModelLen` 8 and the `MCUnit` definitions: a priority victim that was
  already scheduled in the step leaves hashes on blocks that are never computed.
* `RecomputeAbort` / `OutputsFromOwnPrefix`: under the recompute policy the
  request that should recompute a failed block is aborted first.
* `LoadFailureAsync` / `PlaceholdersCountFrames`: the output that is skipped
  after a failed load keeps its placeholder.
* `ResetTwice` / `PlaceholdersCountFrames`: a second forced reset overwrites
  `async_tokens_to_discard`.
* `PipelinePreempt` / `OutputsFromOwnPrefix`: three batches in flight without
  asynchronous scheduling, a request is preempted and resumed before its output
  returns, and one position is sampled twice.
* `StoppedWhileLoading` / `QueuesMatchStatus`: a preempted request that began an
  asynchronous load is stopped by a late output and stays in `skipped_waiting`.
* In `KVCacheManager`, a sliding window request whose whole prompt was loaded
  recomputes its last token one position before the one its blocks were
  allocated for, and a request whose load failed recomputes from before its
  window; in both cases the window can reach into null blocks. `WindowIsBacked`
  is therefore stated for running requests, and `LoadFailures` leaves the
  sliding window out.

The passing runs leave these combinations out. With sync loads, `scheduler` has no
aborts, no asynchronous scheduling and no prompt with a full block behind a
shared one. `scheduler` has forced resets only with at most one batch in flight
at the time, and without asynchronous scheduling at most two batches in flight.
The priority policy appears only in `progress`, which does not look at cached
data. Aborts and three batches in flight do not meet asynchronous loads in one
configuration.

### Encoder cache

* Under the priority policy a victim that was scheduled in the same step leaves
  entries in the cache that no worker computes, and another request hits them:
  "The encoder input is already computed and cached from a previous step."
  (`scheduler.py:1228`). `PriorityVictim` of `MCEncoderCache` has the policy;
  the counterexample needs a first request with three images that are allocated
  in one step and a later one of higher priority (`WorkerHit`). `encoder_cache`
  is therefore FCFS.
* With a drafter, two adjacent images that do not fit into the cache together
  stall their request for ever, and so does, with whole inputs, an image as long
  as the token budget. `Drafter` has neither.
* The exit of the waiting loop for a request without tokens
  (`scheduler.py:716`) does not give back references as the one for a request
  without blocks does (`scheduler.py:775`). It is reached only with a drafter.

### Message queue

* A timeout on the socket of an oversized message comes after the chunk was
  given back. The message stays in the socket, and the reader gets it in place
  of the next oversized one. `lost` marks such a reader.
* `acquire_write` looks at no shutdown or cancellation: a writer waits for ever
  for a reader that has ended.
* The ping socket is not part of the handshake; the model assumes that its
  subscription is up before a reader first sleeps.

### Executor

* `get_response` raises at the first failure or timeout and leaves the answers
  of the other ranks in their queues. Every later call for all ranks reads one
  of those in place of its own, although `collective_rpc` promises "A list
  containing the results from each worker." (`abstract.py:178`).
  `OwnAnswersUntilFailure` ends its claim at the first failure; without that
  premise TLC finds this with `Pipelined`.
* These answers pile up. When failed calls have filled a response queue, the
  worker blocks, then the broadcast queue fills, and the engine waits in
  `enqueue` for ever. `Aggregated` with two faults violates `CallsReturn`.
* A worker that dies while the broadcast queue is full does not end the engine:
  nothing wakes `acquire_write`, although the monitor is there "to inform the
  engine" (`multiproc_executor.py:274`). Both liveness properties except this
  state, `Stuck`.
* Between the monitor's `shutdown` and its callback a call for all ranks can
  find no response queues and return an empty list as success.

### Data parallel waves

* When a request that was sent during a pause is withdrawn, or a pause in abort
  mode drops the request of a FIRST_REQ still under way, the coordinator and the
  front ends believe that the engines run, and the next request wakes only one.
* `START_DP_WAVE` is ignored by an engine that has not resumed yet, also when it
  is for a request that has reached an engine that has.
* A front end's second FIRST_REQ note that is delayed over a whole wave is
  stamped with the newer wave, and then its request is not served: the update task
  (`core_client.py:1255`) takes an update before a note once it believes that the
  engines run. `StatsUpdate` does so in the budget of `dp_waves` with `stall`,
  for which `RequestsServed` and `EnginesStop` say nothing and the others hold.

The budgets of `dp_waves` have no request during a pause beyond those that a
`keep` pause holds.

## Not modelled

In the scheduler: LoRA limits, structured output, speculative tokens (the manager
has lookahead and rejected drafts), streaming sessions, sleep, connectors that
send. In the KV cache: hybrid models with several KV cache groups, chunked local
attention, Mamba, cross attention and sink managers, context parallelism. In the
encoder cache: `EncoderDecoderCacheManager` and loads of an encoder cache
connector. In the executor: start-up, other executors, several nodes, and the draft tokens
that `post_step` takes without asynchronous scheduling. In data
parallel serving: load balancing by request counts and elastic scaling. Output
processing, KV offload and the Ascend schedulers have no module. Layers, kernels,
quantization, models and entry points, by far the largest part of the repository,
are numerical code and glue without protocol state.

## Plan

1. `HybridCacheHit`: the fixed point of the hybrid coordinator against a
   reference definition; then two KV cache groups in `KVCache`.
2. Speculative tokens and structured output in `Scheduler`; the recompute
   scheduler of vllm-ascend as a variant of it.
3. The output processor: merging of outputs, aborts racing with the last one.
4. Proofs: the queues of the scheduler (`QueuesMatchStatus`) for the configurations
   without loads.
