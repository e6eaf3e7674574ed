# Verification of miniGPT

miniGPT is a small GPT with a serving stack and a training pipeline around it: a paged KV-cache pool with automatic
prefix caching, a continuous-batching scheduler with chunked prefill, preemption and lazy reservations, executors that
let requests of different lengths share one model call, a worker thread that owns the engine, an HTTP server, a public
demo with its own admission, and programs that leave evidence in files: training with exact resume, benchmarks, data
preparation and reports. This directory models the parts of it in which several steps, actors or processes can disagree,
checks the models with TLC, and proves theorems about them with TLAPS.

## Inventory

| Component | State | Operations | Hard behaviour | What makes it correct |
|---|---|---|---|---|
| **KV-cache pool** `paged_kv_cache.py` | block metadata, free heap, block tables, reservations, prefix index, eviction notices | reserve (private, with prefix, grow), write prefill (whole, suffix), append, promote, rebuild, release, release all | exceptions half way through a method; blocks shared by reference count; LRU reuse | ownership, reference counts, index and heap agree; a reservation can always be claimed; no request sees another's data |
| **Serving engine** `serving.py` | request states, waiting and active lists, pending cancellations, schedule cursors, growth blocker | submit, cancel, tick (cancel, admit, prefill, decode, recompute, preempt) | a tick's snapshot of ids goes stale; failures inside a batch; preemption loses the cache but not the tokens | capacity is respected; queues match statuses; tokens are neither lost nor repeated; every request ends |
| **Executors** `serving.py`, `model.py`, `layers.py` | caches, tokens, boundary logits of shared blocks | prefill and decode batches, chunks, suffixes, recompute, promotion | rows of different lengths share a padded call; a failing row leaves the others | a token is drawn from what the model alone would have computed |
| **Engine runner** `engine_runner.py` | runner state, command queue, channels (future, bounded stream) | start, submit, cancel, metrics, inspect, shutdown, worker loop, worker failure | two threads; check-then-enqueue; futures cancelled by their consumer; a full stream | every future is resolved; each stream ends once, after a gap-free prefix of tokens; shutdown ends |
| **HTTP server** `http_server.py` | one coroutine per request | submit, wait for future or stream, cancel on disconnect | disconnect while waiting | each abandoned request is cancelled |
| **Public demo** `public_demo.py` | capacity gate (active, FIFO of futures), hourly and daily quota, metrics, leases of each request | acquire, hand over, release, reserve, settle, cancel, submission of a story's branches | cancellation and deadlines at any await | no slot lost or given twice; quota never exceeded; every lease settled once |
| **Training** `train.py`, `trainer.py`, `checkpoint.py`, `training_runtime.py`, `run_provenance.py` | model, optimizer and generators; metrics, samples, journal, checkpoints | step, record, sample, save, resume, complete a segment | a process killed between a record and its checkpoint | a resumed run continues the one it interrupted |
| **Training report** `training_report.py` | a directory published at once | validate, copy, publish | files that change while they are read | the report shows one uninterrupted run |
| **Benchmark runs** `benchmark_v2.py`, `benchmark_v2_report.py` | a stream of records, state, documents | append with sync and rollback, failures, interrupts, finalisation, loading | any write may fail, and so may its rollback | what loads is what was measured; measured records survive |
| **Benchmark comparison** `benchmark_v2_compare.py`, `benchmark_v2_statistics.py`, `benchmark_v2_comparison_policy.py` | two report files | validate both runs, collect reasons, give a verdict, write | a run may have been cut short anywhere; boundaries; two files that belong together | a verdict follows from what the workers measured; the files are of one comparison |
| **Story data** `story_data.py` | heaps of selected rows; staging, output and backup directories | two passes, quotas, selection, swap into place | swap interrupted between any two renames | the published selection is exact; no dataset is lost |
| **HTTP documents, policies, CLI** | none | parse, validate, render | none | |
| **Data, tokenizer, batching** | files, memory maps | prepare, encode, sample | none: pure functions | round trips |
| **Simulator, evidence builders** | report documents | measure, compare, render | none | provenance of the numbers |

How they interact. The engine calls the executors and the pool synchronously; one thread, the runner's worker, owns all
of them. HTTP and demo handlers run on the event loop and reach the runner only through its command queue, and get
answers through a `concurrent.futures.Future` and, when streaming, a bounded `queue.Queue`. The demo puts a capacity gate
and a quota, both confined to the event loop, in front of the runner. Training shares nothing with serving but the
checkpoint format; training processes, the report and whoever runs them meet in a directory of files.

`PROJECT.json` lists the hazards of this code at their lines, with the properties that cover them.

## Modules

| Module | What it is | Composes |
|---|---|---|
| `PagedKVCachePool` | The pool, one action per public method, with sharing, eviction, rebuilds and failure paths | |
| `RequestCacheStore` | What the pool promises: a cache of its own for every request | refined by `PagedKVCachePool` |
| `ServingEngine` | The scheduler, a tick as a sequence of small steps | |
| `RequestLifecycle` | What a serving engine promises about each request | refined by `ServingEngine`, used by `EngineRunner` |
| `BatchedExecution` | The nine executors over the model's batched entry points | |
| `EngineRunner` | The worker thread, its command queue, futures and streams, with clients, an observer and the callers of start and shutdown | `RequestLifecycle` |
| `CapacityGate` | The demo's slots and line of waiters | |
| `FifoSlots` | What the gate promises: slots with a bounded line | refined by `CapacityGate` |
| `GlobalQuota` | The demo's hourly and daily windows | |
| `PublicDemo` | The demo's handlers | `CapacityGate`, `GlobalQuota` |
| `Subsequence` | The comprehensions over queues, in a form that proofs can use | used by `ServingEngine`, `BatchedExecution`, `CapacityGate` |
| `TrainingRun` | Training processes, their files, the journal and the report | |
| `ReplicateStatistics` | Median, stability and summary of the replicates of a case | |
| `BenchmarkRun` | One benchmark run, its files and their reader | `ReplicateStatistics` |
| `BenchmarkComparison` | A comparison with a baseline under a policy, and the processes that write it | `BenchmarkRun` |
| `StoryData` | Preparation of the story dataset | |
| `MCPagedKVCachePool`, `MCServingEngine`, `MCServingExecution`, `MCEngineRunner`, `MCPublicLimits`, `MCPublicDemo`, `MCFiles` | Instances for TLC | see Runs |
| `PagedKVCachePool_proofs`, `CollectionTheorems`, `ServingEngine_proofs`, `BatchedExecution_proofs`, `EngineRunner_proofs`, `PublicLimits_proofs`, `PublicDemo_proofs`, `Files_proofs` | Theorems | |

Operators introduced by a comment that starts with "Mutant" are wrong variants of the operator they precede. No
specification uses them; they show that a property depends on the operator (`PROJECT.json` pairs them).

### PagedKVCachePool

`blocks`, `free`, `tables`, `prefixIndex`, `clock`, `recentEvictions` and `evictionCount` are the fields of
`PagedKVCachePool`; `content` says which data a block's tensors hold. `phase`, `prefixHit` and `engine` are the part of
the caller that restricts the order of calls: a request prefills, then decodes; `promote_prompt_blocks` directly follows
the prefill that completes a prompt; and a call that raised is followed by the release of its request
(`ServingEngine._commit_paged_result` and `_fail_state`). One thread owns the pool, so a method is one step; a method
that may raise has a second outcome with what the code restores, and what it does not.

Abstractions. K/V data is a tag: the hash of a complete prompt block, or the request that wrote the block. A hash stands
for its tokens, fingerprint and boundary logits, so it is collision free. The free heap is a set, the heap order being
its minimum. Blocks are evicted oldest first, ties by id, as in the code. Metrics other than the eviction counter are
left out. Reservations are summed as the size of a set of slots, which avoids a recursive sum.

### RequestCacheStore

One variable, the cache of each request as a list of data. `PagedKVCachePool` maps each table to the contents of its
blocks (`ImplementsPrivateCaches`). That every step is a step of the store or a stutter says that sharing, duplicate
replacement, eviction, reuse and failed calls never show in a cache other than the one they are about.

### ServingEngine

Variables are fields of `ServingEngine` and `RequestState`, and `tick` holds the locals of `_tick_chunked`: the stage,
the two lists of ids taken before cancellations, what has been selected, the deferred decode, the budget left. Each step
treats one request: `BeginTick`, `ApplyCancellation`, `RejectHead`/`FinishHead`/`AdmitHead`, `ChooseWork`, `Prefill`,
`SelectDecode`/`DeferDecode`, `Decode`, `Recompute`, `PreemptForGrowth`/`PreemptForHead`, `EndTick`. `Submit` and `Cancel`
happen between ticks only, because only the owner thread touches the engine.

Steps inside a tick are not interleavings, since one thread executes them. They are the granularity at which a batch may
fail row by row, and at which ids taken earlier are looked at again.

Constants choose the configuration: `Chunk = 0` is monolithic prefill; `Chunk > 0` the token-budget scheduler;
`Preemption`; `Lazy`. `ConfigAssumption` is what `SchedulerConfig` and `_validate_chunked_engine` enforce.

Abstractions. Tokens are counted. Any token may be the end of sequence, and any model call may fail. Batch limits other
than the token budget (rows, padded tokens, padding ratio) may end a prefill batch after any row but the first. Protected
blocks are computed from protected tokens: the pool behind them is the other module.

### RequestLifecycle

Submit, yield a token, finish, fail, cancel. `ServingEngine` maps its live statuses to "open" (`ImplementsLifecycle`), so
preemption and recompute have to be stutters: a token taken back, repeated past the maximum, or produced after the end
would be a step the lifecycle does not have. `EngineRunner` is composed with this module instead of the whole scheduler.

### BatchedExecution

What `ServingEngine` leaves out: how requests of different lengths come out of one model call. Numbers are replaced by
what they are computed from. The K/V entry of a token is its position, the token and the entries it attended to; the
logits of a position are its entry; padding is the token 0 in a prompt and an entry of zeros in a cache. Two results
are then equal exactly when the same computation was done, so a wrong mask, position, slice or offset shows, and the
reference is `Alone`, the model over one unpadded window, which is what `GPT.generate` calls.

`kind` is the executor: the reference, continuous decode and continuous batching over dense caches; materialised and
paged ones over the pool; chunked; and those with a prefix cache. `Batches` is the packing of prefills under
`max_batch_size`, `max_batch_tokens` and `max_padding_ratio`, a row at a time (`Joined`); `PrefillRow`, `DecodeRow`, `SegmentRow` are the three batched
entry points of the model; `Promoted` shares the blocks of a prompt with their boundary logits and replaces duplicates;
`Committed` writes and promotes the rows of a call one after the other (`Written`);
`Recompute` rebuilds a cache. Drawing or committing may fail for a row, or a whole call may.

Abstractions. The result of a floating-point sum does not depend on its order; layers and heads treat positions alike;
the padding ratio is a percentage; one fault in a step; no eviction between the commits of two rows of one batch. Who is
scheduled, cancelled, stopped by an end-of-sequence token or admitted is `ServingEngine`, where blocks live is
`PagedKVCachePool`: here any requests in the right status share a call, in any order, and a shared block that nobody
uses may disappear at any time.

### EngineRunner

Five kinds of actors interleave. The *worker* (`_run`) begins (`WorkerBegins`), takes commands (`ProcessSubmit`,
`ProcessCancel`, `ProcessMetrics`, `BeginInspection` and `EndInspection`, `ProcessShutdown`), ticks the engine (`BeginTick`, `EngineStep`, `EndTick`, `TickRaises`), publishes the events of the
tick (`PublishToken`, `CheckFuture`, `PublishTerminal`), and ends in order (`BeginReject`, `RejectSubmit`, ...,
`EndReject`, `Close`) or through `_fail_worker` (`Raise`, `FailChannel`, `Crash`). A *client* per request is the thread
that submits it and the HTTP or demo handler that waits for it (`CheckRunning`, `Submit`, `Answer`, `Read`, `Leave`,
`SendCancel`). The *observer* asks for metrics or an inspection (`CheckObservable`, `Observe`, `Observed`) and may time
out (`StopObserving`). The *caller of start* takes `Start`, then `StartReturns` or `StartTimesOut`; the *caller of
shutdown* takes `BeginShutdown` to `JoinWorker`.

A method of the worker is cut where another actor can come in between with effect: the state is tested (`CheckRunning`)
before the command is queued (`Submit`, `Observe`), a future's `done()` is tested (`CheckFuture`) before its result is set
(`PublishTerminal`, `FailChannel`), the queue is found empty (`EndReject`) before the state changes (`Close`). Operations
of `queue.Queue` and `Future` are atomic by their own locks. `stage` is the place the worker is at, `mode` whether it
serves, shuts down or fails; `future`, `stream`, `channels` and `sent` (`stream_terminal_sent`) are the fields of the
code; `received` and `client` are what the reader of each stream has read and where its client is.

The engine is `INSTANCE RequestLifecycle`. A tick applies the requested cancellations first and then lets requests yield
a token or fail, at most once each and at least one altogether; that an engine with work always gets on is
`WorkloadsComplete` of `ServingEngine`, with the exception of finding 2. A tick may also raise.

A request leaves the caller of `submit` with a fresh id (`uuid4`), so it is submitted once and never duplicated.

### CapacityGate, FifoSlots, GlobalQuota

No method of `_CapacityGate` or `_GlobalQuota` awaits anything while it holds its lock, and both live on one event loop,
so each method is a step; what interleaves is the await inside `acquire`. Between the release that sets a waiter's future
and the waiter's task running again, the task may be cancelled by its deadline or by the server (`interrupted`): it then
has to pass the slot on. `FifoSlots` has no futures and no cancellation, only slots, owners and a line; the gate
implements it (`ImplementsFifoSlots`) with the live waiters as the line and a result that was not seen yet as an owner.

`GlobalQuota` has a clock. `accepted` and `spent` are history: every request let in and every settlement. The decisions of
the code, which prunes its deques from the head when the next request asks, are compared with those of the whole history
(`DecisionsExact`). `QuotaAssumption` is what `PublicDemoPolicy` enforces of the two limits. Both modules write their
methods as operators from state to state, and `PublicDemo` uses the same ones.

### PublicDemo

A handler is a place in its coroutine (`pc`): it reads the body, waits for a slot, reserves, submits, waits, streams,
aborts, settles and releases. `loop` is the handler that runs on without awaiting, so handlers interleave exactly at their
awaits; deadlines, disconnects and task cancellations arrive there. Completions, streams, stories of several branches (plain
and streamed) and inspections are covered, with the cancel calls that run in threads with a timeout (`calls`). The runner
is what its clients see: a bounded queue, a worker that empties it between ticks and may hang or fail, terminal states and
streams (its inside is `EngineRunner`). `UsesLimits` says that the handlers drive the gate and the quota through behaviours
of `CapacityGate` and `GlobalQuota`.

Abstractions. All happens within one hour, so nothing expires. Each cancel call takes at most its two bounded waits, and
its failure is swallowed, as in the code. A second interruption while a story is being cancelled is left out. The worker
applies a cancellation in one step; the drainer that merges the streams of the branches is part of the read step. FastAPI
does not await between the end of a handler and the call of its response. The await of the final error event after a
timeout or a failure (`public_demo.py:1777`, `3115`), which no deadline covers, is part of the step that aborts: a client
that stops reading there, and never disconnects, is not modelled. A completion whose task is cancelled during its
own cleanup ("dropped") is the one request that metrics do not see.

### TrainingRun

Processes (`train.py` with and without a journal, fresh or resumed) take steps, write metrics, samples, checkpoints and
segments, and fail, are interrupted or killed between any two of these; whoever runs them may keep a copy of a checkpoint
(`KeepCheckpoint`), resume from any, or remove the journal. Weights are the sequence of what the steps drew, each generator
is the number of its draws, and the digest of a checkpoint is the checkpoint: an exact resume is one whose sequence is that
of an uninterrupted run (`Uninterrupted`). The report validates, copies and publishes in separate steps, and a process may
start in between. `disturbed` is history.

Abstractions. One process trains at a time. A kill loses nothing that was written (no power failure, no torn line).
Configuration, data, environment and commit never differ, so their comparisons always agree. What a training loss is
depends on the batches alone and decides nothing until the report, so the losses that a run may turn out to have are a
constant, `Losses`: for each number of batches a whole number, or `NotFinite` for a line with a loss that is no finite
number. The report may meet any of them, and refuses one that is not finite (`training_report.py:295`), a last one above 90%
of the first (533), or a run without a validation (396). A generated text is taken not to contain a line `step=` with a
number, which the report would read as the header of a sample (`training_report.py:124`). Neither metrics nor samples have digests in the provenance, so another experiment
in the same directory would not be noticed; it is not modelled. The documents say that every resume verifies the
configuration hash before running, and the code does so when a segment completes, which refuses the same segments later.

### BenchmarkRun

A run measures its tasks in order and appends each record: write, flush, sync, with a rollback to the previous length when
one of them fails, which may fail too. Exceptions, interrupts and kills may come at each step; the run then finalises as
failed or interrupted, writes its documents, or cannot. `durable` and `answers` are history. The reader (`load_run_manifest`
and what it checks) is one step. A task is its place in the order, and the configuration says of which case it is; a digest
is the content it is of. A record keeps its worker's response, with a time and with the controls that were in force. A run directory is new:
its name is the second it started in, and two runs in one second are not modelled.

An interrupt between the return of the append and the line that remembers the record makes the report leave out a record
that is durable (`benchmark_v2.py`); the design speaks of partial evidence that survives. `EvidenceSurvives` allows exactly
this one.

### BenchmarkComparison

The candidate is whatever `BenchmarkRun` has left behind, as soon as it loads; baselines are finished runs, given as
constants. `InputAccepted` is `_load_input`: it works out from the raw records what the summary, the order and the environment
say, and refuses a run in which they differ. `Comparison` collects the reasons not to compare and gives the verdict. Both
read and change nothing, so they are operators, and `VerdictJustified` compares what they say of each candidate with what
its workers really answered, which the files do not know: `Fair` and `Slower` are the design's rules about answers, written
without summaries, records or statuses: `CloseTogether` by the distances between times, `TwiceMiddle` by what has half of
the times on either side. Times are whole numbers and fractions are multiplied out; the code compares the
exact decimals of the medians, and its coefficient of variation in floating point, where a case at exactly the limit might
be rounded either way. The environment of the machine is one value, which may be unknown in a baseline and is known of the candidate; the
controls that a worker reports are another.

`write_comparison` is a process with two files whose names depend on the input alone. Several processes may write the same
comparison, fail, or be killed. One that is killed between its files leaves the JSON file, and every later attempt is
refused, as that file exists: nothing removes it but a person.

An observation about what is left out: the raw records are split with `str.splitlines`, which also splits at separators
such as U+2028 that `_jsonl_bytes` does not escape (`benchmark_v2_report.py:238`), so a worker that prints one makes a
run that cannot be compared.

### StoryData

Two passes over the rows, in any order each: the first counts the cells, quotas follow from the counts (`ToMarginals`), the
second keeps the smallest ranks of each cell in heaps. The result is staged and swapped into place, the old output becoming
a backup; each rename and removal may fail or be interrupted, a removal half way, and the process may be killed anywhere.
The next process starts with the recovery at the top of the publication. Ranks have no collisions, the source does not
change between the passes, processes follow one another, and the staging directory of a killed process has a name that
nobody reads again. Labels come with the rows: text matching, BPE training and encoding are left out.

Two observations. `counts_match` is recorded and never tested. After the trimming of remainders the last cell of a world may
get less than the equal base although it has rows enough (23 wanted of 16 plentiful cells gives one world 2, 2, 2, 0);
`SelectionExact` states what the code keeps, the shares of worlds.

## Runs

| Run | Instance | Shows |
|---|---|---|
| `pool` | 3 requests, 4 blocks of 2 tokens, window 4, in three variants: prefix cache, prefix cache with growing reservations, no prefix cache with rebuilds of 2, 3 and 4 tokens | Ownership, reference counts, tables, index and heap agree; what is reserved can be claimed; a shared block holds what its hash says; each request sees a cache of its own; shutdown frees everything |
| `pool_overcommit` | 3 blocks, sharing | **violated**: protection exceeds the pool after a rebuild (finding 1) |
| `engine_eager` | monolithic prefill; 4 requests, one that never fits, one without output; all may cancel | Queues match statuses; a cancellation is final; strict FIFO starves nobody |
| `engine_preempt` | chunks of 2, preemption; 4 requests, two of which need most of the room; beside it three rows that share model calls | Capacity, chunks, cache contents after a recompute, completion; and that no token depends on who shared its call |
| `engine_lazy` | chunks of 2, lazy reservations overcommitted twofold; 3 growing requests, all may cancel | Work is covered, no stale blocker, refinement of `RequestLifecycle`, cancellations apply, completion or the stall of finding 2 |
| `engine_growth_stall` | `engine_lazy` without cancellations | **violated**: a request never completes (finding 2) |
| `runner` | a stream of 3 tokens with a buffer of 1, a plain request, a queue of 2; both clients may leave, the engine may raise, shutdown at any time; or the plain request and an observer, from before `start` on | Streams have no gaps and end once; futures, channels and streams agree; every accepted request is answered; shutdown returns |
| `runner_disconnect` | the same, the plain client may leave and the engine does not raise | **violated**: a client who leaves fails somebody else's request (finding 3) |
| `limits` | a gate of 2 slots and a line of 3 with 5 tasks; a quota of 2 requests an hour and 3 tokens a day with 4 requests | No slot is lost or given twice, in the order of the line; the windows hold at every time, decide as the whole history would, and `Retry-After` is late enough |
| `demo` | a completion, a stream and an inspection, or two stories of two branches, one of them streamed; 1 slot, a line of 1 | Each handler gives back exactly what it took on all ways out, is counted once, pays for what it generated, and ends |
| `demo_rollback` | two stories of three branches | **violated**: a branch of a submission that failed goes on unowned (finding 4) |
| `files` | training over 6 steps with up to 4 processes, a benchmark run of 2 cases with 2 replicates each, compared with 5 baselines under 2 policies by 3 processes, 3 preparations of the stories | Exact resume, a true journal, a sound report, which accepts what segments completed exactly if the experiment is reportable; a benchmark run that loads is true, keeps its evidence and gets the verdict its workers' answers call for; the two files of a comparison belong together; a published dataset is exact and never lost |

`pool`, `limits`, `engine_preempt` and `files` check several components at once. These share no variables and no constants
that matter to each other, so a behaviour of their composition violates an invariant only if one of its components does
alone: it is enough to let one move while the others stand at their initial states (`MCPagedKVCachePool` picks one of
three configurations of one module instead).

Eleven more configurations are not in the list of runs. Each is violated, and shows a disagreement described below; run
them with `tlc -config <name>.cfg <module>`: `pool_rollback` (`MCPagedKVCachePool`), `runner_lost_submit`,
`runner_inspection`, `runner_start_race` (`MCEngineRunner`), `demo_undercharge`, `demo_hourly`, `demo_command_queue` (`MCPublicDemo`), `training_report_race`, `story_lost_backup`, `comparison_rejects`, `comparison_overlap` (`MCFiles`).

**Bounds.** Nothing is bounded by a state constraint; every bound is a constant or the finite input of an instance.

* *Pool.* Three requests are the fewest that give two holders of one shared block and a third that needs it. The prompts
  cover the relations between prompts: an equal complete block, a longer chain, an incomplete tail, a prompt that is
  exactly one cached block. Four blocks of two tokens are fewer than all requests want together, so admission waits,
  eviction happens, and a rebuild meets shared blocks. The logical clock and the eviction counter grow without end; the
  VIEW reduces the one to the order of last use, which is all the code compares, and drops the other, which the code never
  reads. It also hides the data of free blocks, which nothing reads before it is written, and a prefix hit after the
  promotion.
* *Engine.* Three or four requests of up to three tokens make queues with a head that waits while another holds the cache,
  a second candidate for preemption, and a window that overflows. `Cancelling` says who may cancel; `engine_eager` and
  `engine_lazy` let everybody.
* *Executors.* Two tokens in the vocabulary, a window of 4 and blocks of 2: a prompt of a block and a half, one that is
  exactly its first block, and one that starts with it, fills the window and overflows in each decode. The batch limits (3
  rows, 8 padded tokens, 25% padding) each bind for some batch.
* *Runner.* A stream longer than its buffer is the least that reaches backpressure with a token still to come; a queue of
  two is full when two commands wait, so submissions and cancellations are refused too; two requests are the fewest in
  which one client can harm another. The runner either has started, with both clients (`MCInit`), or is new, with the
  plain client and an observer who asks once: what `start` and an observation interfere with is the worker's state and the
  command queue, not a stream.
* *Limits.* Five tasks fill two slots and a line of three, or overflow a shorter one; four requests meet both windows, an
  hour of two ticks and a day of three within five ticks, so each entry may expire at each other's age.
* *Demo.* With one slot, a line of one and three requests, one runs, one waits and one is refused. Two branches are the
  fewest of which some are accepted and one is not; `demo_rollback` has the three of the code.
* *Files.* Steps, intervals (evaluation 2, sample 3, checkpoint 4) and boundaries {2, 3, 5, 6} put a record, a sample or a
  boundary on, before and after a checkpoint. The last loss is far below the first, exactly 90% of it, just above that, or
  far below it after a loss that is not finite. `TrainingAssumption` also allows schedules without a validation or a sample
  at the end, which the report refuses; those are left to the theorem. Four processes are a fresh one, a resume, a resume of a resume, and one that
  disturbs. Three preparations are the fewest in which one meets the backup that an earlier one left. Stories have two
  worlds and two tones (the code has four of each), where a cell may lack one or both of its stories, or have a row that is
  odd; six wanted stories do not divide equally among the cells of a world.
* *Benchmark.* Two cases of two replicates are the fewest in which a case is unlike the other, and two times of a case
  unlike each other. A case measured at 10 and 12 ms has a median of 11, exactly the threshold of 10% above 10, and a
  coefficient of variation of 9.1%, which one policy allows and the other does not. Baselines are faster, mixed,
  incomplete, of an unknown machine, or have a case of one replicate. At most two tasks (`MaxUnmeasured`) have no
  measurement. Three processes write: one may meet what two before it left.

**Fairness.** `ServingEngine` assumes weak fairness of `TickStep`: the owner ticks as long as a request is waiting or
active (`run_until_idle`, `EngineRunner._run`), and each tick terminates, since its loops run over finite lists. Nothing
is assumed of clients. `EngineRunner` assumes weak fairness of `WorkerStep`, a thread that blocks on an empty queue only,
and of a caller who is already in `shutdown`; nobody has to start, submit, read, observe, leave or shut down. `CapacityGate` assumes that
a holder of a slot gives it back in the end, which the demo's deadline enforces, and that a task whose future has been set
or cancelled runs again. `PublicDemo` assumes the steps of its handlers, their deadlines and the timeouts of their cancel calls, and
nothing of the worker, which may hang: `EveryRequestEnds` holds all the same. Pool, executors, training, benchmark and
stories have no liveness of their own.

**Deadlock.** All runs but the pool's say `CHECK_DEADLOCK FALSE`, as those systems really stop: an engine whose requests
have all ended, a runner that was shut down, handlers that have answered, a process that has exited.

### Findings

Where the code does not do what the repository says. The first four are runs.

1. `pool_overcommit`, `paged_kv_cache.py:774`. An overflow rebuild drops the references to shared blocks and protects as
   many private blocks instead. When another request still uses the shared blocks, both are protected, which may be more
   than the pool has. `verify_invariants` then raises after the commit (line 792), and the engine fails the request. The
   Stage 14 design states the invariant without this exception. `pool` checks it for every state in which the engine is
   not about to release such a request.
2. `engine_growth_stall`, `serving.py:3470`. With lazy reservations, a decoder that cannot grow becomes the blocker and
   goes first in each following tick; selection stops at it, and growth pressure looks for victims among DECODING
   requests only. If all others are RECOMPUTING, admitted with the reservation of their history, they wait behind the
   blocker for ever and it waits for their reservation. The Stage 18 design says that finite mixed workloads complete
   without starvation. `engine_lazy` shows that this is the only way not to complete (`CompletesUnlessStalled`).
3. `runner_disconnect`, `engine_runner.py:564`. The worker tests `done()` and then calls `set_result`; a client who cancels
   the future in between makes that raise, and the worker fails every other request. The project overview says that a
   disconnect affects its own request only. `set_exception` at 454, 459 and 500 is called without any test
   (459, for a request that the engine refuses, gives the shortest trace). The same race inside
   `_fail_worker` (line 596) ends the thread with the state still RUNNING: the model's stage `crashed`, the one exception
   of `AcceptedAnswered`.
4. `demo_rollback`, `public_demo.py:2610`. When one of three branches is refused, those accepted are cancelled through the
   same queue that was full; the failure of that call is swallowed, and the branch generates to its end for a client who was
   told 503, outside slot and quota.
5. `pool_rollback` (`RebuildFailureRestores`), `paged_kv_cache.py:779`. A rebuild that fails after evicting restores blocks
   and index but neither the counters nor the eviction notices; the Stage 18 design says that counters are restored.
6. `runner_lost_submit` (`ShutdownAnswersAll`), `engine_runner.py:292`. `submit` tests the state and queues the command
   without a lock. When shutdown and the worker's last look at the queue come in between, the command stays in the queue of
   a dead worker and its future is never resolved; the Stage 12 design says that shutdown completes every channel. A
   streaming submission that is processed while STOPPING gets an exception in its future but no terminal event in its
   stream (line 454).
7. `demo_undercharge` (`SettledForActualTokens`), `public_demo.py:1642`. A completion that times out, or whose client leaves,
   settles zero tokens, while the request that is being cancelled may have generated some. The playground design says that a
   reservation is settled with the tokens actually generated.
8. `demo_hourly` (`HourlyCountsAccepted`), `public_demo.py:2685`. A request that the runner refuses keeps its place in the
   hourly window; the deployment guide (line 139) says that a request counts only when the runner accepts it.
9. `demo_command_queue` (`SubmissionsFit`), `public_demo.py:2592`. The check at line 341, which is to leave "capacity for
   queued submits and cleanup", counts one command for a request, but a story submits three.
10. `training_report_race` (`SamplesCopiedExactly`), `training_report.py:1091`. The samples are read a second time when they
    are copied: a process that appends to them in between puts samples into the report that were never validated.
11. `story_lost_backup` (`PriorAlwaysSurvives`), `story_data.py:1397`. When swapping back fails or is interrupted, `finally`
    removes the staging and the backup directories, and with them the only copy of the previous dataset. The Story Forge
    design says that any failure preserves the prior output. A later process may also restore a backup of which a part had
    been removed already.
12. `comparison_rejects` (`LoadedRunsAccepted`), `benchmark_v2.py:704`. A worker that measured and then exits with an error,
    and one that declares an error and exits without, become records that keep the response (687-718). The comparison takes
    neither for evidence (`benchmark_v2_compare.py:763-768`): the finished run is invalid input, exit code 1, where the
    Benchmark v2 design (line 346) has a run that is not complete be not comparable, exit code 3.
13. `comparison_overlap` (`WrittenStays`), `benchmark_v2_compare.py:1758`. Two processes that write the same comparison at the
    same time: the second replaces the JSON file of the first, finds its Markdown file, and removes the JSON file, while the
    first has reported both as written. The docstring (1736) says "reject collisions rather than overwriting an earlier comparison
    artifact".
14. `runner_inspection` (`ObserversHarmless`), `engine_runner.py:510`. The docstring of `inspect` says that a stale
    observation in the queue is skipped without a race. It is by the worker's loop, but a worker that shuts down tests `done()`
    and then sets an exception: an observer who times out and cancels in between makes that raise, and the orderly
    shutdown becomes a failure.
15. `runner_start_race` (`ShutdownLasts`), `engine_runner.py:401`. A shutdown between the start of the thread and its first
    steps, by another thread or after a `start` that timed out, finds the runner NEW, marks it STOPPED and returns. The worker
    then sets RUNNING and serves, in a thread that is not a daemon, until somebody shuts the runner down a second time. The
    docstring of `shutdown` (363) says that it joins the owner.

## Proofs

TLAPS checks the following for every value of the constants that satisfies the assumptions in the modules.

* **`PagedKVCachePool_proofs!TypeCorrect`**: `Spec => []TypeOK`. `TypeOK` is not inductive: eviction writes the prefix
  index at the hash of a shared block, which has to be a real hash, and promotion indexes a table by the length of the
  hash chain. `TypeInv` adds those two facts (`SharedHaveHash`, `PromotableInTable`). One lemma per action, with the
  types of its LET definitions as named steps. Failure paths are covered: the second outcome of a write, the rollback of
  a rebuild, a promotion that raises.
* **`PagedKVCachePool_proofs!CachedDataCanonical`, `ShutdownFrees`**: `Spec => []SharedContentCanonical` and
  `Spec => ShutdownFreesPool`. `SharingInv` has four parts that need each other. `ViewsCohere`: the free heap, the
  metadata, the tables and the prefix index agree, a reference count being the number of readers. `TableInOrder`: a table
  has each block once and as many as its length needs, a partly filled tail is private and holds the request's own data,
  and the prompt's table is its prefix hit followed by private blocks with the data of their positions, which is what
  promotion publishes. `NothingShared`: without a prefix cache there are no shared blocks, so a rebuild in place may
  overwrite. `SharedContentCanonical` itself. Coherence is stated of any metadata, heap, index and tables, not of the
  variables (`Coherent`), so that evicting, taking, detaching, touching, attaching and promoting get one lemma each and
  the actions compose them; `ReleaseAllFrees` is the shutdown.
* **`PagedKVCachePool_proofs!PrivateCaches`, `PoolStaysConsistent`**: `Spec => ImplementsPrivateCaches` and
  `Spec => []PoolConsistent`. Each lemma of the invariant also says that the other requests are `Untouched`: table and
  data of their blocks stay. What is left per action is its effect on the request itself, one of `Kept`, `Opened`,
  `Extended`, `Replaced` and closed, which `StoreStep` turns into a step of the store. `CacheInv` adds the budget of a
  table (`InBudget`: a promotion exchanges reservation for shared blocks one for one) and that a table has no unwritten
  block, which tells an open cache from a closed one.
* **`PagedKVCachePool_proofs!ReservationsHold`**: `Spec => []ReservationsCovered`: the free and evictable blocks
  always cover what reservations may still claim. The invariant `CoverInv` adds to `CacheInv` that every open cache has a
  maximum within the pool (`MaximaFit`) and states the cover of trusted caches only: the blocks that they protect are
  counted as a set (`ProtectedBy`), so that promotions and rebuilds, which rearrange who holds which block, only have to
  say how the set changes.
* **`ServingEngine_proofs!LifecycleImplemented`**: `Spec => ImplementsLifecycle`. The invariant `LifecycleInv` says that
  the queues hold requests of the statuses that belong there, once each (`QueueTrue`), and that a live request with
  output has not reached its maximum (`TokensTrue`). The first is needed because the head of a queue must be a live
  request for its rejection to be a step of the lifecycle, the second because a token must leave room for itself. Lemmas
  for the ways a step can change a request (`Quiet`, `Retires`, `Stays`, `Yields`, `Fails`, `HeadLeaves`) keep the proof of
  each action short.
* **`ServingEngine_proofs!CancellationFinal`**: `Spec => CancelIsFinal`. `PendingInv` says that pending requests are live
  and that there are none after the admission stage: the work of a tick meets no pending request, since a cancellation is
  requested between ticks.
* **`ServingEngine_proofs!BookkeepingHolds`, `SelectedWorkCovered`, `BlockerResident`**: `Spec =>
  []BookkeepingConsistent`, `[]WorkIsCovered`, `[]BlockerIsResident`, for lazy and eager reservation, with and without
  preemption and chunks. `EngineInv` needs the three at once: capacity is respected because a growth is granted only to
  a request whose cache agrees with its status (`CacheOf`, `QueuesTrue`); selected work is covered because the growth
  comes before it and nothing that follows in the tick takes a reservation back, except a preemption, which must not hit
  selected work; and this holds because the blocker waits for more than it has reserved, while selected work has what it
  needs. Sums over requests are stated as cardinalities of sets of slots (`DemandMonotone`). `InStatus` picks the members
  of a queue by their rank (`Subsequence`), as the provers cannot open the recursion inside `SelectSeq`.
* **`BatchedExecution_proofs!BatchingAlwaysInvisible`**: `Spec => []BatchingInvisible`, for any requests, prompts,
  vocabulary, window, block size and batch limits, and each of the nine executors. The computation of the model (`Causal`),
  the packing of batches (`Batches`), the commits of a call (`Committed`) and `FlattenSeq` are recursive functions; each
  gets a lemma that its recursion has a solution, by smallest counterexample, and after that only the equation is used.
  Of `Causal` it follows that no entry depends on a later token (`CausalFirst`) and that a sequence may be run in segments
  (`CausalConcat`). From these a row of a padded prefill, of a padded decode and of a segment is exact whatever the length
  of the call (`PrefillExact`, `DecodeExact`, `SegmentExact`), which is what a wrong mask, position or slice would break.
  `BatchesSound` says that packing loses no row, keeps the order, and ends a batch only when the next row does not fit;
  every row has its call (`PrefillCovered`, `DecodeCovered`). `PromotedExact` says that promotion changes no entry of its
  request and that each new shared block has the right boundary logits: the offset into the logits of earlier chunks is
  right (`NewBlockExact`). `ExecutionInvariant` is what `BatchingInvisible` needs of a prompt under way
  (`PromptUnderWay`): its cache is what the model alone computes of a prefix, the blocks attached to it are still known,
  which is why eviction may not take them, and behind them are exactly the logits of its chunks. It says the same of a
  request that decodes or was preempted. TLC checked it on the instance of `engine_preempt` before it was proved. One lemma
  per action; `CommitOutcome` and `Applied` treat what a call leaves of the rows that failed and those that did not.
* **`EngineRunner_proofs!StreamsAlwaysFaithful`, `RunnerAlwaysConsistent`**: `Spec => []StreamsFaithful` and
  `[]RunnerConsistent`, for any requests, streams, buffers and queue sizes. Neither is inductive: a stream is faithful
  only because of what is still to be published. `IInv` relates the two: an open stream lacks exactly the token whose
  event waits (`StreamsTrue`), the events of a tick are for each request at most a token and an end, in this order, and
  tell what it has come to (`EventsTrue`), and a request that has ended is closed or its end waits (`ClosedInTime`). The
  rest says that a submission is queued once and before its channel (`SubmissionsFresh`), that channels are the accepted
  requests (`ChannelsTrue`) and what holds at each stage of the worker (`StagesTrue`). The place kept for the terminal
  event (`StreamSize`) is used in `EndedStream`: with the tighter size a token would be displaced. The theorems are about
  the lifecycle that `LifecycleImplemented` proves of the engine.
* **`PublicLimits_proofs!SlotsAlwaysConserved`**: `Spec => []SlotsConserved`, for any number of tasks, slots and places in
  line. `IInv` has two parts. `Sound`: a task with a lease has no future, the line has each task once and exactly the
  waiting futures, and an interrupted task's future is cancelled or has a result. `Balanced`: the counter of active slots
  is the number of owners and at most the maximum; it needs `Sound` because a hand-over must find its waiter in the line
  once, and a task which withdraws must own the slot it passes on.
* **`PublicLimits_proofs!FifoSlotsImplemented`, `NeverIdle`**: `Spec => ImplementsFifoSlots` and `Spec => []NoIdleSlot`: a
  slot is vacant only while no live waiter is in line (`Orderly`), so that a task that comes later cannot pass one. The
  line of `FifoSlots` is the subsequence of live waiters. Appending, cancelling a waiter anywhere in it, and handing over to the
  first one are lemmas about subsequences (`SubsequenceAppend`, `SubsequenceWithout`, `SubsequenceMoved`); each action is
  then a step of the abstract line or a stutter.
* **`PublicLimits_proofs!WindowsAlwaysRespected`, `DecisionsAlwaysExact`**: `QuotaSpec => []WindowsRespected` and
  `[]DecisionsExact`, for any requests, limits and windows. The promise is about the whole history, which the quota
  forgets. `HourKept` says that the deque of requests is the history of the last hour, by id. The deque of settlements
  has no ids, and equal ones are the same to it; `DayKept` says that for every moment of the last day the deque adds up to
  what was spent after it. A settlement adds the same to both sides, pruning drops what no such moment reaches, and time
  leaves fewer moments. That pruning from the head finds all that has expired (`YoungCuts`) needs the deques to be in the
  order of time; that no window exceeds its limit needs that what is reserved fits beside what was spent (`IInv`). `IInv`
  was checked by TLC on the instance of `limits` before it was proved.
* **`PublicDemo_proofs!LeasesAlwaysFollow`, `EachCountedOnce`, `WorkIsPaidFor`**: `Spec => []LeasesFollowHandlers`,
  `[]CountedOnce` and `[]PaysForItsWork`, for any requests, branches, limits and queue sizes. `PolicyAssumption` is what
  `PublicDemoPolicy.__post_init__` enforces (lines 200-222) and what a request is. The invariant relates a handler's place
  to what it holds and has told (`HandlersSound`), the works in the runner to the commands, futures and streams about them
  (`EngineSound`), and what a request counted and paid to what its works made (`PaymentsSound`). The third needs the
  second: what a handler reads from a stream is what the engine generated only because a stream holds no more than its work
  made, ends after it, and no work is submitted twice. The actions are sorted into a few kinds of step by what they change (`StepKinds`), and the
  invariant is shown kind by kind.
* **`PublicDemo_proofs!LimitsUsedAsSpecified`**: `Spec => UsesLimits`: every step of a handler is a step of `CapacityGate`
  and of `GlobalQuota`, or a stutter of it, so the theorems about these two hold of the demo.
* **`CollectionTheorems`**: what sums (`SumFunction`) and subsequences compute, for every finite set and queue. The
  induction theorems of the library take an operator, which the provers cannot instantiate; these lemmas take a smallest
  counterexample instead, which exists since the naturals are well-founded (`LeastNumber`). That the recursion of a sum
  has a solution at all is shown by exhibiting one, the number of the units it adds up.
* **`Files_proofs!ResumeExact`, `JournalTrue`, `ReportTrue`**: `Spec => []ExactResume`, `[]JournalTruthful`,
  `[]ReportSound`, for any numbers of steps, intervals, boundaries and processes. `IInv` is the conjunction of what each
  place holds: the files (`FilesExact`: a checkpoint and the records are prefixes of one uninterrupted run, unless
  something disturbed them), the memory of the process (`MemoryExact`), the chain of the journal's segments
  (`JournalFollows`, by `Linked`), and what the report has copied so far (`ReportsExact`). One lemma per action.
* **`Files_proofs!SegmentsAlwaysSuffice`**: `Spec => []SegmentsSuffice`. `Undisturbed` says what an undisturbed
  experiment has recorded at each stage of a process (`FilesFollow`): the lines and the samples of exactly the steps so far,
  and between processes those of the last segment. `MetricsOfAllSteps` and `SamplesOfAllSteps` say when the report accepts
  these: the property is an equivalence, so that what the report asks of the experiment itself (`Reportable`: a validation,
  `training_report.py:396`, finite losses, a last one of at most 90% of the first, 533, a sample of the last step, 550) is
  all it asks. The instance of `files` has one schedule; the theorem is about each, and any losses.

* **`Files_proofs!BenchmarkAlwaysTruthful`**: `BenchmarkSpec => []BenchmarkTruthful`, for any configuration and any
  answers. `BenchmarkInv` says at each place what the records are (those of the first tasks, each as its worker answered:
  `RecordsTrue`), what the raw file has of them (`RawTrue`, `EvidenceTrue`: at most one more than the memory, and exactly
  the memory from the moment the report has replaced it), that tasks run only after a preconditioning that did not fail,
  and what the manifest binds. `StatusOfMeasured` is `_final_status` in terms of the workers' answers. Most steps keep the
  records and the lines (`Settles`); the others have a lemma each. TLC checked
  `BenchmarkInv` on the instance of `files` first.
* **`Files_proofs!ReportsAlwaysPaired`**: `ReportSpec => []ReportsPaired`, for any number of processes. `WritersInv` adds
  what a process knows of the files at its place (`WriterKnows`), which holds as long as only one is at work.
* **`Files_proofs!QuotasExact`, `StoriesAreSafe`**: what `compute_quotas` promises, and `StorySpec => []StoriesSafe`, for
  any worlds, tones, sources and amounts. The quotas are added up cell by cell: `GrownTotal` and `TrimmedTotal` say what
  giving to the first cells of a world and taking from its last does to its sum, `FirstWorlds` and `SharesFit` that the
  shares of the worlds add up to the request, so that nothing is over when the last rounds begin, and `FilledExact` that
  these end exactly at the request: `RoundsExist` finds the last full round, `TurnsCount` counts the turns of the one
  after it. For the second pass, `HeapExact` says of each cell that its heap has the first of the rows read so far, as many
  as its quota: `PushIsExact` shows it of one more row, whatever the order. It needs rows of one id to differ
  in their text, and `_finalize_records` refuses them in the end: so the ids, and with them the ranks, of a selection
  are distinct (`NoDuplicates`), which is what ordering it by rank needs (`RanksOrder`). Of this the selection follows
  (`HeapsSelect`). For the swap, `SwapSafe` says at each place of a process where a whole dataset is: with nothing in the
  output the backup is whole or there is none, and a process that found an output can put one back. `StoryInv` is all of
  this; TLC checked it on the instance of `files` with two processes before it was proved. `StoryAssumption` is what the
  proof needs of a source: it is finite, amounts are positive, and no two ids have the same SHA-256.

* **`Files_proofs!VerdictsAreJustified`**: `BenchmarkSpec => []VerdictJustified`, for any configuration, baselines and
  policies. `DocumentsTrue`, which needs `BenchmarkInv`, says which artifacts are written at each place, and that each then
  says what the final records imply: so a run that loads is read as `Describes` puts it, by the answers of its workers alone
  (`LoadedIsInput`), and so is a finished baseline (`FinishedDescribed`). What remains speaks of one run's answers:
  `RecordsAreLines` and `SummaryOfMeasured` turn its summaries into statements about the times that were measured, and
  `NoRunReasons` and `NoCaseReasons` each reason of `Comparison` into a part of `Fair`; `VerdictByDesign` puts them
  together. Two lemmas carry the numbers: `UnstableIsApart`, that the code's coefficient of variation is above its limit
  if and only if the distances between each two of the times say so, and `MedianIsMiddle`, that the median taken by rank is
  halfway between the least and the greatest of the times that have half of all on either side. They are for any number
  of times; the run has up to two of a case. The proof needs times to be positive, which the parser of a worker's response
  requires (`benchmark_v2.py:538`), and the numbers of policies and configurations, as theirs do (`benchmark_v2_compare.py:1200`).

Beyond the provers is liveness, as it needs fairness and ENABLED: TLC checks it. `BookkeepingConsistent` of
`MCServingExecution` names the proved property of the composed modules.

## Not modelled

About half of the repository's 50,000 lines measures, renders or validates documents: the evidence builders of the stages,
the batcher benchmark, the metrics of the simulator, the report renderers. They are functions from files to files, without
steps that another actor could meet. Of the rest:

* Engine: prefix hits at admission that need no model work (exact prefills), two ticks at the same logical time,
  `release_all_cache_resources`, the event list and metrics.
* Pool: metric counters other than evictions; tensors and their shapes.
* Runner: requests without output, whose events come out of `submit`; the timeouts of `shutdown`, after which its caller
  gives up; the event log and `owner_thread_id`.
* HTTP server and demo: parsing, validation, headers, policy files, read-only endpoints. The handlers of the former are
  the clients of `EngineRunner`, those of the latter are `PublicDemo`.
* Numerics of training and sampling: weights and logits are what they were computed from.
* Tokenizers and batching: pure functions, covered by the tests of the repository.

## Plan

Done: the core of serving (pool, scheduler, executors, runner), the demo, and the programs that leave files.

Left: prefix hits and ticks at the same time in `ServingEngine`; the timeouts of `shutdown` and a second caller of it in
`EngineRunner`.
