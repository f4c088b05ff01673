# Verification of Vidur

Vidur (`src/vidur`) is a discrete-event simulator of clusters that serve large language models.
A workload of requests (each a prompt of *prefill* tokens and an output of *decode* tokens) is placed
on replicas; each replica's scheduler packs requests into batches, allots them blocks of KV-cache
memory, preempts and restarts them; each batch goes through the pipeline stages of its replica in
simulated time; a metrics store records what happened. The time of a batch is predicted from profiles
of GPUs that were measured before, and an explorer runs many simulations to find the load a cluster
bears. The repository has no test suite: what the program must do is written in a few assertions,
comments and `docs/metrics.md`.

This directory holds TLA+ modules of that program, the TLC configurations that check them on small
instances, and theorems with proofs checked by TLAPS about the vLLM, Sarathi, LightLLM and
FasterTransformer schedulers, the simulator, the explorer, the profiling of the collectives and the cache
of predictions.

## Inventory

| component | state | operations | what is hard |
|---|---|---|---|
| `simulator.py`, `events/` | clock, termination flag, heap of events, id counter | `run`, `_set_time`, seven `handle_event`s | events of one time are ordered by id alone; every waiting actor must have an event that will wake it |
| global schedulers | request queue, round-robin counter | `add_request`, `sort_requests`, `schedule` | one schedule event per arrival, all but the first of a time step find an empty queue |
| base replica scheduler | `_request_queue`, `_num_allocated_blocks`, `_allocation_map`, running batches | `add_request`, `on_schedule`, `allocate`, `free`, `is_empty` | the counter of blocks is kept apart from the map; several batches per call |
| vLLM scheduler | `_preempted_requests` | `_get_next_batch`, `_can_allocate_request`, `_allocate_request`, `on_batch_end` | eviction moves requests between three structures inside two loops; starvation |
| Sarathi scheduler | `_preempted_requests`, skipped and partly prefilled requests | as vLLM, with chunks | a partly prefilled request can be the victim |
| Orca scheduler | `_preempted_requests` | as above, memory reserved per sequence | a slot that is not returned |
| FasterTransformer scheduler | `_preempted_batches`, `_pending_free_map` | batches live until their last request ends | memory of requests that end early |
| LightLLM scheduler | `_cache_len_list`, `_num_waiting_iters` | prefill batches and decode batches | assertions on the size of a decode batch |
| stage scheduler | `_batch_queue`, `_is_busy` | `add_batch`, `on_schedule`, `on_stage_end` | a schedule event may find the stage busy or idle |
| request | token counters, times, flags | `on_batch_schedule`, `on_batch_end`, `on_batch_stage_*`, `restart` | a restart turns output into prompt; 0 stands for "never" |
| metrics store | series, histograms, meters, options | `on_*`, `plot` | flags that select what is stored; means weighted by time; tables joined by id |
| configuration | tree of dataclasses | `create_flat_dataclass`, `create_from_cli_args`, `reconstruct_original_dataclass` | names joined to flat ones and taken apart again; order of the reconstruction |
| request generators | traces, current time | `generate`, `get_next_*` | conversions of token counts at their limits; traces that end |
| memory planner, replica, cluster | static numbers | `get_max_request_slots`, `ParamCounter` | roundings per layer, stage and worker |
| execution time predictor | trained models, tables of predictions, cache files | training, prediction, `get_execution_time` | which data trains what; tables of limited size; a cache shared by processes |
| profiling | process groups of the runners, rows | `profile_model`, `run_collective` | runners of one collective must agree on their group |
| config explorer | bounds of the search, CPU core table, result directories | `search`, `get_cpu_core_id`, `release_cpu_core_id`, `run` | bounds that move both ways; cores that are not released; results of earlier runs |
| config analyzer, utilities | - | - | presentation, helpers |

How they interact: `Simulator.run` pops the event with the least (time, id) and calls its handler with
the global scheduler; the handler calls the schedulers and entities and returns new events.
`RequestArrivalEvent` puts a request into the global queue and makes a `GlobalScheduleEvent`, which
places all waiting requests and makes a `ReplicaScheduleEvent` per replica it used; that one forms
batches for the free stages and makes a `BatchStageArrivalEvent` for stage 0 per batch; arrivals and
ends of batches at a stage make `ReplicaStageScheduleEvent`s; the end of the last stage makes a
`BatchEndEvent`, which returns the batch to the replica scheduler and makes the next
`ReplicaScheduleEvent`. Handlers run to completion: inside a simulation all concurrency is between
events. Real concurrency is outside of it: the runners of the collectives, the simulations that share a
cache of predictions, the tasks of an exploration that share cores and result directories.

The hazards of this code, each at its line and with the properties that cover it, are in
`PROJECT.json`.

## Modules

| module | models | kind |
|---|---|---|
| `RequestEntity` | the token counters of `Request` | operators on records |
| `RequestTimes` | the times of `Request` | operators on records |
| `ReplicaScheduler` | `BaseReplicaScheduler` and the events that call it, for one replica | base of the scheduler modules |
| `BlockScheduler` | what vLLM and Sarathi have in common: memory in blocks, watermark, sorting | base of the two |
| `VllmScheduler` | `VLLMReplicaScheduler` | state machine, properties, inductive invariant |
| `SarathiScheduler` | `SarathiReplicaScheduler` | state machine, properties, inductive invariant |
| `LightLLMScheduler` | `LightLLMReplicaScheduler` | state machine, properties, inductive invariant |
| `FasterTransformerScheduler` | `FasterTransformerReplicaScheduler` | state machine, properties, inductive invariant |
| `TokenService` | what a replica scheduler promises | abstract specification |
| `ServiceRefinement` | a scheduler on `ReplicaScheduler` implements `TokenService` | refinement mapping, used for vLLM and LightLLM |
| `ReplicaLemmas` | - | lemmas on sequences used as queues, sums and inductions over finite sets, and on the operators of `ReplicaScheduler` and `ServiceRefinement` that the proofs of the schedulers share |
| `VllmScheduler_proofs`, `SarathiScheduler_proofs`, `LightLLMScheduler_proofs`, `FasterTransformerScheduler_proofs` | - | theorems about each scheduler |
| `Simulator_proofs` | - | theorems about the simulator |
| `Explorer_proofs` | - | theorems about the explorer |
| `Offline_proofs` | - | theorems about the collectives and the cache |
| `SarathiPredictions` | a Sarathi replica that looks up its batches in the predictor's tables | composition of `SarathiScheduler` and `Predictor` |
| `Simulator` | event heap, global schedulers, Orca replica schedulers, stages, request times | composition, properties, inductive invariants |
| `ExecutionTime` | `ExecutionTime` and the operations stored of it | operators |
| `DataSeries` | `DataSeries`, `SeriesAverageMeter`, the joining of tables | operators on sequences |
| `MetricsStore` | `MetricsStore` beside `Simulator` | state machine over that of `Simulator`, properties |
| `ConfigTree`, `FlatConfig` | `config.py`; `flat_dataclass.py` | data; algorithms and their reference definition |
| `Models` | model, device and node configurations, `Replica`, `ParamCounter`, `MemoryPlanner` | data and operators |
| `Workload` | the length and interval generators, the trace replay | operators |
| `Setup` | `Simulator.__init__`: command line, replicas, memory, workload | state machine, properties |
| `Profiling` | the inputs and rows of the profilers | operators |
| `CollectiveProfiler` | driver and runners of `profiling/collectives` | state machine, property, inductive invariants |
| `Predictor` | `SklearnExecutionTimePredictor`: data, tables, lookups | operators |
| `PredictorCache` | simulations that share cache files | state machine, properties, inductive invariants |
| `Offline` | profiling followed by simulations | composition of `CollectiveProfiler` and `PredictorCache` |
| `JobConfigs` | the explorer's configurations | operators |
| `Explorer` | `ConfigExplorer`, `CapacitySearch`, `CpuAssignmentManager` | state machine, properties, inductive invariants |
| `MC...` | - | constants for TLC |

Definitions keep the source's names. Definitions whose comment begins with "Seeded fault" are used by
no specification: each is a plausible bug that the property named for it in `PROJECT.json` must catch.

### One replica: `ReplicaScheduler`, `VllmScheduler`

State as in the code, with the batches in the pipeline (`running_batches`, oldest first), the
`ReplicaScheduleEvent`s of this replica that wait in the heap (`schedule_events`) and, as history, the
lengths each request arrived with (`asked`). A handler's loops are taken one iteration per step: `pc`
names the loop being executed, and while it is not `"idle"` only that loop's steps are enabled, so that
steps of different handlers do not interleave, as in the code.

| action | code |
|---|---|
| `AddRequests` | `GlobalScheduleEvent.handle_event`, for the requests of one arrival time |
| `OnSchedule`, `ReturnBatch` | `ReplicaScheduleEvent.handle_event`, `BaseReplicaScheduler.on_schedule` |
| `Admit`, `AdmitDone` | first loop of `_get_next_batch` and what follows it |
| `Resume`, `Evict`, `ResumeDone` | second loop of `_get_next_batch`, its inner loop and its else branch |
| `BatchEnd`, `EndRequest`, `BatchEnded` | `BatchEndEvent.handle_event`, `Batch.on_batch_end`, `on_batch_end` of the scheduler |

What this model takes for granted about the rest of the system - batches of a replica end in the order
they were dispatched, and at most one `ReplicaScheduleEvent` of each cause waits, which is handled
before the next batch ends and before more requests come - is the invariant `PipelineIsFIFO` of
`Simulator`, checked and proved there. Times are left out: the order of batch ends and arrivals is any order that
respects them.

### The other schedulers

All of them run on the state, events and pipeline of `ReplicaScheduler`; each adds its own variables and
the loops of its `_get_next_batch`.

| module | state added | actions and code |
|---|---|---|
| `SarathiScheduler` | `running_prefills`, `skipped_requests` (locals of `_get_next_batch` that live as long as its loops) | `SetAside`, `Resume`, `Evict`, `DecodesDone`: the loop over preempted requests; `ContinuePrefill`, `PrefillsDone`: the loop over prefills under way and the sort after it; `Admit`, `AdmitDone`: the loop over new requests |
| `LightLLMScheduler` | `num_waiting_iters` | `TryPrefill`, `StartDecode`: the choice of `_get_next_batch`; `Admit`, `PrefillDone`: `_get_prefill_batch`; `Decode`, `DecodeDone`: `_get_decode_batch` |
| `FasterTransformerScheduler` | `preempted_batches` | `RunAgain`: `_generate_next_batch_from_preempted`; `Admit`, `AdmitDone`: the admission loop; `FTBatchEnd`: `on_batch_end` and the event that calls it |

LightLLM's look-ahead sorts an array of tuples and takes the maximum of products and cumulated sums; the
model says what that is: for each request, the memory held by those that outlive it at the moment it ends
(`HeldWithLast`). The `RuntimeError` for lack of memory is not an action: `StartDecode` needs `CanDecode`,
and the invariant `NeverOutOfMemory` says that it holds whenever a decode is due. Sarathi's branch for
skipped requests is modelled and, as `NoneLeftBehind` shows, never taken while
`_max_micro_batch_size` is at most `chunk_size` (`DecodesFit`; the code does not compare them).

### The whole system: `Simulator`

The heap is a set of events with their times and ids; each of the seven actions pops the least and
performs the whole handler, with all the calls it makes. Data that the properties do not tell apart is
abstracted: the predictor gives any time of `ExecutionTimes`; Orca's memory, which comes in portions of
`_max_blocks_per_sequence`, is counted in `Slots`; the order in which Python iterates over the set of
replicas is any order. Configuration (`time_limit`, `policy`) is chosen in `Init`, so that one run covers
several configurations. The sort of the global queue by arrival is said by its result (`SortedQueue`). History
variables: `in_flight` (the batches of a replica in dispatch order), `token_times` (what the metrics store
recorded for a request's decode tokens), `started_at` (when the first stage took a request, -1 before) and the
`cause` of a `ReplicaScheduleEvent`.

### Metrics: `MetricsStore`

Each of its actions is an action of `Simulator` together with the handler of the store it calls, so the
store sees the events of the simulation in every order the heap gives. The flags are chosen in `Init`.
The values of an operation are positive numbers of a record per prediction (`ExecutionTime`); a sketch of
a distribution is what was put into it. `Plot` writes the tables, curves and means once no event is left.
History: `occupied` (slot-milliseconds in use) and the chrome trace of the stages, which the store's
meters are compared with.

### Setting up: `Setup`

One step per part of `Simulator.__init__`, and one per request that is generated. A replica, a generator
or a request that fails an assertion ends in `"failed"`, an unknown argument in `"rejected"`. Strings of
the command line are strings of TLA+, because names are joined and taken apart again; the distributions
are the sets they are drawn from. The configuration is rebuilt by the program's algorithm (`Reconstruct`)
and compared with the one described by the arguments (`Described`).

### From profiles to predictions: `Offline`

A row of a profile says which inputs and operations it is about, not how long they took; a trained model
is a value that stands for the data it was trained on, a table for its model and the inputs it was
computed for. `CollectiveProfiler` has one action for each thing a runner does alone (`Begin`), one for
the barrier a new process group needs (`JoinGroup`) and one for a collective (`RunCollective`), which
need all members. `PredictorCache` interleaves the simulations between looking for a file, computing,
opening (and so emptying) and closing it, under the locks of the code; a simulation may be killed between
any two of these.

### The explorer: `Explorer`

Tasks run on their own (`Work`), the driver hands out cores and waits (`Drive`). Loads are whole numbers
in units small enough for the halvings of the search. The delay of a run is a function of the load, one
of `LoadProfiles`, which gives each job a profile of its own. In `explorer` Sarathi's simulations may
succeed or fail as they like and vLLM's fail; in `explorer_args` a simulation succeeds when `FlatConfig`
accepts its arguments.

A result file is being written, whole, or partial for good: of a simulation that was killed while it wrote,
or of one that failed and wrote at its exit what it had till then (`simulator.py:49`). `_is_under_sla` reads
whatever file the directory holds and takes the quantile of the rows that are there, so that a file that is
not whole reads as any delay (`Readings`), or cannot be read when not even its header is there: before a
run that is outside of the `try` and the task crashes, after it the search breaks off. The exit status of
the simulator is not looked at. `Leftovers` are the jobs of earlier explorations, of this or of another
configuration; one of their results, whole or partial, may be there from the start (`LeftBehind`).
Directories are on the disk of a node, which nodes may share. What a warm-up found is forgotten, as in the
code, but for the files it wrote.

## Runs

| run | question | bounds |
|---|---|---|
| `vllm` | with two batches in flight under memory pressure: is the inductive invariant an invariant, do the assertions hold, is output neither lost nor repeated, is the youngest evicted, is the scheduler a token service that serves everybody? | 4 requests, the last two arriving together, 2 stages, 5 blocks of 2 tokens, watermark 1, at most 3 admitted |
| `vllm_hang` (violation) | does the final assertion hold without a watermark when the blocks are just enough? | 2 requests, 3 blocks |
| `sarathi` | are requests, memory and budgets kept with chunked prefills, is every batch in the predictor's tables, does every request complete? | 4 requests, two arriving together, 2 stages, 8 blocks of 2 tokens, chunks of 3 |
| `sarathi_restart` (violation) | does a restart prefill again all that the request had? | as `sarathi` |
| `lightllm` | is the look-ahead sound, is memory exact, is the scheduler a token service? | 4 requests, memory for 9 tokens where one request takes up to 6, 2 admitted at most |
| `ft` | are batches static, is nothing lost, does every request complete? | 4 requests, 2 stages, memory for 2 of them |
| `sim_cluster` | the whole system under each global scheduler: wake-ups, conservation, order of batches, times, final assertion, time limit; the inductive invariants of their proofs (all in `SimInv`) | 4 requests, the last one arriving at time 1 and the others at 0, 2 replicas of 2 stages, execution times 1 and 2, no time limit or one of 2 |
| `metrics` | do times, meters, series and files say what the simulation did? does every request complete? | 3 requests, 1 replica of 2 stages, 2 predictions, all metrics or those of some batches |
| `setup` | is the configuration the one described, does the memory fit, can what is generated be served and is it what was asked for? | 12 command lines over every scheduler, generator and kind of failure; traces of 3 and 6 rows |
| `offline` | do the runners agree on their groups, do the collectives' rows suffice, do simulations read whole files, models of their own and tables that differ in no more than their names leave out, does everything end? | 2 nodes of 2 GPUs, 2 collectives, 2 simulations in 5 pairs of setups, `Lead` 2, `Kills` 1 |
| `explorer` | are cores exclusive, results a job's own, a converged search that read nothing foreign or partial exact; does the exploration end? | 3 jobs, 2 nodes of one core that share a disk, 4 iterations, granularity 100 / 5 %, 2 load profiles, `MaxPartial` 1, a left-over result of the first job of the same configuration or of one with another trace and a larger cluster |
| `explorer_args` (violation) | is there a result after a simulation? | as `explorer`, but each node with a disk of its own, one load profile, 8 iterations and no left-over results |

Why the bounds are enough: prompts of 1 and 3 tokens and outputs of 1 and 4 with blocks of 2 make
requests that start on and off a block boundary, cross one or two boundaries while decoding, or complete
with their prefill. With 5 blocks and 4 requests there are states with an admission refused by each of
the four conditions, evictions of one and of several victims in one call, self-eviction, and requests
evicted twice. In the simulator three or four requests, all but one arriving together, with two execution
times give batches that queue at a busy stage, stages that end and receive batches at one time, and
replicas that end batches at the time of an arrival.

For Sarathi prompts of 1 and 5 tokens and chunks of 3 give prefills of one and of two chunks, chunks cut
short by decodes of the same batch, evictions of decodes, of half-way prefills and of the decode itself;
the tables are the smallest that hold one request. LightLLM's 9 tokens hold two long requests only when
their decodes do not peak together, with a limit of 2 waiting iterations prefills are tried in the middle
of decodes and fail, and the cap of 2 is reached. With memory for two FasterTransformer requests, one
leak halves the replica.

`metrics` limits the requests that are longer than one token (`MCInit`) to two, or to one when only some
batches are stored: with three the state space is too large, with two they meet in batches, overtake
nobody and queue at the second stage. Of the bounds of the other runs, `Lead` keeps the simulations of
`offline` within two files of each other, which is where they can meet at a file; `Kills` is the number of
processes killed; `MaxPartial` limits the partial results of `explorer`: a simulation only leaves one
while there are fewer; a left-over result is at the first load a search tries; `Offsets` are two of the
five random offsets of a curve's points; `LongestGap` cuts the exponential and gamma intervals of `setup`, which
have no largest value; `Precision` is at least 5 (a granularity of 20 % or finer), so that the search may
not stop before it has tried a load within its first bounds nor between two bounds of which the right one was not tried.

Some properties say themselves what they leave out, each a fault of the code (see the divergences).
`RequestsServable` excludes a replayed output that takes all tokens, and a replica with one slot.
`SearchExact` excludes searches whose key has a result of another configuration or a partial one
(`Spoilt`): nothing compares the first or checks the second, and TLC finds searches with a
wrong result as soon as the exclusion is dropped. When a load had a delay of more than 500 s and its half
is not above the capacity, a converged search may have missed the capacity; it never exceeds it.
`ResultsAreOwn` allows the result of an earlier exploration to differ in what the key leaves open.
`FreshPredictions` allows a table that is another's when the two differ only in what its name leaves out
(`Confused`); in `offline` one pair of setups differs in the stages and in the granularity and does take
each other's `attn_*` and `send_recv` tables, the others differ in what is part of the name.

### Fairness

`Simulator.run` takes an event as long as there is one, and the handlers terminate: `WF_vars(Next)` for
the schedulers, `Simulator` and `MetricsStore`. Nothing is assumed about which action is taken. `vllm`,
`sarathi` and `lightllm` have memory that can hold the longest request and its watermark; `vllm_hang`
shows why that is needed. `offline` assumes that the profiler, the start of the simulations and each
simulation go on (`WF` of each), which is what the operating system's scheduler gives processes that do
not wait for a lock, and says nothing of kills; `explorer` assumes the same of the driver and of each
task.

### The abstract specification

`TokenService` is what a user sees of a replica: at most `Capacity` requests are admitted, an admitted
one produces its output token by token, may be thrown out and started again without losing any of it, and
in the end is served. `ServiceRefinement` maps the state of a block scheduler to it; `vllm` and `lightllm`
check safety and liveness of the refinement. Sarathi is left out because of `sarathi_restart`: the rest of
a prompt comes out as output. `FlatConfig` compares an algorithm with the definition of its result in the
same way.

### Divergences

* `vllm_hang`: a preempted request alone on its replica that needs no new block is still asked for a free
  one; with none it evicts itself, and with its decoded tokens now part of its prefill and a whole number
  of blocks taken it may never be admitted again. The assertion at the end of `Simulator.run` fails.
  The condition under which this cannot happen, for requests of T tokens in all:
  ceil((T - 1) / block_size) + max(1, watermark) <= num_blocks and T - 1 <= max_tokens_in_batch.
* `sarathi_restart`: `Request.restart` makes the tokens processed so far the prefill, "all the previously
  decoded tokens". Sarathi also evicts requests whose prefill is half done; their prompt is shortened to what
  was prefilled, and the rest of it is later decoded one token at a time as if it were output.
* `explorer_args`: the explorer gives the simulator `--synthetic_request_generator_config_max_tokens`
  (`config_explorer/config/config.py:44`), but that class has no such field (its `max_tokens` is set in
  `__post_init__`), so that the command line is rejected and "Result file not found"
  (`capacity_search.py:115`) ends every search.

Met while modelling and not checked by a run:

* FasterTransformer: the memory of requests that end before the last one of their batch is never freed
  (`_pending_free_map` is never filled), so that the final assertion of `Simulator.run` fails as soon as
  outputs of one batch differ in length. `ft` shows that every request still completes: the last one of
  each batch frees its own.
* `types/event_type.py:5` wants schedule events last in a time step; the heap's key uses the id before the
  type (`base_event.py:45`).
* `docs/metrics.md:24` equates execution plus preemption time with completion minus schedule time; the wait
  for the first pipeline stage is in neither term. `MetricsAddUp` starts at the first stage.
* `metrics_store.py:206`: the memory meter takes `save_table_to_wandb` for `use_weighted_mean`; without it
  the mean is over the changes, not over time (`docs/metrics.md:38`). `UtilizationExact` speaks of the
  weighted mean.
* `data_series.py:179`: a random offset turns the order of the points of a subsampled curve round, so that
  the file is not in the order of time; `FilesComplete` therefore compares the points, not their order.
* `series_average_meter.py:38`: a last point at time 0 is taken for no point, so that what a meter had from
  then to its second point at another time is in no sum: a stage that starts its first batch at time 0, as with
  static intervals, does not count as busy until that batch ends ("percentage of time a given replica stage is
  executing something", `docs/metrics.md:39`). In `metrics` the first request comes at time 1.
* `sklearn_execution_time_predictor.py:901`: granularity, tokens per request, number of stages and the
  training data are not part of the name of a table of predictions; simulations that differ in one of them
  take each other's. The default grid of the explorer (pipelines of 1, 2 and 4 stages over one cache,
  `config_explorer/config/config.yml:44`) shares the table of `send_recv` between replicas within a node
  and replicas that span nodes, whichever is predicted first, though they train from different rows.
* `sklearn_execution_time_predictor.py:307`: a simulation killed while it writes leaves part of a file,
  on which all later ones fail. `NoTornRead` shows that nothing else leads there.
* `profiling/utils/__init__.py:192`: a combination given twice on the command line asks for its pairs of
  counts again after others. Runners that took no part in between remember the pair as their last
  (`benchmark_runner.py:55`) although they left its group at line 45, and would run the collective without one.
  `GroupIsTheInput` holds for combinations that differ.
* `trace_replay_request_generator.py:53`: an output that takes all tokens leaves no prompt; with a single
  slot (InternLM 20B on an A40) the watermark is taken from the only sequence's blocks, so that its longest
  prompts are never admitted.
* `synthetic_request_generator.py:59`: a trace of intervals that ends before the duration is an
  `AttributeError`; static intervals with a duration never end.
* `capacity_search.py:164`: a delay over 500 s moves the right bound to half of a load that may be under the
  left one, and the branch for more than 1000 s is never reached. If it is also below the capacity, the
  search may converge there.
* `capacity_search.py:74`: a result file that was only written in part parses once its header is there, and
  the quantile of the rows it has decides the iteration, before a run (line 98) as after one (line 114); the
  simulator's exit status is ignored, and one that fails writes the delays it has so far at its exit
  (`simulator.py:49`). A file without a header is outside of the `try` at line 98: the task ends without
  giving its core back. Warm-ups of nodes that share a disk may read each other's unfinished files.
* `config_explorer/config/config.py:129`: the key that names the directories leaves out the model identifier,
  the trace file, the number of GPUs and with it of replicas, and `time_limit` is not in the path either. A
  later exploration into the same directory takes the results of one that differed in these.
* `cpu_overhead/main.py:89` lacks the prefix of an f-string and writes `cpu_overhead.csv`, where the
  predictor reads `cpu_overheads.csv`; `profiling/utils/__init__.py:167` fails for models whose layers are
  not a multiple of 8, one of which is among the default models.

## Proofs

Every theorem is about all values of the constants that the `ASSUME`s of its modules allow: any number of
requests, arrivals and lengths, any memory, limits, chunks and stages, any replicas and policy, any jobs,
nodes and loads, any GPUs, combinations, sizes and configurations. Each is proved from an inductive
invariant, which TLC checks too, most of them in the runs named here.

| module | theorem | states | from |
|---|---|---|---|
| `VllmScheduler_proofs` | `Invariance`, `TypeCorrect`, `MemoryIsAccounted`, `NoRequestIsLost` | `IInv` and named conjuncts | `IInv` (run `vllm`) |
| | `AssertionsNeverFail`, `BlocksAreExact` | `AssertionsHold`, `ExactBlocks` | |
| | `OutputOnlyGrows`, `EvictsTheYoungest` | the action properties `OutputGrows`, `EvictYoungest` | |
| | `ImplementsTheService` | the safety part of the refinement of `TokenService` | |
| `SarathiScheduler_proofs` | `Invariance`, `SarathiIsSafe` | `IInv`, `SarathiInv` | `SarathiInv` (run `sarathi`) |
| | `ChunkBudgetHolds`, `NothingLeftBehind` | `ChunkBudget`, `NoneLeftBehind` | |
| `LightLLMScheduler_proofs` | `LightIsSafe` | `LightInv` | `LightInv` (run `lightllm`) |
| | `NeverRunsOut`, `LookAheadHolds` | `NeverOutOfMemory`, `PeakHolds` | |
| | `ImplementsTheService` | the safety part of the refinement of `TokenService` | |
| `FasterTransformerScheduler_proofs` | `FasterTransformerIsSafe`, `BatchesAreStatic` | `FTInv`, the action property `StaticBatches` | `FTInv` (run `ft`) |
| | `LeakNeverBlocks` | a replica without a batch has room for a sequence | |
| `Simulator_proofs` | `WakeInvariance`, `NobodyIsForgotten`, `EmptyWhenDone` | `WakeInv`, `NoLostWakeup`, `EmptyAtEnd` | `WakeInv`, part of `SimInv` (run `sim_cluster`) |
| | `FifoInvariance`, `PipelineInOrder` | `FifoInv`, `PipelineIsFIFO` | `FifoInv`, part of `SimInv` |
| | `ConservedInvariance`, `TimesInvariance` | `ConservedInv`, `TimesInv` | these, parts of `SimInv` |
| | `RequestsAreConserved`, `MetricsFit` | `SimInv`, `MetricsAddUp` | |
| `Offline_proofs` | `CacheInvariance`, `ReadersMeetNoWriter` | `CacheSafe`, `NoTornRead` | `CacheInv` |
| | `PredictionsAreOwn` | `FreshPredictions` | `FreshInv` |
| | `GroupsFollowTheInputs`, `CollectivesAreEnough` | `GroupIsTheInput`, `CollectivesSuffice`, under hypotheses | `ProfilerInv`; `RowsInv`, `ShortInv` |
| `Explorer_proofs` | `CoresAreExclusive` | `CoresExclusive` | `CoresInv` |
| | `ResultsBelong`, `SearchIsExact` | `ResultsAreOwn`, `SearchExact`, under hypotheses | `WarmUpInv`, `DirsInv`, `SearchInv` |

The inductive invariants of the explorer, the cache and the collectives are in no run's list, whose
properties are what is asked of the program; TLC finds no violation of them with the constants of
`explorer.cfg` and `offline.cfg` (`CacheFresh`, `ProfilesSafe`) either.

### The schedulers

None of the properties is inductive alone. What the four invariants share (`ReplicaLemmas` has a lemma for
each way a request or a batch moves):

* `PipelineCount`: `num_running_batches` counts `running_batches`, which are fewer than the stages when a
  batch is being formed;
* `NotArrived`: a request that has not arrived is as it was generated;
* conservation: a live request is in exactly one of the queues, lists and batches, and has memory when it is
  not in the request queue;
* the counter of blocks is the cardinality of the set `HeldBlocks` of the allocation map;
* `WithinCap`: at most `BatchSizeCap` requests have memory, which is the capacity of the service;
* what is known of a request by its place: a queued one starts from its prefill and wants a token more; a
  waiting one is in the middle of its decode and holds what the iteration before needed; one in a batch
  holds what its context needs.

The conjuncts are proved one after the other, each action by action, with the conjuncts before it as
hypotheses.

*vLLM.* `ResumeOrder`: while the loop over preempted requests runs, they are in the order of their arrival
and no request of the batch arrived after one of them. The code sorts once before the loop and then takes
victims from the end of the list: this invariant is why the last of the list is the youngest of all that
could be evicted.

*Sarathi.* Two more places, `running_prefills` and `skipped_requests` (`LoopLists`: they are empty outside of
their loops), and one more state of a request, in the middle of its prefill (`MidPrefill`). The budgets need
`BudgetInv`: `Forming` says of the batch that is formed that while a prefill in it is cut short, the batch
has all of `chunk_size` in it, and `ReformedWhole` that, if the decodes of a full batch fit into a chunk, at
most one prefill in the whole replica is incomplete (`Partial`), all that is preempted fits into one batch
and is taken up again by the call that follows the end of its batch. This is what makes the branch for
skipped requests unreachable.

*LightLLM.* `PeakBelow`: for every request, the memory that those that outlive it hold at the moment it ends
is below `NumBlocks`. While a decode is being formed, a request that has not got its token's block yet counts
with it (`Due`). The proof of each action compares two sums over finite sets: an admission adds a summand, a decode
shifts one token from what is left of a request to what it holds, an end removes one.
The sums are those of the community modules, so their properties are proved once in `ReplicaLemmas`, from the
definition of the fold; the inductions over finite sets are `SetInduction` and `SubsetInduction`, which
speak of a set of sets instead of a predicate.

*FasterTransformer.* `RoomRemains`: what has leaked leaves room for a sequence, because of each batch the
last request to end is freed. `InPhase`: a batch is in its first run, where all prefill, or in a later one,
where all that are left decode, and a preempted one has a request that is not completed. `LoopState`: a
batch is only formed by admission when no preempted one waits.

*The service.* With `Phases`, which `IInv` and `LightInv` imply, every step of the scheduler is a step of
`TokenService` or leaves it alone: `ServiceBatches`, `ServiceThrowsOut`, `ServiceEmits` and their like of
`ReplicaLemmas` say which, and `ImplementsTheService` collects them for each scheduler. `Service!ServiceSafety`
is the specification without its fairness.

### The simulator

`WakeInv` says that the state has the types the handlers rely on (`HeapInv`, `CallInv`, `PartsInv`; sequences
without a word on which requests are in them, which no part of the argument needs), that everything is awake
(`Punctual`, `GlobalAwake`, `ReplicaAwake`, `StageAwake`), and two things about pipelines. `BusyAt`: a busy
stage has the one event that ends its batch, an idle one has none. `CarriedAt`: what a replica counts as
running is the number of the batches in events and in the queues of its stages, and a request with memory is
preempted or in one of these batches. So when no event is left no stage is busy, no batch is queued, the
replica counts nothing as running, would have formed a batch if it could, and holds nothing: this is
`EmptyWhenDone`. That a replica with a full pipeline needs no wake-up is where `NobodyIsForgotten` uses the
end of a batch.

*The order of batches.* `FifoInv` adds to `WakeInv` what makes the heap's order by time and id a queue.
`DueInv`: arrivals, which are made first, have the least ids, and every other event but the end of a stage is
due at once. `Line` lists the batches of a replica with the place each has in its pipeline: three levels for
each stage (arriving, waiting, executing), and at one level its position in the queue or the id of its event.
`InOrder`: the batch that is ahead was made first. A handler moves one batch one level up; that it overtakes
none at its new level is where the order of ids is needed. `EndInv`: the last stage ends one batch at a time.
`PlacedInv`: the requests of one arrival time are placed by one `GlobalScheduleEvent`. `PipelineIsFIFO` is what
the models of the single replica take for granted.

*Conservation.* `ConservedInv` needs `FifoInv`, because a batch that ends is found in `in_flight` by its place.
`OwnerInv`: a request that is not completed is still to arrive, or in the global queue, or owned by one
replica; `HeldInv`: there it waits in the queue without memory, or has memory and is preempted or in one batch;
`BatchInv`: batches share no request, with each other or with what is preempted; `CountInv`: the round-robin
counter passes no more requests than there are. `TypeOK` and `NothingLost` follow.

*The times.* `TimesInv` says at each moment what a request has recorded. `TokensInv`: since its prompt was
processed the times of its tokens reach to the end of its last batch. `AccountedTo`: since the first stage
took it, execution and preemption reach to the last end of a stage (`RestInv`) or, while a stage executes its
batch, to the time that execution began (`ExecutionInv`): the handler of the stage's end adds the
execution, that of the next stage the wait. `EntriesInv`: the tokens of a batch in flight are those its
requests have to process next, and no batch end in between changed them. `DoneInv` is `MetricsAddUp` for each
request.

The handlers contain loops (`on_schedule`, the least-outstanding scheduler, the removal of requests from a
list), written as recursive functions. Their definedness is itself proved: `Iteration` builds such a function
round by round by induction over a finite interval, together with what each round preserves.

### The explorer

`CoresInv` holds without hypothesis: the driver has handed out tasks in order (`DriverInv`), a task that is
under way has a core and no other has (`AssignedInv`). `ResultsBelong` and `SearchIsExact` assume
`KeysNameJobs`: jobs of this exploration with the same key are the same job. Of earlier explorations nothing
is assumed: their results differ from those asked for in what the key leaves open (`KeyDetermines`), which is
what `ResultsAreOwn` allows them. Under the hypothesis each result of this exploration is of the job its
directory's key names, a file that is unfinished is of the one task that writes it (`OfItsTask`), and each
task looks into directories of its own key, at the load it tries (`DirsInv`). Searches start when no warm-up
is under way (`WarmUpInv`), hence no search meets another's unfinished file (`NoOthersWriting`).

A search whose results are not `Spoilt` therefore narrows its bounds by its own delays only. `Sound` is what
is known of its bounds: it never records a load above the capacity, and unless it was `Misled` by a huge
delay at less than about twice the capacity, they are `Bracketed`, though they move both ways: the left one is
the largest load known to be fine, and the right one is not below the capacity, or still so far from the left
one that the loop cannot stop between them. That distance is a fifth of the right bound, since the code
doubles the right bound as soon as a load over 0.8 of it is fine; hence the hypothesis `Precision >= 5`, a
granularity of 20 % or finer (the default is 2.5 %). A result that spoils the search may appear at any moment
and stays; that the others do not appear needs no proof, since the property speaks of what is there at the
end.

### The cache of predictions

`CacheInv` holds without hypothesis: a simulation writes at most one file, which it has just emptied and
which is that of the model it is at (`SimulationInv`), and a file that is not whole is being written or its
writer was killed (`TornInv`). A reader is held up by the writer's lock, hence `ReadersMeetNoWriter`.
`PredictionsAreOwn` has no hypothesis either. The file of a model is named after its training data, so that
simulations that share it would train the same. The file of a table is not, nor after the granularity and the
tokens per request; `Confused` says which simulations can share one: those that agree on everything in the
name, which determines the inputs of all tables but the attention's and the training rows of all but
`send_recv`'s (its rows depend on whether the stages span nodes; that the rows of the others are determined
is the larger part of the proof). `ContentInv` says this of each whole file, from whoever it is. That
the profiles are complete before the first simulation starts and do not change after is part of `CacheSafe`.

### The collectives

A runner keeps its process group from one input to the next when neither count changed, and decides so alone.
`RunnerInv`: its group is that of an earlier input it took part in, and as long as it has the counts of the
present input as its last, all that take part in this input are in one group with it. For this the inputs with
one pair of counts must follow each other, which is a lemma about the list the program builds (`InputsFacts`,
from `Flattened`: what `FlattenSeq` of the community modules contains, and where), and which the hypothesis
`CombinationsDiffer` is needed for: no combination is given twice. That the ranks of an input are 0 to its
number of workers less one, each once, is `Ranks`.

`CollectivesAreEnough` follows each input to its row: until it is in `rows` it is still to be run
(`RowsInv`), so that when the profiler is done there is a row for each size of each pair of counts in which GPU 0
takes part. A simulation that fails for lack of data lacks it for the model it is at (`ShortInv`), and what
it looks for are pairs of counts that were run. The hypothesis `BothProfiled` asks for both collectives and for
two sizes, as a regression of one row cannot be cross-validated.

### Only model-checked

* Liveness (`AllComplete`, `AllEnd`, `ExplorationEnds`, the fairness half of `ImplementsService`) and with it
  `ENABLED`, which tlapm does not have.
* `PredictionsExist`: averages, sums and roots over a batch are folds over sequences, and what a fold
  computes needs an induction over data.
* In `MetricsStore`: `UtilizationExact`, `SeriesAddUp` and `FilesComplete`, which compare what folds over
  series of points compute. Its `MetricsAddUp` is that of `Simulator`.
* `Setup`: its configurations go through `FlatConfig`, whose recursive operators no module with a theorem may
  reach.
* `ResultFileFound`, `RestartPrefillsAll` and the final assertion in `vllm_hang` do not hold.

## Plan

1. `ReplicaScheduler`, the five replica schedulers, `TokenService`, `Simulator`, the proofs about vLLM: done.
2. Metrics, configuration, memory, workloads, profiling, predictions and exploration: done.
3. Proofs about the other schedulers, the refinements, the simulator's wake-ups and final assertion, and the
   explorer: done.
4. Proofs about the order of batches, conservation and times in the simulator, the cache and the collectives:
   done. What is left to model-checking is said above, with the reason.

## Not modelled

* The regression of the predictor, random distributions, plots, wandb, log and trace formats: data that no
  property tells apart.
* Kernels, CUDA timers and tracing in `profiling`: measurement of hardware. What is profiled and which rows
  come out is modelled.
* The analyzer (`config_optimizer/analyzer`): statistics and dashboards over finished results, sequential
  pandas and Streamlit code without state.
* Registries, seeds and the logger; `utils/event_queue.py`, which nothing imports.
