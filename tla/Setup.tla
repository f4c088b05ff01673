------------------------------- MODULE Setup --------------------------------
(***************************************************************************)
(* How a simulation is set up (Simulator.__init__): the command line is    *)
(* parsed into the tree of configurations, the replicas are made, the      *)
(* request generator is loaded, each replica scheduler is given its blocks *)
(* by the memory planner, and the requests of the workload are generated   *)
(* one by one.  An assertion or an error on the way ends it in "failed".   *)
(* (The predictor, made in between, is the module PredictorCache.)         *)
(***************************************************************************)
EXTENDS FlatConfig, Models, Workload

CONSTANTS
    CommandLines,   \* command lines: the texts given for some of the flat names
    LengthTrace,    \* the rows of the trace of lengths
    ReplayTrace,    \* the rows of the trace to replay
    IntervalTimes,  \* the times of the trace of intervals
    Totals,         \* the total lengths that are drawn
    LongestGap      \* bound: the longest interval drawn from a gamma distribution

VARIABLES given, pc, config, made, num_blocks, schedulers, requests, now, taken, index

setupVars == <<given, pc, config, made, num_blocks, schedulers, requests, now, taken, index>>

-----------------------------------------------------------------------------
(* What a configuration says, with the defaults of its dataclasses.         *)

FieldOf(c, f) ==
    IF \E v \in c.values : v[1] = f THEN (CHOOSE v \in c.values : v[1] = f)[2] ELSE "default"

Text(c, f, default) == IF FieldOf(c, f) = "default" THEN default ELSE FieldOf(c, f)

Number(c, f, default) ==
    IF FieldOf(c, f) = "default" THEN default
    ELSE CHOOSE n \in 0 .. 8192 : ToString(n) = FieldOf(c, f)

(* A factor, or a rate, as a fraction. *)
Fraction(c, f, default) ==
    CASE Text(c, f, "") = "0.5" -> <<1, 2>>
      [] Text(c, f, "") = "2.0" -> <<2, 1>>
      [] OTHER -> default

TypeOf(f, c) == (CHOOSE a \in Range(Alternatives[f]) : a[2] = c.name)[1]

ReplicaOf(c, max_tokens) ==
    [model |-> Text(c, "model_name", "Llama2_7B"), device |-> Text(c, "device", "a100"),
     tp |-> Number(c, "tensor_parallel_size", 1), pp |-> Number(c, "num_pipeline_stages", 1),
     max_request_tokens |-> max_tokens]

(* max_tokens of a synthetic workload is that of its length generator.      *)
SyntheticOf(c) ==
    LET lengths == FieldOf(c, "length_generator_config")
        intervals == FieldOf(c, "interval_generator_config")
    IN  [kind |-> "synthetic",
         length |-> TypeOf("length_generator_config", lengths),
         interval |-> TypeOf("interval_generator_config", intervals),
         num_requests |-> Number(c, "num_requests", 128), duration |-> Number(c, "duration", 0),
         max_tokens |-> Number(lengths, "max_tokens", 4096),
         prefill_tokens |-> Number(lengths, "prefill_tokens", 2048),
         decode_tokens |-> Number(lengths, "decode_tokens", 512),
         min_tokens |-> Number(lengths, "min_tokens", 1024),
         ratio |-> Number(lengths, "prefill_to_decode_ratio", 20),
         prefill_scale_factor |-> Fraction(lengths, "prefill_scale_factor", <<1, 1>>),
         decode_scale_factor |-> Fraction(lengths, "decode_scale_factor", <<1, 1>>),
         mean |-> IF Fraction(intervals, "qps", <<1, 2>>) = <<1, 2>> THEN 2 ELSE 1,
         start_time |-> Number(intervals, "start_time", 0),
         end_time |-> Number(intervals, "end_time", 100),
         time_scale_factor |-> Fraction(intervals, "time_scale_factor", <<1, 1>>)]

ReplayOf(c) ==
    [kind |-> "trace_replay", duration |-> 0,
     max_tokens |-> Number(c, "max_tokens", 4096),
     prefill_scale_factor |-> Fraction(c, "prefill_scale_factor", <<1, 1>>),
     decode_scale_factor |-> Fraction(c, "decode_scale_factor", <<1, 1>>),
     time_scale_factor |-> Fraction(c, "time_scale_factor", <<1, 1>>)]

WorkloadOf(tree) ==
    LET c == FieldOf(tree, "request_generator_config")
    IN  IF TypeOf("request_generator_config", c) = "synthetic" THEN SyntheticOf(c)
        ELSE ReplayOf(c)

Settings(tree) ==
    LET cluster == FieldOf(tree, "cluster_config")
        scheduler == FieldOf(cluster, "replica_scheduler_config")
        workload == WorkloadOf(tree)
    IN  [replica |-> ReplicaOf(FieldOf(cluster, "replica_config"), workload.max_tokens),
         num_replicas |-> Number(cluster, "num_replicas", 1),
         block_size |-> Number(scheduler, "block_size", 16),
         batch_size_cap |-> Number(scheduler, "batch_size_cap", 128),
         num_blocks |-> Number(scheduler, "num_blocks", 0),
         workload |-> workload]

-----------------------------------------------------------------------------
Init ==
    /\ given \in CommandLines /\ pc = "parse"
    /\ config = [replica |-> <<>>] /\ num_blocks = 0
    /\ made = 0 /\ schedulers = <<>>
    /\ requests = <<>> /\ now = 0 /\ taken = {} /\ index = 1

Fail == pc' = "failed" /\ UNCHANGED <<given, config, made, num_blocks, schedulers,
                                       requests, now, taken, index>>

(* create_from_cli_args: argparse rejects names it does not know. *)
ParseArguments ==
    /\ pc = "parse"
    /\ IF Accepted(DOMAIN given)
       THEN /\ config' = Settings(Reconstruct(given))
            /\ num_blocks' = config'.num_blocks
            /\ pc' = "cluster"
       ELSE pc' = "rejected" /\ UNCHANGED <<config, num_blocks>>
    /\ UNCHANGED <<given, made, schedulers, requests, now, taken, index>>

(* Cluster.__init__ makes its replicas one by one. *)
MakeReplica ==
    /\ pc = "cluster" /\ made < config.num_replicas
    /\ IF Divides(config.replica)
       THEN /\ made' = made + 1
            /\ UNCHANGED <<given, pc, config, num_blocks, schedulers, requests, now,
                           taken, index>>
       ELSE Fail

(* The generator loads its traces; the rows of lengths are checked. *)
MakeRequestGenerator ==
    LET w == config.workload
    IN  /\ pc = "cluster" /\ made = config.num_replicas
        /\ IF w.kind = "synthetic" /\ w.length = "trace" /\ ~LengthRowsFit(LengthTrace, w)
           THEN Fail
           ELSE /\ pc' = "schedulers"
                /\ UNCHANGED <<given, config, made, num_blocks, schedulers, requests, now,
                               taken, index>>

(* BaseReplicaScheduler.__init__, per replica: the number of blocks is       *)
(* written to the configuration that all replicas share.                     *)
MakeReplicaScheduler ==
    LET r == config.replica
    IN  /\ pc = "schedulers" /\ Len(schedulers) < config.num_replicas
        /\ IF HasMemory(r)
           THEN /\ num_blocks' = IF num_blocks = 0 THEN PlannedBlocks(r, config.block_size)
                                 ELSE num_blocks
                /\ schedulers' = Append(schedulers,
                                        [num_blocks |-> num_blocks',
                                         max_batch_size |-> MaxBatch(r, config.batch_size_cap)])
                /\ UNCHANGED <<given, pc, config, made, requests, now, taken, index>>
           ELSE Fail

(* _init_event_queue asks the generator for the requests. *)
StartGenerating ==
    /\ pc = "schedulers" /\ Len(schedulers) = config.num_replicas
    /\ pc' = "generate"
    /\ UNCHANGED <<given, config, made, num_blocks, schedulers, requests, now, taken, index>>

(* _generate_next_request; when a trace is exhausted it gives None, whose    *)
(* arrival time is then asked for.                                           *)
NextRequest ==
    LET w == config.workload
        intervals == NextIntervals(w, IntervalTimes, LongestGap, index)
        lengths == NextLengths(w, LengthTrace, Totals, taken)
    IN  /\ pc = "generate" /\ w.kind = "synthetic" /\ Wanted(w, requests, now)
        /\ IF intervals = {} \/ lengths = {} THEN Fail
           ELSE \E gap \in intervals, l \in lengths :
                    IF ~l.legal THEN Fail
                    ELSE /\ now' = now + gap
                         /\ index' = index + 1
                         /\ requests' = Append(requests,
                                [arrived_at |-> now', num_prefill_tokens |-> l.prompt,
                                 num_decode_tokens |-> l.output])
                         /\ taken' = IF w.length = "trace"
                                     THEN taken \cup {CHOOSE i \in DOMAIN LengthTrace \ taken :
                                                        LengthRow(LengthTrace[i], w) = l}
                                     ELSE taken
                         /\ UNCHANGED <<given, pc, config, made, num_blocks, schedulers>>

Generated ==
    LET w == config.workload
    IN  /\ pc = "generate" /\ w.kind = "synthetic" /\ ~Wanted(w, requests, now)
        /\ requests' = Finished(w, requests)
        /\ pc' = "ready"
        /\ UNCHANGED <<given, config, made, num_blocks, schedulers, now, taken, index>>

(* TraceReplayRequestGenerator.generate_requests *)
Replay ==
    LET w == config.workload
    IN  /\ pc = "generate" /\ w.kind = "trace_replay"
        /\ requests' = [i \in DOMAIN ReplayTrace |-> ReplayRow(ReplayTrace[i], w)]
        /\ pc' = "ready"
        /\ UNCHANGED <<given, config, made, num_blocks, schedulers, now, taken, index>>

Over == pc \in {"ready", "failed", "rejected"} /\ UNCHANGED setupVars

Next ==
    \/ ParseArguments \/ MakeReplica \/ MakeRequestGenerator \/ MakeReplicaScheduler
    \/ StartGenerating \/ NextRequest \/ Generated \/ Replay \/ Over

Spec == Init /\ [][Next]_setupVars

-----------------------------------------------------------------------------
(* A command line gives the configuration it describes, whatever flat names  *)
(* the tree's fields were given and in whatever order it was rebuilt         *)
(* (flat_dataclass.py:48): flat names are distinct, and each value reaches   *)
(* the field it is named for.                                                *)
ConfigAsDescribed ==
    pc = "cluster" /\ made = 0 =>
        /\ RoundTrip(given)
        /\ config = Settings(Described(Root, given))

(* The memory of one block of one layer, in units of 1024 bytes. *)
BlockMemoryPerLayer(r, block_size) == (4 * HeadDim(r) * KvHeadsPerWorker(r) * block_size) \div 1024

(* On every device the parameters of its layers and all the blocks of its    *)
(* replica scheduler fit into the memory that the margin leaves, although    *)
(* the planner counts a request's cache over all layers, multiplies its      *)
(* slots by the stages again and each stage holds only its own layers        *)
(* (memory_planner.py:23, 50; base_replica_scheduler.py:40).                 *)
WeightsAndCacheFit ==
    pc \in {"generate", "ready"} /\ config.num_blocks = 0 =>
        LET r == config.replica
        IN  \A i \in DOMAIN schedulers :
                ParameterMemory(r)
                    + (schedulers[i].num_blocks * LayersPerStage(r)
                        * BlockMemoryPerLayer(r, config.block_size)) \div 32
                  <= AvailableMemory(r)

(* vLLM and Sarathi: int(watermark_blocks_fraction * num_blocks), at a hundredth. *)
Watermark(n) == n \div 100

(* What was generated can be served: every request has a prompt and an       *)
(* output, is no longer than the generator's max_tokens, by which the memory *)
(* was planned, and finds blocks in an empty replica over the watermark.     *)
(* Two cases are left out because the code gets them wrong: a replayed       *)
(* output that alone takes all tokens, from which the prompt is cut to       *)
(* nothing (trace_replay_request_generator.py:55), and a replica with a      *)
(* single slot, where the watermark is taken from the only sequence's blocks *)
(* (base_replica_scheduler.py:40).                                           *)
RequestsServable ==
    pc = "ready" =>
        \A i \in DOMAIN requests :
            LET q == requests[i]
                total == q.num_prefill_tokens + q.num_decode_tokens
            IN  \/ /\ config.workload.kind = "trace_replay"
                   /\ q.num_decode_tokens >= config.workload.max_tokens
                \/ /\ q.num_prefill_tokens >= 1 /\ q.num_decode_tokens >= 1
                   /\ total <= config.workload.max_tokens
                   /\ MaxRequestSlots(config.replica) > 1 =>
                        \A s \in DOMAIN schedulers :
                            CeilOf(total, config.block_size)
                                <= schedulers[s].num_blocks - Watermark(schedulers[s].num_blocks)

(* A synthetic workload is the one asked for: in order of arrival, though a  *)
(* trace of intervals need not be sorted; with a duration, all of it and     *)
(* nothing past it; without one, exactly num_requests                        *)
(* (synthetic_request_generator.py:52-105).                                  *)
WorkloadAsAsked ==
    pc = "ready" /\ config.workload.kind = "synthetic" =>
        LET w == config.workload
        IN  /\ \A i, j \in DOMAIN requests :
                    i < j => requests[i].arrived_at <= requests[j].arrived_at
            /\ IF w.duration > 0
               THEN now >= w.duration
                    /\ \A i \in DOMAIN requests : requests[i].arrived_at < w.duration
               ELSE Len(requests) = w.num_requests
=============================================================================
