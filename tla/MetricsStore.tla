---------------------------- MODULE MetricsStore ----------------------------
(***************************************************************************)
(* The metrics store (metrics/metrics_store.py) beside the simulator: each *)
(* event hands it what happened, and when the simulation ends it writes    *)
(* its tables, series and means.  The chrome trace of the batch stages,    *)
(* which the simulator keeps by itself, is there to compare them with.     *)
(* The clock counts milliseconds, memory is in slots of a replica, and a   *)
(* rate of FLOPs is per TimeUnits of them.                                 *)
(***************************************************************************)
EXTENDS Simulator, ExecutionTime, DataSeries

CONSTANTS
    Predictions,     \* what the predictor may say of a batch in a stage
    AllOptions,      \* configurations of the metrics
    NumParams,       \* parameters of a device
    AttentionFlops,  \* 4 * layers * heads * head dimension of a device
    TimeUnits,       \* a common multiple of the execution times
    Offsets          \* what np.random.randint(0, 5) may draw

ASSUME MetricsAssumption ==
    /\ ExecutionTimes = {TotalTime(p) : p \in Predictions}
    /\ \A p \in Predictions : TimeUnits % TotalTime(p) = 0
    /\ Offsets \subseteq 0 .. 4

VARIABLES
    options,        \* the MetricsConfig
    memory, busy, mfu,  \* meters, by index of the replica and of the stage
    arrivals, completions, prefills, decodes,  \* series over time
    histograms,     \* series of requests at their arrival
    distributions,  \* series of requests at their end
    operations,     \* sums of the operations and of the model's time, per batch
    batches,        \* series of batches
    chrome_trace,   \* _event_chrome_trace
    files,          \* what plot() has written
    occupied        \* history: memory in use times its time, per replica

meters == <<memory, busy, mfu>>
series == <<arrivals, completions, prefills, decodes, histograms, distributions,
            operations, batches>>
storeVars == <<options, meters, series, chrome_trace, files>>

(* The meters are lists: -1 is the last of them. *)
Index(i, n) == (i - 1) % n
OfReplica(r) == Index(r, NumReplicas)
OfStage(s) == Index(s, NumStages)

(* The third argument of the memory's meter is use_weighted_mean.           *)
NewStore ==
    /\ options \in AllOptions
    /\ memory = [r \in Replicas |-> MeterPut(NewMeter(options.save_table_to_wandb), 0, 0)]
    /\ busy = [r \in Replicas |-> [s \in Stages |-> MeterPut(NewMeter(TRUE), 0, 0)]]
    /\ mfu = [r \in Replicas |-> [s \in Stages |-> MeterPut(NewMeter(TRUE), 0, 0)]]
    /\ arrivals = <<>> /\ completions = <<>> /\ prefills = <<>> /\ decodes = <<>>
    /\ histograms = <<>> /\ distributions = <<>> /\ batches = <<>> /\ operations = <<>>
    /\ chrome_trace = <<>>
    /\ files = <<>>

-----------------------------------------------------------------------------
(* The handlers. *)

OnRequestArrival(t, q) ==
    /\ IF options.store_request_metrics
       THEN /\ arrivals' = Put(arrivals, t, 1)
            /\ histograms' = Put(histograms, q, TotalTokens(req[q]))
       ELSE UNCHANGED <<arrivals, histograms>>
    /\ UNCHANGED <<options, meters, completions, prefills, decodes, distributions,
                   operations, batches, chrome_trace, files>>

(* _on_request_end: the times of each completed request. *)
OnRequestsEnd(t, completed) ==
    LET Row(q) == [e2e |-> times'[q].completed_at - times'[q].arrived_at,
                   execution |-> times'[q].execution_time,
                   preempted |-> times'[q].preempted_time,
                   delay |-> times'[q].scheduling_delay,
                   prefill |-> times'[q].prefill_completed_at - times'[q].arrived_at,
                   decode |-> times'[q].completed_at - times'[q].prefill_completed_at]
    IN  IF options.store_request_metrics
        THEN /\ completions' = completions \o [i \in DOMAIN completed |-> <<t, 1>>]
             /\ distributions' = distributions
                    \o [i \in DOMAIN completed |-> <<completed[i], Row(completed[i])>>]
        ELSE UNCHANGED <<completions, distributions>>

(* Seeded fault: every token after the prefill is taken for a decode.       *)
TokensOfEveryone(t, q) ==
    [prefill |-> IF t = times'[q].prefill_completed_at THEN <<<<t, req'[q].prefill>>>> ELSE <<>>,
     decode |-> IF req'[q].prefill_complete THEN <<<<t, 1>>>> ELSE <<>>]

(* _update_per_token_execution_times: what one request adds to the series.  *)
TokensOf(t, q) ==
    [prefill |-> IF t = times'[q].prefill_completed_at THEN <<<<t, req'[q].prefill>>>> ELSE <<>>,
     decode |-> IF HasStartedDecode(req'[q]) THEN <<<<t, 1>>>> ELSE <<>>]

UpdateTokens(t, ids) ==
    IF options.store_token_completion_metrics
    THEN /\ prefills' = prefills \o FlattenSeq([i \in DOMAIN ids |-> TokensOf(t, ids[i]).prefill])
         /\ decodes' = decodes \o FlattenSeq([i \in DOMAIN ids |-> TokensOf(t, ids[i]).decode])
    ELSE UNCHANGED <<prefills, decodes>>

BatchRow(t, b) ==
    LET tokens(S) == FoldSeq(LAMBDA x, sum : x.tokens + sum, 0,
                             SelectSeq(b.entries, LAMBDA x : x.id \in S))
    IN  [execution_time |-> t - b.scheduled_at, num_tokens |-> tokens(Requests),
         num_prefill_tokens |-> tokens({q \in Requests : ~req[q].prefill_complete}),
         size |-> Len(b.entries)]

(* A bound of zero is no bound. *)
OutsideWindow(id) ==
    \/ options.min_batch_index # 0 /\ id < options.min_batch_index
    \/ options.max_batch_index # 0 /\ id > options.max_batch_index

OnBatchEndStored(t, r, b) ==
    LET ids == [i \in DOMAIN b.entries |-> b.entries[i].id]
    IN  IF OutsideWindow(b.id)
        THEN UNCHANGED <<memory, completions, distributions, prefills, decodes, batches>>
        ELSE /\ OnRequestsEnd(t, SelectSeq(ids, LAMBDA q : req'[q].completed))
             /\ memory' = IF options.store_utilization_metrics
                          THEN [memory EXCEPT ![OfReplica(r)] =
                                    MeterPut(@, t, Cardinality(scheduler'[r].allocated))]
                          ELSE memory
             /\ UpdateTokens(t, ids)
             /\ batches' = IF options.store_batch_metrics
                           THEN Put(batches, b.id, BatchRow(t, b)) ELSE batches

OnReplicaSchedule(t, r) ==
    memory' = IF options.store_utilization_metrics
              THEN [memory EXCEPT ![OfReplica(r)] =
                        MeterPut(@, t, Cardinality(scheduler'[r].allocated))]
              ELSE memory

(* MFUCalculator.get_mfu *)
Flops(b) ==
    FoldSeq(LAMBDA x, sum :
                sum + 2 * x.tokens * NumParams
                    + AttentionFlops * x.tokens * (x.tokens + req[x.id].processed),
            0, b.entries)
GetMfu(b, execution_time) == (Flops(b) * TimeUnits) \div execution_time

(* Operation metrics are only stored along with utilization metrics.        *)
OnReplicaStageSchedule(t, r, s, b, p) ==
    IF ~options.store_utilization_metrics THEN UNCHANGED <<busy, mfu, operations>>
    ELSE /\ busy' = [busy EXCEPT ![OfReplica(r)][OfStage(s)] = MeterPut(@, t, 100)]
         /\ mfu' = [mfu EXCEPT ![OfReplica(r)][OfStage(s)] =
                        MeterPut(@, t, GetMfu(b, TotalTime(p)))]
         /\ operations' = IF options.store_operation_metrics
                          THEN Put(operations, b.id,
                                   [stored |-> SumOf(StageOperations(p)),
                                    cpu |-> SumOf(CpuOperations(p))])
                          ELSE operations

OnBatchStageEndStored(t, r, s) ==
    IF ~options.store_utilization_metrics THEN UNCHANGED <<busy, mfu>>
    ELSE /\ busy' = [busy EXCEPT ![OfReplica(r)][OfStage(s)] = MeterPut(@, t, 0)]
         /\ mfu' = [mfu EXCEPT ![OfReplica(r)][OfStage(s)] = MeterPut(@, t, 0)]

-----------------------------------------------------------------------------
(* The simulator's steps with the store's part in them. *)

(* History: a slot that is in use is so until the clock moves on.           *)
Observe ==
    occupied' = [r \in Replicas |->
                    occupied[r] + (now' - now) * Cardinality(scheduler[r].allocated)]

StoreArrival ==
    /\ RequestArrival /\ Observe
    /\ \E e \in Popped("request_arrival") : OnRequestArrival(e.time, e.call.request)

StoreNothing ==
    (GlobalSchedule \/ BatchStageArrival) /\ Observe /\ UNCHANGED storeVars

StoreReplicaSchedule ==
    /\ ReplicaSchedule /\ Observe
    /\ \E e \in Popped("replica_schedule") :
        LET r == e.call.replica
            n == Len(in_flight'[r]) - Len(in_flight[r])
        IN  IF n > 0 THEN OnReplicaSchedule(e.time, r) ELSE UNCHANGED memory
    /\ UNCHANGED <<options, busy, mfu, series, chrome_trace, files>>

StoreStageSchedule ==
    /\ ReplicaStageSchedule /\ Observe
    /\ \E e \in Popped("replica_stage_schedule") :
        LET r == e.call.replica
            s == e.call.stage
        IN  IF CanStart(stage[r][s])
            THEN \E p \in Predictions, end \in event_queue' \ event_queue :
                    /\ end.call.execution_time = TotalTime(p)
                    /\ LET b == Head(stage[r][s].batch_queue)
                       IN  OnReplicaStageSchedule(e.time, r, s, b, p)
            ELSE UNCHANGED <<busy, mfu, operations>>
    /\ UNCHANGED <<options, memory, arrivals, completions, prefills, decodes, histograms,
                   distributions, batches, chrome_trace, files>>

StoreStageEnd ==
    /\ BatchStageEnd /\ Observe
    /\ \E e \in Popped("batch_stage_end") :
        LET c == e.call
        IN  /\ OnBatchStageEndStored(e.time, c.replica, c.stage)
            /\ chrome_trace' = Append(chrome_trace,
                    [pid |-> c.replica, tid |-> c.stage, ts |-> e.time - c.execution_time,
                     dur |-> c.execution_time, batch_id |-> c.batch.id])
    /\ UNCHANGED <<options, memory, series, files>>

StoreBatchEnd ==
    /\ BatchEnd /\ Observe
    /\ \E e \in Popped("batch_end") :
        OnBatchEndStored(e.time, e.call.replica, e.call.batch)
    /\ UNCHANGED <<options, busy, mfu, arrivals, histograms, operations, chrome_trace, files>>

-----------------------------------------------------------------------------
(* plot, at the end of the program: what it writes, by name.  A series      *)
(* without points and a meter without a mean are not written.               *)

Written(name, content, there) == IF there THEN name :> content ELSE <<>>

StoreRequestMetrics ==
    Written("request_metrics", JoinedRows(<<distributions, histograms>>),
            options.store_request_metrics)

(* The values of a row are the y of as many series. *)
StoreBatchMetrics ==
    Written("batch_metrics", JoinedRows(<<batches, batches>>),
            options.store_batch_metrics /\ options.keep_individual_batch_metrics)

StepPlot(s, offset) == Subsampled(Cumulated(s), options.subsamples, offset)

StoreCompletionMetrics(offset) ==
    Written("request_arrival_time_series", StepPlot(arrivals, offset),
            options.store_request_metrics /\ arrivals # <<>>)
    @@ Written("request_completion_time_series", StepPlot(completions, offset),
               options.store_request_metrics /\ completions # <<>>)
    @@ Written("prefill_completion_time_series", StepPlot(prefills, offset),
               options.store_token_completion_metrics /\ prefills # <<>>)
    @@ Written("decode_completion_time_series", StepPlot(decodes, offset),
               options.store_token_completion_metrics /\ decodes # <<>>)

(* The points of each batch are consolidated before they are joined.        *)
StoreOperationMetrics ==
    Written("operation_metrics",
            JoinedRows(<<Consolidated([i \in DOMAIN operations |->
                                        <<operations[i][1], operations[i][2].stored>>])>>),
            options.store_operation_metrics /\ options.keep_individual_batch_metrics)

(* Replicas and stages are counted from one in the names of the files.      *)
StoreUtilizationMetrics ==
    IF ~options.store_utilization_metrics THEN <<>>
    ELSE [r \in {r \in Replicas : HasMean(memory[r])} |->
            [memory |-> <<memory[r].numer, memory[r].denom>>,
             stages |-> [s \in {s \in Stages : HasMean(busy[r][s])} |->
                            [busy |-> <<busy[r][s].numer, busy[r][s].denom>>,
                             mfu |-> <<mfu[r][s].numer, mfu[r][s].denom>>]]]]

(* The offset is drawn for each curve anew; here one is drawn for all.      *)
Plot ==
    /\ ~Running /\ files = <<>>
    /\ \E offset \in Offsets :
        files' = "utilization" :> StoreUtilizationMetrics
                    @@ StoreRequestMetrics @@ StoreBatchMetrics
                    @@ StoreCompletionMetrics(offset) @@ StoreOperationMetrics
    /\ UNCHANGED <<vars, occupied, options, meters, series, chrome_trace>>

StoreInit == Init /\ NewStore /\ occupied = [r \in Replicas |-> 0]

StoreNext ==
    \/ StoreArrival \/ StoreNothing \/ StoreReplicaSchedule \/ StoreStageSchedule
    \/ StoreStageEnd \/ StoreBatchEnd \/ Plot

allVars == <<vars, storeVars, occupied>>

(* Simulator.run takes event after event, and the output is written when it *)
(* returns.                                                                 *)
StoreSpec == StoreInit /\ [][StoreNext]_allVars /\ WF_allVars(StoreNext)

-----------------------------------------------------------------------------
(* Properties. *)

Unbounded == options.min_batch_index = 0 /\ options.max_batch_index = 0

Spans(r, s) == SelectSeq(chrome_trace, LAMBDA x : x.pid = r /\ x.tid = s)
Durations(spans) == FoldSeq(LAMBDA x, sum : x.dur + sum, 0, spans)

(* The operations of a request's tokens whatever batches they came in: each *)
(* token passes the parameters once and attends to itself and those before  *)
(* it; the prompt in one piece attends to all of itself.                    *)
FlopsOf(q) ==
    LET p == req[q].prefill
        n == req[q].decode - 1
    IN  2 * NumParams * (p + n) + AttentionFlops * (p * p + n * (p + 1) + (n * (n + 1)) \div 2)

(* Utilization (docs/metrics.md, items 20 to 22): when a stage is idle, its *)
(* busy meter has counted the spans of its chrome trace; a meter of the     *)
(* memory that weighs by time knows how long each slot was in use; and when *)
(* every request is completed, each stage has counted the same FLOPs, those *)
(* of the tokens of all requests, however they were batched.                *)
UtilizationExact ==
    options.store_utilization_metrics =>
        /\ \A r \in Replicas, s \in Stages :
            ~stage[r][s].busy =>
                busy[OfReplica(r)][OfStage(s)].numer = 100 * Durations(Spans(r, s))
        /\ \A r \in Replicas :
            LET m == memory[OfReplica(r)]
            IN  m.weighted /\ Unbounded => m.numer + m.last_y * (now - m.last_x) = occupied[r]
        /\ Completed = Requests =>
            \A s \in Stages :
                FoldSet(LAMBDA r, sum : mfu[OfReplica(r)][OfStage(s)].numer + sum, 0, Replicas)
                    = TimeUnits * FoldSet(LAMBDA q, sum : FlopsOf(q) + sum, 0, Requests)

SumOver(S, f(_)) == FoldSet(LAMBDA x, sum : f(x) + sum, 0, S)

Produced(q) == req[q].processed - req[q].prefill
Progress(q) == req[q].processed - (IF req[q].prefill_complete THEN 1 ELSE 0)

(* Series agree with the requests at all times: the prompts and the tokens  *)
(* after the first one that were produced, the tokens the batches computed, *)
(* and the requests that came and went.                                     *)
SeriesAddUp ==
    LET started == {q \in Requests : req[q].prefill_complete}
    IN  /\ options.store_token_completion_metrics /\ Unbounded =>
            /\ Total(prefills) = SumOver(started, LAMBDA q : req[q].prefill)
            /\ Total(decodes) = SumOver(started, LAMBDA q : Produced(q) - 1)
        /\ options.store_batch_metrics /\ Unbounded =>
            /\ FoldSeq(LAMBDA x, sum : x[2].num_tokens + sum, 0, batches)
                   = SumOver(Requests, Progress)
            /\ FoldSeq(LAMBDA x, sum : x[2].num_prefill_tokens + sum, 0, batches)
                   = SumOver(started, LAMBDA q : req[q].prefill)
        /\ options.store_request_metrics /\ Unbounded =>
            /\ Total(completions) = Cardinality(Completed)
            /\ Total(arrivals) = NumRequests - Cardinality(Calls("request_arrival"))

(* The tables: a row for each request, for each batch between the bounds    *)
(* and for the operations of each batch, never two; and the curves of       *)
(* requests and tokens never fall and have no point twice, though a random  *)
(* offset may have turned the order of their points round.                  *)
FilesComplete ==
    files # <<>> /\ ~terminate =>
        LET has(name) == name \in DOMAIN files
            rows(name, ids) == has(name) => files[name] = [id \in ids |-> 1]
            ids == 0 .. last_batch_id
        IN  /\ rows("request_metrics", Requests)
            /\ rows("batch_metrics", {id \in ids : ~OutsideWindow(id)})
            /\ options.store_utilization_metrics => rows("operation_metrics", ids)
            /\ \A name \in DOMAIN files \ {"utilization", "request_metrics", "batch_metrics",
                                           "operation_metrics"} :
                \A i, j \in DOMAIN files[name] :
                    i # j => LET p == files[name][i]
                                 q == files[name][j]
                             IN  \/ p[2] < q[2] /\ p[1] <= q[1]
                                 \/ q[2] < p[2] /\ q[1] <= p[1]
=============================================================================
