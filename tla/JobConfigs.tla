----------------------------- MODULE JobConfigs -----------------------------
(***************************************************************************)
(* The configuration explorer's jobs: which combinations of a model, a     *)
(* trace, a cluster, a scheduler, degrees of parallelism and a batch size  *)
(* are searched, by which key a job's results are stored, and with which   *)
(* arguments the simulator is run for it.                                  *)
(***************************************************************************)
EXTENDS Integers, SequencesExt

(* JobConfig.__init__ *)
Job(model, trace, cluster, scheduler, tp, pp, batch_size) ==
    [model |-> model, trace |-> trace, cluster |-> cluster, scheduler |-> scheduler,
     tp |-> tp, pp |-> pp, batch_size |-> batch_size * pp,
     num_replicas |-> cluster.num_gpus \div (tp * pp)]

IsValid(job) ==
    /\ job.num_replicas > 0
    /\ job.tp \notin job.model.exclude_tp_dims
    /\ job.tp <= job.cluster.gpus_per_node

(* itertools.product of two dimensions: the first varies slowest. *)
Times(S, T) == FlattenSeq([i \in DOMAIN S |-> [j \in DOMAIN T |-> Append(S[i], T[j])]])
Product(dimensions) == FoldLeft(Times, <<<<>>>>, dimensions)

(* generate_job_configs *)
GenerateJobs(config) ==
    LET combinations == Product(<<config.models, config.traces, config.clusters,
                                  config.schedulers, config.tp_dimensions,
                                  config.pp_dimensions, config.batch_sizes>>)
        jobs == [i \in DOMAIN combinations |->
                    LET x == combinations[i] IN Job(x[1], x[2], x[3], x[4], x[5], x[6], x[7])]
    IN  SelectSeq(jobs, IsValid)

(* generate_unique_model_job_configs: jobs that train every model's         *)
(* predictor, on a short trace; two stages need all operations.             *)
GenerateUniqueModelJobs(config) ==
    LET combinations == Product(<<config.models, config.clusters, config.tp_dimensions>>)
        short == [config.traces[1] EXCEPT !.num_requests = 32]
        jobs == [i \in DOMAIN combinations |->
                    LET x == combinations[i]
                    IN  Job(x[1], short, x[2], config.schedulers[1], x[3], 2,
                            config.batch_sizes[1])]
    IN  SelectSeq(jobs, IsValid)

(* Seeded fault: the chunk size is not in the key of a scheduler.           *)
KeyWithoutChunk(job) ==
    <<job.model.name, job.trace.name, job.trace.max_seq_len, job.trace.num_requests,
      job.cluster.device, job.scheduler.name, job.tp, job.pp, job.batch_size>>

(* get_key, whose hash names a job's directory: of a cluster only the       *)
(* device, of a trace not its file.                                         *)
Key(job) ==
    <<job.model.name, job.trace.name, job.trace.max_seq_len, job.trace.num_requests,
      job.cluster.device, job.scheduler, job.tp, job.pp, job.batch_size>>

-----------------------------------------------------------------------------
(* to_config_dict: the arguments of a simulation and their values.          *)

ModelDict(m) == "replica_config_model_name" :> m.identifier

TraceDict(t) ==
       "request_generator_config_type" :> "synthetic"
    @@ "length_generator_config_type" :> "trace"
    @@ "interval_generator_config_type" :> "poisson"
    @@ [a \in {g \o "_config_max_tokens" : g \in
                {"synthetic_request_generator", "trace_request_length_generator",
                 "zipf_request_length_generator", "uniform_request_length_generator",
                 "fixed_request_length_generator", "trace_request_generator"}}
            |-> t.max_seq_len]
    @@ "trace_request_length_generator_config_trace_file" :> t.trace_file
    @@ "trace_request_length_generator_config_prefill_scale_factor" :> 1
    @@ "trace_request_length_generator_config_decode_scale_factor" :> 1
    @@ "synthetic_request_generator_config_num_requests" :> t.num_requests
    @@ "vllm_scheduler_config_max_tokens_in_batch" :> t.max_seq_len

SchedulerDict(s) ==
    IF s.name = "vllm" THEN "replica_scheduler_config_type" :> "vllm"
    ELSE "replica_scheduler_config_type" :> "sarathi"
            @@ "sarathi_scheduler_config_chunk_size" :> s.chunk_size

JobDict(job) ==
    ModelDict(job.model) @@ TraceDict(job.trace)
        @@ "replica_config_device" :> job.cluster.device
        @@ SchedulerDict(job.scheduler)
        @@ "replica_config_tensor_parallel_size" :> job.tp
        @@ "replica_config_num_pipeline_stages" :> job.pp
        @@ [a \in {s \o "_scheduler_config_batch_size_cap" :
                    s \in {"vllm", "lightllm", "orca", "faster_transformer", "sarathi"}}
                |-> job.batch_size]
        @@ "cluster_config_num_replicas" :> job.num_replicas

(* SimulationConfig.to_config_dict; an argument without a value is a switch. *)
SimulationDict(job, qps, dir, time_limit) ==
    JobDict(job)
        @@ "metrics_config_output_dir" :> dir
        @@ "metrics_config_cache_dir" :> "cache"
        @@ [a \in {"poisson_request_interval_generator_config_qps",
                   "gamma_request_interval_generator_config_qps"} |-> qps]
        @@ "time_limit" :> time_limit * 60
        @@ [a \in {"no-metrics_config_save_table_to_wandb",
                   "no-metrics_config_store_plots",
                   "no-metrics_config_store_operation_metrics",
                   "no-metrics_config_store_token_completion_metrics",
                   "no-metrics_config_enable_chrome_trace",
                   "linear_regression_execution_time_predictor_config_skip_cpu_overhead_modeling",
                   "random_forrest_execution_time_predictor_config_skip_cpu_overhead_modeling"}
                |-> "switch"]

(* to_args: the names on the command line. *)
ArgumentNames(job, qps, dir, time_limit) == DOMAIN SimulationDict(job, qps, dir, time_limit)
=============================================================================
