----------------------------- MODULE ConfigTree -----------------------------
(***************************************************************************)
(* The dataclasses of a simulation's configuration (config/config.py): the *)
(* fields of each class, inherited ones first, and which fields hold       *)
(* another configuration.  A class is named by its name in snake case.     *)
(***************************************************************************)
EXTENDS SequencesExt

IntervalGenerators ==
       "trace_request_interval_generator_config" :>
            <<"seed", "trace_file", "start_time", "end_time", "time_scale_factor">>
    @@ "poisson_request_interval_generator_config" :> <<"seed", "qps">>
    @@ "gamma_request_interval_generator_config" :> <<"seed", "qps", "cv">>
    @@ "static_request_interval_generator_config" :> <<"seed">>

LengthGenerators ==
       "trace_request_length_generator_config" :>
            <<"seed", "max_tokens", "trace_file", "prefill_scale_factor",
              "decode_scale_factor">>
    @@ "zipf_request_length_generator_config" :>
            <<"seed", "max_tokens", "theta", "scramble", "min_tokens",
              "prefill_to_decode_ratio">>
    @@ "uniform_request_length_generator_config" :>
            <<"seed", "max_tokens", "min_tokens", "prefill_to_decode_ratio">>
    @@ "fixed_request_length_generator_config" :>
            <<"seed", "max_tokens", "prefill_tokens", "decode_tokens">>

(* max_tokens of the synthetic generator is no field: __post_init__ copies  *)
(* it from the length generator.                                            *)
RequestGenerators ==
       "synthetic_request_generator_config" :>
            <<"seed", "length_generator_config", "interval_generator_config",
              "num_requests", "duration">>
    @@ "trace_request_generator_config" :>
            <<"seed", "trace_file", "prefill_scale_factor", "decode_scale_factor",
              "time_scale_factor", "max_tokens">>

SchedulerFields ==
    <<"batch_size_cap", "block_size", "watermark_blocks_fraction", "num_blocks">>

ReplicaSchedulers ==
       "vllm_scheduler_config" :> SchedulerFields \o <<"max_tokens_in_batch">>
    @@ "lightllm_scheduler_config" :>
            SchedulerFields \o <<"max_tokens_in_batch", "max_waiting_iters">>
    @@ "orca_scheduler_config" :> SchedulerFields
    @@ "faster_transformer_scheduler_config" :> SchedulerFields
    @@ "sarathi_scheduler_config" :> SchedulerFields \o <<"chunk_size">>

MetricsFields ==
    <<"write_metrics", "write_json_trace", "wandb_project", "wandb_group",
      "wandb_run_name", "wandb_sweep_id", "wandb_run_id", "enable_chrome_trace",
      "save_table_to_wandb", "store_plots", "store_operation_metrics",
      "store_token_completion_metrics", "store_request_metrics",
      "store_batch_metrics", "store_utilization_metrics",
      "keep_individual_batch_metrics", "subsamples", "min_batch_index",
      "max_batch_index", "output_dir", "cache_dir">>

ReplicaFields ==
    <<"model_name", "memory_margin_fraction", "num_pipeline_stages",
      "tensor_parallel_size", "device", "network_device">>

GlobalSchedulers ==
    [c \in {"random_global_scheduler_config", "round_robin_global_scheduler_config",
            "l_o_r_global_scheduler_config"} |-> <<>>]

PredictorFields ==
    <<"compute_input_file", "attention_input_file", "all_reduce_input_file",
      "send_recv_input_file", "cpu_overhead_input_file", "k_fold_cv_splits",
      "no_cache", "kv_cache_prediction_granularity",
      "prediction_max_prefill_chunk_size", "prediction_max_batch_size",
      "prediction_max_tokens_per_request",
      "attention_decode_batching_overhead_fraction",
      "attention_prefill_batching_overhead_fraction",
      "nccl_cpu_launch_overhead_ms", "nccl_cpu_skew_overhead_per_device_ms",
      "num_training_job_threads", "skip_cpu_overhead_modeling">>

Predictors ==
       "linear_regression_execution_time_predictor_config" :>
            PredictorFields \o <<"polynomial_degree", "polynomial_include_bias",
                                 "polynomial_interaction_only", "fit_intercept">>
    @@ "random_forrest_execution_time_predictor_config" :>
            PredictorFields \o <<"num_estimators", "max_depth", "min_samples_split">>

ClusterFields ==
    <<"num_replicas", "replica_config", "global_scheduler_config",
      "replica_scheduler_config">>

SimulationFields ==
    <<"seed", "log_level", "time_limit", "cluster_config", "request_generator_config",
      "execution_time_predictor_config", "metrics_config">>

Root == "simulation_config"

Fields ==
    IntervalGenerators @@ LengthGenerators @@ RequestGenerators @@ ReplicaSchedulers
        @@ GlobalSchedulers @@ Predictors
        @@ ("metrics_config" :> MetricsFields @@ "replica_config" :> ReplicaFields
            @@ "cluster_config" :> ClusterFields @@ Root :> SimulationFields)

Classes == DOMAIN Fields

(* get_type of the configurations that can be chosen by a type argument,    *)
(* in the order of their definition, which is that of __subclasses__().     *)
Alternatives ==
    [interval_generator_config |-> <<
        <<"trace", "trace_request_interval_generator_config">>,
        <<"poisson", "poisson_request_interval_generator_config">>,
        <<"gamma", "gamma_request_interval_generator_config">>,
        <<"static", "static_request_interval_generator_config">>>>,
     length_generator_config |-> <<
        <<"trace", "trace_request_length_generator_config">>,
        <<"zipf", "zipf_request_length_generator_config">>,
        <<"uniform", "uniform_request_length_generator_config">>,
        <<"fixed", "fixed_request_length_generator_config">>>>,
     request_generator_config |-> <<
        <<"synthetic", "synthetic_request_generator_config">>,
        <<"trace_replay", "trace_request_generator_config">>>>,
     replica_scheduler_config |-> <<
        <<"vllm", "vllm_scheduler_config">>,
        <<"lightllm", "lightllm_scheduler_config">>,
        <<"orca", "orca_scheduler_config">>,
        <<"faster_transformer", "faster_transformer_scheduler_config">>,
        <<"sarathi", "sarathi_scheduler_config">>>>,
     global_scheduler_config |-> <<
        <<"random", "random_global_scheduler_config">>,
        <<"round_robin", "round_robin_global_scheduler_config">>,
        <<"lor", "l_o_r_global_scheduler_config">>>>,
     execution_time_predictor_config |-> <<
        <<"linear_regression", "linear_regression_execution_time_predictor_config">>,
        <<"random_forrest", "random_forrest_execution_time_predictor_config">>>>]

(* The default_factory of each such field. *)
DefaultType ==
    [interval_generator_config |-> "poisson", length_generator_config |-> "fixed",
     request_generator_config |-> "synthetic", replica_scheduler_config |-> "sarathi",
     global_scheduler_config |-> "round_robin",
     execution_time_predictor_config |-> "random_forrest"]

(* Fields that hold a dataclass without subclasses, named as its class. *)
Dataclasses == {"cluster_config", "replica_config", "metrics_config"}

BoolFields ==
    {"write_metrics", "write_json_trace", "enable_chrome_trace", "save_table_to_wandb",
     "store_plots", "store_operation_metrics", "store_token_completion_metrics",
     "store_request_metrics", "store_batch_metrics", "store_utilization_metrics",
     "keep_individual_batch_metrics", "scramble", "no_cache",
     "skip_cpu_overhead_modeling"}

BoolListFields ==
    {"polynomial_include_bias", "polynomial_interaction_only", "fit_intercept"}
=============================================================================
