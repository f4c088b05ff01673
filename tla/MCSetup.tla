------------------------------ MODULE MCSetup -------------------------------
(* A command line for each generator, model and way to fail, and traces     *)
(* with rows at the edges of their conversions.                             *)
EXTENDS Setup

LOCAL Replica == "replica_config_"
LOCAL Scheduler(name) == "replica_scheduler_config_type" :> name
LOCAL Synthetic == "synthetic_request_generator_config_"
LOCAL Lengths(name) == "length_generator_config_type" :> name
LOCAL Intervals(name) == "interval_generator_config_type" :> name
LOCAL Requests(n) == Synthetic \o "num_requests" :> n
LOCAL Machine(model, device, tp, pp) ==
    Replica \o "model_name" :> model @@ Replica \o "device" :> device
        @@ Replica \o "tensor_parallel_size" :> tp @@ Replica \o "num_pipeline_stages" :> pp

MCCommandLines ==
    {Requests("2") @@ Lengths("zipf") @@ Intervals("poisson"),
     Requests("3") @@ Lengths("uniform") @@ Intervals("static") @@ Scheduler("vllm")
        @@ "vllm_scheduler_config_block_size" :> "32"
        @@ Machine("Llama2_70B", "a100", "4", "2") @@ "cluster_config_num_replicas" :> "2",
     Requests("3") @@ Intervals("trace") @@ Scheduler("orca")
        @@ "trace_request_interval_generator_config_start_time" :> "1"
        @@ "trace_request_interval_generator_config_end_time" :> "40"
        @@ Machine("InternLM_20B", "a100", "2", "2"),
     Requests("2") @@ Lengths("trace") @@ Intervals("poisson")
        @@ "trace_request_length_generator_config_decode_scale_factor" :> "2.0"
        @@ "poisson_request_interval_generator_config_qps" :> "1.0"
        @@ Machine("Llama3_8B", "h100", "1", "4"),
     Synthetic \o "duration" :> "5" @@ Intervals("gamma") @@ Lengths("fixed")
        @@ "fixed_request_length_generator_config_prefill_tokens" :> "4000"
        @@ "fixed_request_length_generator_config_decode_tokens" :> "96"
        @@ Machine("Qwen72B", "a100", "4", "4"),
     Synthetic \o "duration" :> "10" @@ Intervals("trace")
        @@ "trace_request_interval_generator_config_time_scale_factor" :> "0.5"
        @@ Machine("InternLM_20B", "a40", "1", "1"),
     Requests("9") @@ Lengths("trace") @@ Intervals("static"),
     "request_generator_config_type" :> "trace_replay"
        @@ "trace_request_generator_config_max_tokens" :> "2048"
        @@ "trace_request_generator_config_time_scale_factor" :> "0.5"
        @@ Machine("CodeLlama34B", "a100", "2", "1"),
     "request_generator_config_type" :> "trace_replay"
        @@ "trace_request_generator_config_prefill_scale_factor" :> "0.5",
     Machine("Llama2_7B", "a100", "1", "3"),
     Machine("Llama2_70B", "a100", "1", "1"),
     "max_tokens" :> "4096"}

MCLengthTrace ==
    <<[arrived_at |-> 0, num_prefill_tokens |-> 5000, num_decode_tokens |-> 1],
      [arrived_at |-> 0, num_prefill_tokens |-> 3000, num_decode_tokens |-> 900],
      [arrived_at |-> 0, num_prefill_tokens |-> 1, num_decode_tokens |-> 3000]>>

MCReplayTrace ==
    <<[arrived_at |-> 3, num_prefill_tokens |-> 1900, num_decode_tokens |-> 700],
      [arrived_at |-> 4, num_prefill_tokens |-> 1, num_decode_tokens |-> 2047],
      [arrived_at |-> 8, num_prefill_tokens |-> 4000, num_decode_tokens |-> 0]>>

MCIntervalTimes == <<1, 2, 9, 5, 30, 40>>

MCTotals == {1024, 1029, 2561, 4096}
=============================================================================
