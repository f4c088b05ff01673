----------------------------- MODULE MCExplorer -----------------------------
(* Three jobs on two nodes of one core each, after one warm-up. *)
EXTENDS Explorer

MCConfig ==
    [models |-> <<[name |-> "phi-2", identifier |-> "microsoft/phi-2",
                   exclude_tp_dims |-> {2}]>>,
     traces |-> <<[name |-> "chat", trace_file |-> "lmsys", max_seq_len |-> 4096,
                   num_requests |-> 64, start_qps |-> 8192]>>,
     clusters |-> <<[device |-> "a100", num_gpus |-> 2, gpus_per_node |-> 2]>>,
     schedulers |-> <<[name |-> "sarathi", chunk_size |-> 256], [name |-> "vllm"],
                      [name |-> "sarathi", chunk_size |-> 512]>>,
     tp_dimensions |-> <<1, 2>>, pp_dimensions |-> <<1>>, batch_sizes |-> <<1>>]

MCNodes == <<"n1", "n2">>
OwnDisks == [n \in {1, 2} |-> n]
SharedDisk == [n \in {1, 2} |-> 1]

(* An exploration of the same configuration, and one of a larger cluster    *)
(* with another trace, whose jobs have the same keys.                       *)
MCLeftovers ==
    {Jobs[1], [Jobs[1] EXCEPT !.trace.trace_file = "arxiv", !.cluster.num_gpus = 4,
                              !.num_replicas = 4]}

(* In the first, loads near the right bound are fine; in the second, the    *)
(* delay is more than 500 s at more than twice the capacity.                *)
Alike(f) == [job \in Range(Jobs) \cup MCLeftovers |-> f]
MCProfiles ==
    {Alike([eighth |-> 0, quarter |-> 0, slo |-> 27000, huge |-> 100000]),
     Alike([eighth |-> 8200, quarter |-> 8200, slo |-> 14746, huge |-> 30000])}
OneProfile == {Alike([eighth |-> 100, quarter |-> 300, slo |-> 700, huge |-> 5000])}

(* Simulations of Sarathi may fail, those of vLLM do. *)
SomeOutcome(names) ==
    IF "sarathi_scheduler_config_chunk_size" \in names THEN BOOLEAN ELSE {FALSE}

(* The simulator ends with an error when it does not know an argument. *)
F == INSTANCE FlatConfig
OutcomeOfMain(names) == {F!Accepted(names)}
=============================================================================
