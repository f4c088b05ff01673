----------------------------- MODULE MCOffline -----------------------------
(* Two nodes of two GPUs; one model, profiled for one and two workers; and *)
(* two simulations that share a cache.                                     *)
EXTENDS Offline, Profiling

MCCombinations == <<1, 2>>
MCCollectives == {"all_reduce", "send_recv"}
MCSizes == <<1, 2>>

Llama == [model |-> "Llama2_7B", device |-> "a100", tp |-> 1, pp |-> 1,
          max_request_tokens |-> 64]
Inputs == [max_seq_len |-> 64, min_batch_size |-> 1, max_batch_size |-> 2,
           profile_only_decode |-> FALSE, profile_only_prefill |-> FALSE,
           block_size |-> 16]

MCProfiles ==
    [compute |-> MlpRows("Llama2_7B", {1, 2}, 2),
     attention |-> AttentionRows(Llama, {1, 2}, Inputs),
     all_reduce |-> {}, send_recv |-> {},
     cpu_overhead |->
        CpuOverheadRows("Llama2_7B", {1, 2}, 16, {<<2, 16>>})]

Base == [scheduler |-> "sarathi", model |-> "Llama2_7B", device |-> "a100",
         network_device |-> "a100_pairwise_nvlink", tp |-> 1, pp |-> 1,
         block_size |-> 16, granularity |-> 4, max_chunk |-> 16, max_batch |-> 2,
         max_tokens_per_request |-> 16, skip_cpu |-> TRUE,
         k_fold |-> 2, provider |-> "random_forrest", no_cache |-> FALSE]

MCSetups ==
    {<<Base, Base>>, <<Base, [Base EXCEPT !.max_chunk = 8]>>,
     <<Base, [Base EXCEPT !.no_cache = TRUE, !.skip_cpu = FALSE]>>,
     <<[Base EXCEPT !.tp = 2, !.pp = 4], [Base EXCEPT !.tp = 4, !.scheduler = "orca"]>>,
     <<[Base EXCEPT !.tp = 2, !.pp = 2], [Base EXCEPT !.tp = 2, !.pp = 4, !.granularity = 8]>>}
=============================================================================
