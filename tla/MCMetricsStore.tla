--------------------------- MODULE MCMetricsStore ---------------------------
(* MetricsStore on one pipeline of two stages. *)
EXTENDS MetricsStore

MCArrivedAt == [r \in Requests |-> IF r = NumRequests THEN 2 ELSE 1]

(* A quick and a slow prediction, of two layers each. *)
Quick ==
    [up_proj |-> 0, down_proj |-> 1, act |-> 0, tensor_parallel |-> 0, mlp_norm |-> 0,
     pre_proj |-> 0, post_proj |-> 0, rope |-> 0, kv_cache_save |-> 0, decode |-> 0,
     prefill |-> 0, attn_norm |-> 0, add |-> 0, num_layers |-> 2, pipeline_parallel |-> 0,
     schedule |-> 0, sampler |-> 0, prepare_inputs |-> 0, process_outputs |-> 0, ray_comm |-> 0]
Slow == [Quick EXCEPT !.prefill = 1, !.add = 1, !.tensor_parallel = 1,
                      !.pipeline_parallel = 1, !.schedule = 1]
MCPredictions == {Quick, Slow}

AllMetrics ==
    [save_table_to_wandb |-> TRUE, store_request_metrics |-> TRUE, store_batch_metrics |-> TRUE,
     store_utilization_metrics |-> TRUE, store_operation_metrics |-> TRUE,
     store_token_completion_metrics |-> TRUE, keep_individual_batch_metrics |-> TRUE,
     subsamples |-> 2, min_batch_index |-> 0, max_batch_index |-> 0]

(* The metrics of a few batches only. *)
SomeBatches ==
    [AllMetrics EXCEPT !.store_utilization_metrics = FALSE, !.subsamples = 0,
                       !.min_batch_index = 1, !.max_batch_index = 2]

MCOptions == {AllMetrics, SomeBatches}

(* One request is short, and most are when only some batches are stored.    *)
MCInit ==
    /\ StoreInit
    /\ Cardinality({q \in Requests : req[q].decode > 1}) <= IF options = SomeBatches THEN 1 ELSE 2
MCSpec == MCInit /\ [][StoreNext]_allVars /\ WF_allVars(StoreNext)
=============================================================================
