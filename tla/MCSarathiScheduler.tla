------------------------- MODULE MCSarathiScheduler -------------------------
(* SarathiScheduler on a small replica. *)
EXTENDS SarathiPredictions

(* Two requests arrive together, the others apart. *)
MCArrivedAt == [r \in Requests |-> r \div 2]

(* Tables just large enough for one request of nine tokens: the last decode *)
(* has eight tokens behind it.                                              *)
MCTables ==
    [scheduler |-> "sarathi", model |-> "Llama2_7B", tp |-> 1, pp |-> NumStages,
     granularity |-> 4, max_chunk |-> ChunkSize, max_batch |-> MaxMicroBatchSize,
     max_tokens_per_request |-> 8, skip_cpu |-> FALSE]
=============================================================================
