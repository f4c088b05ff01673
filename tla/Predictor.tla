----------------------------- MODULE Predictor -----------------------------
(***************************************************************************)
(* SklearnExecutionTimePredictor: which rows of the profiles each model is *)
(* trained on, which inputs it is asked to predict once and for all, and   *)
(* which of those predictions the execution time of a batch looks up.      *)
(*                                                                         *)
(* A simulation s is a record: scheduler, model, device, network_device,   *)
(* tp, pp, block_size and the fields of the predictor's configuration      *)
(* (granularity, max_chunk, max_batch, max_tokens_per_request, skip_cpu).  *)
(***************************************************************************)
EXTENDS Models, SequencesExt

(* __init__: only Orca's batches are taken to exceed one request's tokens.  *)
MaxTokens(s) ==
    IF s.scheduler = "orca" THEN s.max_tokens_per_request * s.max_batch
    ELSE s.max_tokens_per_request

NumWorkers(s) == s.tp * s.pp

(* The assertion on the number of workers. *)
WorkersFit(s) ==
    LET per_node == DevicesPerNode[s.network_device]
    IN  NumWorkers(s) < per_node \/ NumWorkers(s) % per_node = 0

IsMultiNode(s) == NumWorkers(s) > DevicesPerNode[s.network_device]

(* _get_input_files: what the placeholders of the paths become. *)
InputFiles(s) ==
    [compute |-> <<s.device, s.model>>, attention |-> <<s.device, s.model>>,
     all_reduce |-> <<s.network_device>>, send_recv |-> <<s.network_device>>,
     cpu_overhead |-> <<s.network_device, s.model>>]

-----------------------------------------------------------------------------
(* The rows of a profile that are about the simulation. *)

ComputeRows(s, rows) ==
    LET m == Model(s.model)
    IN  {x \in rows :
            /\ x.n_head = m.num_q_heads /\ x.n_kv_head = m.num_kv_heads
            /\ x.n_embd = m.embedding_dim /\ x.n_expanded_embd = m.mlp_hidden_dim
            /\ x.use_gated_mlp = m.use_gated_mlp /\ x.vocab_size = m.vocab_size
            /\ x.tp = s.tp}

(* A column that is missing from the file is filled with zeros. *)
FilledColumns == {"post_attention_layernorm", "add", "input_layernorm"}

AttentionRowsOf(s, rows) ==
    LET m == Model(s.model)
    IN  {x \in rows :
            /\ x.n_embd = m.embedding_dim /\ x.n_q_head = m.num_q_heads
            /\ x.n_kv_head = m.num_kv_heads /\ x.block_size = s.block_size
            /\ x.tp = s.tp}

(* Seeded fault: the workers of the whole replica are on a node. *)
AllReduceRowsOfReplica(s, rows) ==
    {x \in rows : x.num_workers = s.tp /\ x.devices_per_node = NumWorkers(s)
                    /\ x.collective = "all_reduce"}

AllReduceRows(s, rows) ==
    {x \in rows : x.num_workers = s.tp /\ x.devices_per_node = s.tp
                    /\ x.collective = "all_reduce"}

SendRecvRows(s, rows) ==
    {x \in rows : x.collective = "send_recv"
                    /\ x.devices_per_node = IF IsMultiNode(s) THEN 1 ELSE 2}

CpuOverheadRowsOf(s, rows) == {x \in rows : x.model_name = s.model /\ x.tp = s.tp}

IsDecode(x) == x.chunk = 0

-----------------------------------------------------------------------------
(* _train_models: the models in the order they are trained. *)

ComputeModels ==
    <<"attn_pre_proj", "attn_post_proj", "mlp_up_proj", "mlp_down_proj", "mlp_act",
      "input_layernorm", "post_attention_layernorm", "attn_rope", "add">>

If(condition, names) == IF condition THEN names ELSE <<>>

TrainedCompute(s) ==
    ComputeModels \o <<"attn_kv_cache_save">>
        \o If(s.pp > 1, <<"send_recv">>) \o If(s.tp > 1, <<"all_reduce">>)

TrainedCpuOverhead(s) ==
    If(~s.skip_cpu, <<"schedule", "sampler_e2e", "prepare_inputs_e2e",
                      "process_model_outputs", "ray_comm_time">>)

TrainedAttention == <<"attn_prefill", "attn_decode">>

TrainedModels(s) == TrainedCompute(s) \o TrainedCpuOverhead(s) \o TrainedAttention

(* What a model is trained on, from the profiles p: a set of rows. *)
TrainingRows(s, name, p) ==
    CASE name \in Range(ComputeModels) ->
            {x \in ComputeRows(s, p.compute) : name \in x.operations \cup FilledColumns}
      [] name = "attn_kv_cache_save" -> AttentionRowsOf(s, p.attention)
      [] name = "send_recv" -> SendRecvRows(s, p.send_recv)
      [] name = "all_reduce" -> AllReduceRows(s, p.all_reduce)
      [] name = "attn_prefill" -> {x \in AttentionRowsOf(s, p.attention) : ~IsDecode(x)}
      [] name = "attn_decode" -> {x \in AttentionRowsOf(s, p.attention) : IsDecode(x)}
      [] OTHER -> CpuOverheadRowsOf(s, p.cpu_overhead)

(* _train_model: an empty set is an error; a cross validation has at least  *)
(* two folds, which need two rows.                                          *)
CanTrain(rows) == Cardinality(rows) >= 2

-----------------------------------------------------------------------------
(* _predict_from_models: the keys of each model's table. *)

PredictedCompute(s) ==
    <<"attn_pre_proj", "attn_post_proj", "mlp_up_proj", "mlp_down_proj", "mlp_act",
      "attn_rope", "attn_kv_cache_save", "input_layernorm",
      "post_attention_layernorm", "add">>
        \o If(s.pp > 1, <<"send_recv">>) \o If(s.tp > 1, <<"all_reduce">>)

PredictedCpuOverhead(s) == TrainedCpuOverhead(s)

PredictedAttention == <<"attn_prefill", "attn_decode">>

PredictedModels(s) ==
    PredictedCompute(s) \o PredictedCpuOverhead(s) \o PredictedAttention

InComputeTable(s, key) == key[1] \in 1 .. MaxTokens(s)
InCpuTable(s, key) == key[1] \in 1 .. s.max_batch

(* Seeded fault: the range stops before the longest context. *)
InKvSizesExclusive(s, n) ==
    n \in 0 .. s.max_tokens_per_request - 1 /\ n % s.granularity = 0

(* np.arange(0, max_tokens_per_request + 1, granularity) *)
InKvSizes(s, n) == n \in 0 .. s.max_tokens_per_request /\ n % s.granularity = 0

InDecodeTable(s, key) == key[1] \in 1 .. s.max_batch /\ InKvSizes(s, key[2])
InPrefillTable(s, key) ==
    InKvSizes(s, key[1]) /\ \E c \in 1 .. s.max_chunk : key[2] = c * c

InTable(s, name, key) ==
    IF name = "attn_prefill" THEN InPrefillTable(s, key)
    ELSE IF name = "attn_decode" THEN InDecodeTable(s, key)
    ELSE IF name \in Range(PredictedCompute(s)) THEN InComputeTable(s, key)
    ELSE InCpuTable(s, key)

-----------------------------------------------------------------------------
(* The lookups.  A batch is a sequence of entries: the tokens its request   *)
(* has processed, whether its prefill is complete, and the tokens the batch *)
(* processes of it.                                                         *)

TotalTokens(batch) == FoldLeft(LAMBDA n, x : n + x.tokens, 0, batch)

(* Batch._total_num_tokens_rounded *)
RoundedTokens(batch) == ((TotalTokens(batch) + 7) \div 8) * 8

RoundUp(s, n) == CeilingDiv(n, s.granularity) * s.granularity

Decodes(batch) == SelectSeq(batch, LAMBDA x : x.prefilled)
Prefills(batch) == SelectSeq(batch, LAMBDA x : ~x.prefilled)

(* _get_batch_decode_attention_params *)
DecodeParams(s, batch) ==
    LET decodes == Decodes(batch)
        total == FoldLeft(LAMBDA n, x : n + x.processed, 0, decodes)
    IN  IF decodes = <<>> THEN <<0, 0>>
        ELSE <<Len(decodes), RoundUp(s, total \div Len(decodes))>>

(* round(n ** 0.5): a root of a whole number is never halfway. *)
RoundedRoot(n) == CHOOSE r \in 0 .. n : r * r - r < n /\ n <= r * r + r

(* _get_batch_prefill_attention_params and their aggregation. *)
PrefillKey(s, batch) ==
    LET prefills == Prefills(batch)
        kv == FoldLeft(LAMBDA n, x : n + RoundUp(s, x.processed), 0, prefills)
        squares == FoldLeft(LAMBDA n, x : n + x.tokens * x.tokens, 0, prefills)
        chunk == RoundedRoot(squares)
    IN  <<kv, chunk * chunk>>

ComputeLookups(s, batch) ==
    {<<name, <<RoundedTokens(batch)>>>> :
        name \in {"attn_pre_proj", "attn_post_proj", "mlp_up_proj", "mlp_down_proj",
                  "mlp_act", "attn_rope", "input_layernorm", "add"}
                 \cup (IF Model(s.model).post_attn_norm
                       THEN {"post_attention_layernorm"} ELSE {})}
        \cup {<<"attn_kv_cache_save", <<TotalTokens(batch)>>>>}

AttentionLookups(s, batch) ==
    {<<"attn_decode", DecodeParams(s, batch)>> : x \in Range(Decodes(batch))}
        \cup {<<"attn_prefill", PrefillKey(s, batch)>> : x \in Range(Prefills(batch))}

CpuLookups(s, batch) ==
    {<<name, <<Len(batch)>>>> : name \in Range(TrainedCpuOverhead(s))}

(* get_execution_time: the last stage sends nothing on, one worker needs no *)
(* all-reduce.                                                              *)
Lookups(s, batch, stage) ==
    ComputeLookups(s, batch) \cup AttentionLookups(s, batch) \cup CpuLookups(s, batch)
        \cup (IF stage # s.pp - 1 THEN {<<"send_recv", <<RoundedTokens(batch)>>>>} ELSE {})
        \cup (IF s.tp # 1 THEN {<<"all_reduce", <<RoundedTokens(batch)>>>>} ELSE {})

(* The predictions the batch needs are there. *)
Predicted(s, batch, stage) ==
    \A x \in Lookups(s, batch, stage) :
        x[1] \in Range(PredictedModels(s)) /\ InTable(s, x[1], x[2])
=============================================================================
