------------------------------- MODULE Models -------------------------------
(***************************************************************************)
(* The models, devices and nodes a configuration can name, what a model's  *)
(* parameters take on a device, and how many requests the memory planner   *)
(* lets a replica hold.  Parameters are counted in units of 2^15, so that  *)
(* a device's parameters stay in range; the memory of u units of numbers   *)
(* of two bytes is 2 * u units of 2^15 bytes.                              *)
(***************************************************************************)
EXTENDS Integers, FiniteSets

(* Defaults of Llama2ModelConfig that its subclasses change. *)
Llama2(layers, q, kv, emb, mlp) ==
    [num_layers |-> layers, num_q_heads |-> q, num_kv_heads |-> kv,
     embedding_dim |-> emb, mlp_hidden_dim |-> mlp, use_gated_mlp |-> TRUE,
     norm |-> "rms_norm", activation |-> "silu", post_attn_norm |-> TRUE,
     vocab_size |-> 32768, no_tensor_parallel |-> FALSE]

LlamaModels ==
    [CodeLlama34B |-> Llama2(48, 64, 8, 8192, 22016),
     Llama2_7B |-> Llama2(32, 32, 32, 4096, 11008),
     Llama2_70B |-> Llama2(80, 64, 8, 8192, 28672),
     Llama3_8B |-> [Llama2(32, 32, 8, 4096, 14336) EXCEPT !.vocab_size = 128256],
     Llama3_70B |-> [Llama2(80, 64, 8, 8192, 28672) EXCEPT !.vocab_size = 128256]]

OtherModels ==
    [InternLM_20B |-> [Llama2(60, 40, 40, 5120, 13824) EXCEPT !.vocab_size = 103168],
     InternLM2_20B |-> [Llama2(48, 48, 8, 6144, 16384) EXCEPT !.vocab_size = 92544],
     Phi2 |-> [Llama2(32, 32, 32, 2560, 10240) EXCEPT
                 !.use_gated_mlp = FALSE, !.norm = "layer_norm", !.activation = "gelu",
                 !.post_attn_norm = FALSE, !.vocab_size = 51200,
                 !.no_tensor_parallel = TRUE],
     Qwen72B |-> [Llama2(80, 64, 64, 8192, 24576) EXCEPT !.vocab_size = 152064]]

(* create_from_name: the model of a name. *)
Model(name) ==
    IF name \in DOMAIN LlamaModels THEN LlamaModels[name] ELSE OtherModels[name]

Devices ==
    [a40 |-> [fp16_tflops |-> 150, total_memory_gb |-> 45],
     a100 |-> [fp16_tflops |-> 312, total_memory_gb |-> 80],
     h100 |-> [fp16_tflops |-> 1000, total_memory_gb |-> 80]]

DevicesPerNode ==
    [a40_pairwise_nvlink |-> 8, a100_pairwise_nvlink |-> 4, h100_pairwise_nvlink |-> 4,
     a100_dgx |-> 8, h100_dgx |-> 8]

-----------------------------------------------------------------------------
(* A replica r: the name of its model, its device, its tensor and pipeline  *)
(* parallelism, and the most tokens a request may have.                     *)

Unit == 32768
CeilingDiv(a, b) == (a + b - 1) \div b
Smaller(a, b) == IF a <= b THEN a ELSE b

(* The assertions of Replica and of ParamCounter. *)
Divides(r) ==
    LET m == Model(r.model)
    IN  /\ m.num_layers % r.pp = 0
        /\ m.embedding_dim % r.tp = 0
        /\ m.num_q_heads % r.tp = 0
        /\ m.embedding_dim % m.num_q_heads = 0

HeadDim(r) == Model(r.model).embedding_dim \div Model(r.model).num_q_heads
QHeadsPerWorker(r) == Model(r.model).num_q_heads \div r.tp
KvHeadsPerWorker(r) == CeilingDiv(Model(r.model).num_kv_heads, r.tp)
LayersPerStage(r) == Model(r.model).num_layers \div r.pp

(* get_num_parameters_per_layer: Wq, Wk and Wv, then Wo, then the MLP. *)
ParametersPerLayer(r) ==
    LET m == Model(r.model)
        attention == m.embedding_dim * HeadDim(r)
                        * (2 * QHeadsPerWorker(r) + 2 * KvHeadsPerWorker(r))
        matrices == IF m.use_gated_mlp THEN 3 ELSE 2
    IN  (attention + (matrices * m.embedding_dim * m.mlp_hidden_dim) \div r.tp) \div Unit

ParametersPerDevice(r) == ParametersPerLayer(r) * LayersPerStage(r)

-----------------------------------------------------------------------------
(* MemoryPlanner. *)

KvMemoryPerLayerPerRequest(r) ==
    (2 * 2 * HeadDim(r) * KvHeadsPerWorker(r) * r.max_request_tokens) \div Unit

ParameterMemory(r) == 2 * ParametersPerDevice(r)

(* Seeded fault: only the layers of the stage. *)
KvMemoryPerRequestOfStage(r) == KvMemoryPerLayerPerRequest(r) * LayersPerStage(r)

(* Of all layers, those of other stages included. *)
KvMemoryPerRequest(r) == KvMemoryPerLayerPerRequest(r) * Model(r.model).num_layers

(* The memory margin is a tenth, its default. *)
AvailableMemory(r) == (Devices[r.device].total_memory_gb * Unit * 9) \div 10

MaxRequests(r) ==
    LET left == AvailableMemory(r) - ParameterMemory(r)
    IN  left \div KvMemoryPerRequest(r)

(* The assertion of get_max_batch_size. *)
HasMemory(r) == MaxRequests(r) > 0

MaxRequestSlots(r) == MaxRequests(r) * r.pp

(* BaseReplicaScheduler.__init__: the blocks and the batch size of a        *)
(* replica whose configuration does not give the number of blocks.          *)
MaxBlocksPerSequence(r, block_size) == r.max_request_tokens \div block_size

PlannedBlocks(r, block_size) == MaxBlocksPerSequence(r, block_size) * MaxRequestSlots(r)

MaxBatch(r, cap) == Smaller(MaxRequests(r), cap)
=============================================================================
