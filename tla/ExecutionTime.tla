--------------------------- MODULE ExecutionTime ----------------------------
(***************************************************************************)
(* What the predictor says of a batch in a stage (entities/                *)
(* execution_time.py): the times of the operations of a layer, of the      *)
(* pipeline's communication and of the CPU, in milliseconds, the sums the  *)
(* simulator takes of them, and the metrics they are stored under.         *)
(***************************************************************************)
EXTENDS Integers, SequencesExt

OfMlp(p) == p.up_proj + p.down_proj + p.act + p.tensor_parallel + p.mlp_norm

OfAttention(p) ==
    p.pre_proj + p.post_proj + p.rope + p.kv_cache_save + p.decode + p.prefill
        + p.tensor_parallel + p.attn_norm

OfBlock(p) == OfAttention(p) + OfMlp(p) + p.add

CpuOverhead(p) == p.schedule + p.sampler + p.prepare_inputs + p.process_outputs + p.ray_comm

ModelTime(p) == OfBlock(p) * p.num_layers + p.pipeline_parallel

TotalTime(p) == ModelTime(p) + CpuOverhead(p)

-----------------------------------------------------------------------------
(* MetricsStore.on_replica_stage_schedule: the OperationMetrics of one layer *)
(* and of the stage, and the CpuOperationMetrics, as pairs of a metric and a *)
(* value.  Attention without a prefill or a decode is not stored.            *)

LayerOperations(p) ==
    <<<<"mlp_up_proj", p.up_proj>>, <<"mlp_activation", p.act>>,
      <<"mlp_down_proj", p.down_proj>>, <<"mlp_down_proj_all_reduce", p.tensor_parallel>>,
      <<"attn_pre_proj", p.pre_proj>>, <<"attn_post_proj", p.post_proj>>,
      <<"attn_post_proj_all_reduce", p.tensor_parallel>>>>
    \o (IF p.prefill # 0 THEN <<<<"attn_prefill", p.prefill>>>> ELSE <<>>)
    \o (IF p.decode # 0 THEN <<<<"attn_decode", p.decode>>>> ELSE <<>>)
    \o <<<<"attn_kv_cache_save", p.kv_cache_save>>, <<"attn_rope", p.rope>>,
         <<"add", p.add * 2>>, <<"input_layernorm", p.attn_norm>>,
         <<"post_attention_layernorm", p.mlp_norm>>>>

StageOperations(p) ==
    FlattenSeq([layer \in 1 .. p.num_layers |-> LayerOperations(p)])
        \o <<<<"pipeline_send_recv", p.pipeline_parallel>>>>

CpuOperations(p) ==
    <<<<"schedule", p.schedule>>, <<"sample_e2e", p.sampler>>,
      <<"prepare_inputs_e2e", p.prepare_inputs>>, <<"model_execution_e2e", ModelTime(p)>>,
      <<"process_model_outputs", p.process_outputs>>, <<"ray_comm_time", p.ray_comm>>>>

SumOf(operations) == FoldSeq(LAMBDA o, sum : o[2] + sum, 0, operations)
=============================================================================
