----------------------------- MODULE Profiling -----------------------------
(***************************************************************************)
(* The profilers (src/vidur/profiling): which inputs they run and what the *)
(* rows of the csv files they write say about a model.  The time a kernel  *)
(* takes is left out: a row names the operations it has times for.         *)
(***************************************************************************)
EXTENDS Models, Sequences, FiniteSetsExt

K == 1024

(* range(first, last + 1, step) *)
Range3(first, last, step) == {first + i * step : i \in 0 .. (last - first) \div step}

UpTo(space, max) == {n \in space : n <= max}

-----------------------------------------------------------------------------
(* profiling/utils: the inputs. *)

NumTokensToProfile(max) ==
    UpTo({1, 2, 4} \cup Range3(8, K - 1, 8) \cup Range3(K, 2 * K, 16)
            \cup Range3(2 * K, 4 * K, 32) \cup Range3(4 * K, 8 * K, 64)
            \cup Range3(8 * K, 16 * K, 128) \cup Range3(16 * K, 32 * K, 256)
            \cup Range3(32 * K, 64 * K, 512) \cup Range3(64 * K, 128 * K, K), max)

AttentionBatchSizes(min, max) ==
    {n \in (1 .. 128) \cup Range3(128, K, 8) : min <= n /\ n <= max}

PrefillChunkSizes(max) ==
    UpTo(Range3(64, 128, 16) \cup Range3(128, K, 32) \cup Range3(K, 4 * K, 64)
            \cup Range3(4 * K, 16 * K, 128) \cup Range3(16 * K, 64 * K, 256), max)

SeqLengths(max) ==
    {n \in Range3(0, K, 32) \cup Range3(K, 4 * K, 64) \cup Range3(4 * K, 64 * K, 256) :
        n < max}

(* AttentionInput.is_valid *)
ValidAttentionInput(x, max_seq_len) ==
    IF x.is_prefill
    THEN x.batch_size = 1 /\ x.chunk > 0 /\ x.chunk + x.kv <= max_seq_len
    ELSE x.chunk = 0 /\ x.kv > 0 /\ x.kv <= max_seq_len

UnderMemoryLimit(x, max_num_tokens) == x.batch_size * (x.kv + x.chunk) <= max_num_tokens

AttentionInputs(a) ==
    LET input(chunk, kv, batch, prefill) ==
            [chunk |-> chunk, kv |-> kv, batch_size |-> batch, is_prefill |-> prefill]
        chunked == UNION {{input(c, i * c, 1, TRUE) : i \in 0 .. a.max_seq_len \div c - 1} :
                            c \in PrefillChunkSizes(a.max_seq_len)}
        full == {input(n, 0, 1, TRUE) : n \in SeqLengths(a.max_seq_len)}
        decodes == {input(0, n, b, FALSE) :
                        n \in SeqLengths(a.max_seq_len),
                        b \in AttentionBatchSizes(a.min_batch_size, a.max_batch_size)}
    IN  {x \in chunked \cup full \cup decodes :
            /\ ~(x.is_prefill /\ a.profile_only_decode)
            /\ ~(~x.is_prefill /\ a.profile_only_prefill)
            /\ ValidAttentionInput(x, a.max_seq_len)}

CpuOverheadBatchSizes(max) == UpTo(Range3(8, 64, 8) \cup Range3(64, 256, 16), max)

(* get_max_num_blocks, with the memory of the GPU in KiB, for models whose   *)
(* layers are a multiple of 8, as its assertion demands.                     *)
MaxNumBlocks(r, block_size) ==
    LET element_size == 2
        block == 2 * block_size * (Model(r.model).num_kv_heads \div r.tp) * HeadDim(r)
                    * element_size * (Model(r.model).num_layers \div 8)
        gpu == (Devices[r.device].total_memory_gb * K * K * 9) \div 10
    IN  gpu \div (block \div K)

-----------------------------------------------------------------------------
(* mlp_impl.py: the operations of a block that are timed. *)

MlpOperations(model) ==
    {"emb", "attn_pre_proj", "attn_rope", "attn_post_proj", "mlp_up_proj", "mlp_act",
     "mlp_down_proj", "input_layernorm", "add"}
        \cup (IF Model(model).post_attn_norm THEN {"post_attention_layernorm"} ELSE {})

(* mlp/main.py: the csv file of a model. *)
MlpRows(name, tps, max_tokens) ==
    LET m == Model(name)
    IN  {[n_head |-> m.num_q_heads, n_kv_head |-> m.num_kv_heads,
          n_embd |-> m.embedding_dim, n_expanded_embd |-> m.mlp_hidden_dim,
          vocab_size |-> m.vocab_size, use_gated_mlp |-> m.use_gated_mlp,
          num_tokens |-> n, tp |-> t, operations |-> MlpOperations(name)] :
            n \in NumTokensToProfile(max_tokens),
            t \in {t \in tps : ~(m.no_tensor_parallel /\ t > 1)}}

(* attention/main.py and the rows of AttentionWrapper.profile. *)
AttentionRows(r, tps, a) ==
    LET m == Model(r.model)
        rows(t) == {x \in AttentionInputs(a) :
                        UnderMemoryLimit(x, MaxNumBlocks([r EXCEPT !.tp = t], a.block_size)
                                                * a.block_size)}
    IN  UNION {{[n_embd |-> m.embedding_dim, n_q_head |-> m.num_q_heads,
                 n_kv_head |-> m.num_kv_heads, block_size |-> a.block_size, tp |-> t,
                 chunk |-> x.chunk, kv |-> x.kv, batch_size |-> x.batch_size] :
                    x \in rows(t)} : t \in tps}

(* cpu_overhead/main.py: the first batch size that fails ends a degree;     *)
(* failing holds the pairs of a degree and a batch size that do.            *)
CpuOverheadRows(name, tps, max_batch_size, failing) ==
    {[model_name |-> name, tp |-> y[1], batch_size |-> y[2]] :
        y \in {x \in tps \X CpuOverheadBatchSizes(max_batch_size) :
            \A c \in CpuOverheadBatchSizes(max_batch_size) :
                c <= x[2] => <<x[1], c>> \notin failing}}
=============================================================================
