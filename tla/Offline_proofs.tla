--------------------------- MODULE Offline_proofs ---------------------------
(***************************************************************************)
(* Theorems about the way from profiles to predictions, for any cluster,   *)
(* any combinations and sizes of the collectives, any number of            *)
(* simulations and any way to configure them: no simulation reads a file   *)
(* while it is written, what it uses is what it would have computed, the   *)
(* runners of a collective are in one group, and its rows suffice.         *)
(***************************************************************************)
EXTENDS Offline, SequenceTheorems, FiniteSetTheorems, WellFoundedInduction, TLAPS

-----------------------------------------------------------------------------
(* The cache. *)

(* Of some simulations one is the first. *)
LEMMA FirstIn ==
    ASSUME NEW S, S \subseteq Simulations, S # {}
    PROVE  FirstOf(S) \in S
<1>1. S \subseteq Nat
  BY CacheAssumption DEF CacheAssumption
<1>2. PICK m \in S : \A y \in S : ~(<<y, m>> \in OpToRel(<, Nat))
  BY <1>1, NatLessThanWellFounded, WFMin, Zenon
<1>3. \A y \in S : m <= y
  <2>1. \A y \in S : y < m => <<y, m>> \in OpToRel(<, Nat)
    BY <1>1 DEF OpToRel
  <2>2. \A y \in S : ~(y < m)
    BY <1>2, <2>1, Zenon
  <2>3. \A y \in S : y \in Nat /\ m \in Nat
    BY <1>1
  <2> QED BY <2>2, <2>3
<1> QED BY <1>3 DEF FirstOf

(* What a simulation computes is whole. *)
LEMMA OwnIsWhole ==
    ASSUME NEW p \in Simulations, NEW name
    PROVE  OwnModel(p, name) # Torn /\ OwnTable(p, name) # Torn
<1>1. p \in {q \in Simulations : SameData(p, q, name)}
  BY DEF SameData
<1>2. p \in {q \in Simulations :
                SameData(p, q, name) /\ SameInputs(setup[p], setup[q], name)}
  BY DEF SameData, SameInputs, SameNamedInputs
<1>3. OwnModel(p, name) \in Simulations /\ OwnTable(p, name) \in Simulations
  BY <1>1, <1>2, FirstIn DEF OwnModel, OwnTable
<1> QED BY <1>3, CacheAssumption DEF CacheAssumption, Torn

(* Once the profiles are complete the profiler does nothing more. *)
LEMMA OverIsOver == P!Over => ~P!Next
BY DEF P!Over, P!Next, P!Start, P!Begin, P!RunCollective, P!JoinGroup, P!NextInput

(* The kinds of files are told apart. *)
LEMMA FileKinds ==
    ASSUME NEW p
    PROVE  /\ File(p).kind \in {"model", "predictions"}
           /\ File(p) # NotWriting /\ File(p) # Computing
           /\ NotWriting # Computing
           /\ \A f : f.kind \in {"model", "predictions"} => f # NotWriting /\ f # Computing
BY DEF File, ModelFile, PredictionFile, NotWriting, Computing

(* A concatenation is a sequence, of the elements of both. *)
LEMMA Concatenated ==
    ASSUME NEW S, NEW u \in Seq(S), NEW v \in Seq(S)
    PROVE  /\ u \o v \in Seq(S)
           /\ Len(u \o v) = Len(u) + Len(v) /\ Len(u) \in Nat /\ Len(v) \in Nat
           /\ Range(u \o v) = Range(u) \cup Range(v)
<1>1. /\ u \o v \in Seq(S) /\ Len(u \o v) = Len(u) + Len(v)
      /\ Len(u) \in Nat /\ Len(v) \in Nat
      /\ \A i \in 1 .. Len(u) + Len(v) :
            (u \o v)[i] = IF i <= Len(u) THEN u[i] ELSE v[i - Len(u)]
  BY ConcatProperties, LenProperties
<1>2. /\ DOMAIN u = 1 .. Len(u) /\ DOMAIN v = 1 .. Len(v)
      /\ DOMAIN (u \o v) = 1 .. Len(u) + Len(v)
  BY <1>1, LenProperties
<1>3. ASSUME NEW x \in Range(u \o v) PROVE x \in Range(u) \cup Range(v)
  <2>1. PICK i \in 1 .. Len(u) + Len(v) : x = (u \o v)[i]
    BY <1>2 DEF Range
  <2>2. CASE i <= Len(u)
    BY <1>1, <1>2, <2>1, <2>2 DEF Range
  <2>3. CASE ~(i <= Len(u))
    <3>1. i - Len(u) \in 1 .. Len(v)
      BY <1>1, <2>3
    <3> QED BY <1>1, <1>2, <2>1, <2>3, <3>1 DEF Range
  <2> QED BY <2>2, <2>3
<1>4. ASSUME NEW x \in Range(u) PROVE x \in Range(u \o v)
  <2>1. PICK i \in 1 .. Len(u) : x = u[i]
    BY <1>2 DEF Range
  <2>2. i \in 1 .. Len(u) + Len(v) /\ (u \o v)[i] = x
    BY <1>1, <2>1
  <2> QED BY <1>2, <2>2 DEF Range
<1>5. ASSUME NEW x \in Range(v) PROVE x \in Range(u \o v)
  <2>1. PICK i \in 1 .. Len(v) : x = v[i]
    BY <1>2 DEF Range
  <2>2. PICK k : k = Len(u) + i
    OBVIOUS
  <2>3. k \in 1 .. Len(u) + Len(v) /\ ~(k <= Len(u)) /\ k - Len(u) = i
    BY <1>1, <2>2
  <2>4. (u \o v)[k] = x
    BY <1>1, <2>1, <2>3
  <2> QED BY <1>2, <2>3, <2>4 DEF Range
<1> QED BY <1>1, <1>3, <1>4, <1>5

(* What is there under a condition. *)
LEMMA IfRange ==
    ASSUME NEW c \in BOOLEAN, NEW S, NEW u \in Seq(S)
    PROVE  /\ If(c, u) \in Seq(S)
           /\ Range(If(c, u)) = IF c THEN Range(u) ELSE {}
<1>1. CASE c
  BY <1>1 DEF If
<1>2. CASE ~c
  <2>1. If(c, u) = <<>> /\ <<>> \in Seq(S) /\ Range(<<>>) = {}
    BY <1>2 DEF If, Range
  <2> QED BY <1>2, <2>1
<1> QED BY <1>1, <1>2

(* The models of a simulation: of all of them only two depend on its        *)
(* parallelism.                                                             *)
ModelNames ==
    Range(ComputeModels) \cup {"attn_kv_cache_save", "send_recv", "all_reduce",
        "schedule", "sampler_e2e", "prepare_inputs_e2e", "process_model_outputs",
        "ray_comm_time", "attn_prefill", "attn_decode"}

(* The sequences of models are not empty; two models depend on the stages.  *)
LEMMA ModelSequences ==
    ASSUME NEW s
    PROVE  /\ TrainedModels(s) \in Seq(ModelNames) /\ Len(TrainedModels(s)) \in Nat \ {0}
           /\ PredictedModels(s) \in Seq(ModelNames)
           /\ Len(PredictedModels(s)) \in Nat \ {0}
           /\ "send_recv" \in Range(TrainedCompute(s)) <=> (s.pp > 1)
           /\ "send_recv" \in Range(TrainedModels(s)) => (s.pp > 1)
           /\ "all_reduce" \in Range(TrainedModels(s)) => (s.tp > 1)
           /\ {"all_reduce", "send_recv"} \cap Range(ComputeModels) = {}
           /\ "send_recv" \in Range(PredictedModels(s)) => (s.pp > 1)
           /\ \A name : name # "send_recv" =>
                (name \in Range(TrainedCompute(s)) <=>
                    \/ name \in Range(ComputeModels) \cup {"attn_kv_cache_save"}
                    \/ (s.tp > 1) /\ name = "all_reduce")
<1> DEFINE cache == <<"attn_kv_cache_save">>
           overheads == <<"schedule", "sampler_e2e", "prepare_inputs_e2e",
                          "process_model_outputs", "ray_comm_time">>
           layers == <<"attn_pre_proj", "attn_post_proj", "mlp_up_proj", "mlp_down_proj",
                       "mlp_act", "attn_rope", "attn_kv_cache_save", "input_layernorm",
                       "post_attention_layernorm", "add">>
           send == If(s.pp > 1, <<"send_recv">>)
           reduce == If(s.tp > 1, <<"all_reduce">>)
           cpu == TrainedCpuOverhead(s)
<1>1. /\ ComputeModels \in Seq(ModelNames) /\ Len(ComputeModels) = 9
      /\ {"all_reduce", "send_recv"} \cap Range(ComputeModels) = {}
  BY DEF ComputeModels, ModelNames, Range
<1>2. cache \in Seq(ModelNames) /\ Range(cache) = {"attn_kv_cache_save"}
  BY DEF ModelNames, Range
<1>3. /\ <<"send_recv">> \in Seq(ModelNames) /\ Range(<<"send_recv">>) = {"send_recv"}
      /\ <<"all_reduce">> \in Seq(ModelNames) /\ Range(<<"all_reduce">>) = {"all_reduce"}
  BY DEF ModelNames, Range
<1>4. /\ overheads \in Seq(ModelNames)
      /\ {"all_reduce", "send_recv"} \cap Range(overheads) = {}
      /\ layers \in Seq(ModelNames) /\ "send_recv" \notin Range(layers)
      /\ Len(layers) = 10
  BY DEF ModelNames, Range, ComputeModels
<1>5. /\ TrainedAttention \in Seq(ModelNames) /\ PredictedAttention \in Seq(ModelNames)
      /\ {"all_reduce", "send_recv"} \cap Range(TrainedAttention) = {}
      /\ "send_recv" \notin Range(PredictedAttention)
  BY DEF ModelNames, Range, TrainedAttention, PredictedAttention
<1> HIDE DEF cache, overheads, layers
<1>6. /\ send \in Seq(ModelNames)
      /\ Range(send) = IF s.pp > 1 THEN {"send_recv"} ELSE {}
  <2>1. (s.pp > 1) \in BOOLEAN
    OBVIOUS
  <2> QED BY <1>3, <2>1, IfRange
<1>7. /\ reduce \in Seq(ModelNames)
      /\ Range(reduce) = IF s.tp > 1 THEN {"all_reduce"} ELSE {}
  <2>1. (s.tp > 1) \in BOOLEAN
    OBVIOUS
  <2> QED BY <1>3, <2>1, IfRange
<1>8. cpu \in Seq(ModelNames) /\ {"all_reduce", "send_recv"} \cap Range(cpu) = {}
  <2>1. (~s.skip_cpu) \in BOOLEAN
    OBVIOUS
  <2>2. cpu = If(~s.skip_cpu, overheads)
    BY DEF TrainedCpuOverhead, overheads
  <2>3. /\ If(~s.skip_cpu, overheads) \in Seq(ModelNames)
        /\ {"all_reduce", "send_recv"} \cap Range(If(~s.skip_cpu, overheads)) = {}
    BY <1>4, <2>1, IfRange
  <2> QED BY <2>2, <2>3
<1>9. TrainedCompute(s) = ((ComputeModels \o cache) \o send) \o reduce
  BY DEF TrainedCompute, cache
<1>10. PredictedCompute(s) = (layers \o send) \o reduce
  BY DEF PredictedCompute, layers
<1> HIDE DEF send, reduce, cpu
<1>11. /\ TrainedCompute(s) \in Seq(ModelNames) /\ Len(TrainedCompute(s)) >= 9
       /\ Range(TrainedCompute(s)) =
            Range(ComputeModels) \cup Range(cache) \cup Range(send) \cup Range(reduce)
  <2> DEFINE a == ComputeModels \o cache
             b == a \o send
  <2>1. /\ a \in Seq(ModelNames) /\ Len(a) >= 9 /\ Len(a) \in Nat
        /\ Range(a) = Range(ComputeModels) \cup Range(cache)
    <3>1. /\ a \in Seq(ModelNames) /\ Len(a) = Len(ComputeModels) + Len(cache)
          /\ Len(cache) \in Nat /\ Range(a) = Range(ComputeModels) \cup Range(cache)
      BY <1>1, <1>2, Concatenated
    <3>2. Len(ComputeModels) = 9
      BY <1>1
    <3> HIDE DEF a
    <3> QED BY <3>1, <3>2
  <2> HIDE DEF a
  <2>2. /\ b \in Seq(ModelNames) /\ Len(b) >= 9 /\ Len(b) \in Nat
        /\ Range(b) = Range(a) \cup Range(send)
    BY <1>6, <2>1, Concatenated
  <2> HIDE DEF b
  <2>3. /\ b \o reduce \in Seq(ModelNames) /\ Len(b \o reduce) >= 9
        /\ Range(b \o reduce) = Range(b) \cup Range(reduce)
    BY <1>7, <2>2, Concatenated
  <2>4. TrainedCompute(s) = b \o reduce
    BY <1>9 DEF a, b
  <2> QED BY <2>1, <2>2, <2>3, <2>4
<1>12. /\ PredictedCompute(s) \in Seq(ModelNames) /\ Len(PredictedCompute(s)) >= 10
       /\ Range(PredictedCompute(s)) = Range(layers) \cup Range(send) \cup Range(reduce)
  <2> DEFINE a == layers \o send
  <2>1. /\ a \in Seq(ModelNames) /\ Len(a) >= 10 /\ Len(a) \in Nat
        /\ Range(a) = Range(layers) \cup Range(send)
    <3>1. /\ a \in Seq(ModelNames) /\ Len(a) = Len(layers) + Len(send)
          /\ Len(send) \in Nat /\ Range(a) = Range(layers) \cup Range(send)
      <4>1. layers \in Seq(ModelNames) /\ send \in Seq(ModelNames)
        BY <1>4, <1>6
      <4> QED BY <4>1, Concatenated
    <3>2. Len(layers) = 10
      BY <1>4
    <3> HIDE DEF a
    <3> QED BY <3>1, <3>2
  <2> HIDE DEF a
  <2>2. /\ a \o reduce \in Seq(ModelNames) /\ Len(a \o reduce) >= 10
        /\ Range(a \o reduce) = Range(a) \cup Range(reduce)
    BY <1>7, <2>1, Concatenated
  <2>3. PredictedCompute(s) = a \o reduce
    BY <1>10 DEF a
  <2> QED BY <2>1, <2>2, <2>3
<1>13. ASSUME NEW u \in Seq(ModelNames), Len(u) >= 9, NEW v \in Seq(ModelNames)
       PROVE  /\ (u \o cpu) \o v \in Seq(ModelNames)
              /\ Len((u \o cpu) \o v) \in Nat \ {0}
              /\ Range((u \o cpu) \o v) = Range(u) \cup Range(cpu) \cup Range(v)
  <2>1. /\ u \o cpu \in Seq(ModelNames) /\ Len(u \o cpu) >= 9 /\ Len(u \o cpu) \in Nat
        /\ Range(u \o cpu) = Range(u) \cup Range(cpu)
    BY <1>8, <1>13, Concatenated
  <2> DEFINE w == u \o cpu
  <2> HIDE DEF w
  <2>2. /\ w \in Seq(ModelNames) /\ Len(w) >= 9 /\ Len(w) \in Nat
        /\ Range(w) = Range(u) \cup Range(cpu)
    BY <2>1 DEF w
  <2>3. /\ w \o v \in Seq(ModelNames) /\ Len(w \o v) \in Nat \ {0}
        /\ Range(w \o v) = Range(w) \cup Range(v)
    BY <1>13, <2>2, Concatenated
  <2> QED BY <2>2, <2>3 DEF w
<1>14. /\ TrainedModels(s) = (TrainedCompute(s) \o cpu) \o TrainedAttention
       /\ PredictedModels(s) = (PredictedCompute(s) \o cpu) \o PredictedAttention
  BY DEF TrainedModels, PredictedModels, PredictedCpuOverhead, cpu
<1>15. /\ TrainedModels(s) \in Seq(ModelNames) /\ Len(TrainedModels(s)) \in Nat \ {0}
       /\ Range(TrainedModels(s)) =
            Range(TrainedCompute(s)) \cup Range(cpu) \cup Range(TrainedAttention)
  BY <1>5, <1>11, <1>13, <1>14
<1>16. Len(PredictedCompute(s)) >= 9
  <2>1. Len(PredictedCompute(s)) \in Nat
    BY <1>12, LenProperties
  <2> QED BY <1>12, <2>1
<1>17. /\ PredictedModels(s) \in Seq(ModelNames) /\ Len(PredictedModels(s)) \in Nat \ {0}
       /\ Range(PredictedModels(s)) =
            Range(PredictedCompute(s)) \cup Range(cpu) \cup Range(PredictedAttention)
  BY <1>5, <1>12, <1>13, <1>14, <1>16
<1>18. /\ "send_recv" \in Range(TrainedCompute(s)) <=> (s.pp > 1)
       /\ "send_recv" \in Range(PredictedCompute(s)) => (s.pp > 1)
  BY <1>1, <1>2, <1>4, <1>6, <1>7, <1>11, <1>12
<1>19. ASSUME NEW name, name # "send_recv"
       PROVE  name \in Range(TrainedCompute(s)) <=>
                \/ name \in Range(ComputeModels) \cup {"attn_kv_cache_save"}
                \/ (s.tp > 1) /\ name = "all_reduce"
  BY <1>2, <1>6, <1>7, <1>11, <1>19
<1>20. "all_reduce" \in Range(TrainedModels(s)) => (s.tp > 1)
  <2>1. "all_reduce" \notin Range(cpu) \cup Range(TrainedAttention)
    BY <1>5, <1>8
  <2>2. "all_reduce" \in Range(TrainedCompute(s)) => (s.tp > 1)
    BY <1>1, <1>19
  <2> QED BY <1>15, <2>1, <2>2
<1> QED BY <1>1, <1>5, <1>8, <1>15, <1>17, <1>18, <1>19, <1>20

(* A simulation that has obtained something goes on to the next model.      *)
LEMMA ObtainedFacts ==
    ASSUME CacheInv, NEW p \in Simulations, NEW content, Running(p), Obtained(p, content),
           setup' = setup
    PROVE  /\ DOMAIN pc' = Simulations /\ DOMAIN next_model' = Simulations
           /\ DOMAIN models' = Simulations /\ DOMAIN predictions' = Simulations
           /\ pc'[p] \in {"train", "predict", "ready"}
           /\ Running(p)' => next_model'[p] \in 1 .. Len(Names(p)')
           /\ \A q \in Simulations \ {p} :
                /\ pc'[q] = pc[q] /\ next_model'[q] = next_model[q]
                /\ models'[q] = models[q] /\ predictions'[q] = predictions[q]
<1>1. /\ DOMAIN pc = Simulations /\ DOMAIN next_model = Simulations
      /\ DOMAIN models = Simulations /\ DOMAIN predictions = Simulations
      /\ SimulationInv(p)
  BY DEF CacheInv
<1>2. PICK final \in BOOLEAN :
        /\ final <=> next_model[p] = Len(Names(p))
        /\ next_model' = [next_model EXCEPT ![p] = IF final THEN 1 ELSE @ + 1]
        /\ pc' = [pc EXCEPT ![p] = IF ~final THEN @ ELSE IF @ = "train" THEN "predict" ELSE "ready"]
  BY Zenon DEF Obtained, Names
<1>3. /\ DOMAIN models' = Simulations /\ DOMAIN predictions' = Simulations
      /\ \A q \in Simulations \ {p} :
            models'[q] = models[q] /\ predictions'[q] = predictions[q]
  <2>1. CASE pc[p] = "train"
    <3>1. /\ models' = [models EXCEPT ![p] = With(models[p], Name(p), content)]
          /\ predictions' = predictions
      BY <2>1 DEF Obtained
    <3> QED BY <1>1, <3>1
  <2>2. CASE pc[p] # "train"
    <3>1. /\ predictions' = [predictions EXCEPT ![p] = With(predictions[p], Name(p), content)]
          /\ models' = models
      BY <2>2 DEF Obtained
    <3> QED BY <1>1, <3>1
  <2> QED BY <2>1, <2>2
<1>4. pc[p] \in {"train", "predict"} /\ next_model[p] \in 1 .. Len(Names(p))
  BY <1>1 DEF SimulationInv, Running
<1>5. /\ pc'[p] \in {"train", "predict", "ready"}
      /\ next_model'[p] = IF final THEN 1 ELSE next_model[p] + 1
      /\ pc'[p] = IF ~final THEN pc[p] ELSE IF pc[p] = "train" THEN "predict" ELSE "ready"
  BY <1>1, <1>2, <1>4
<1>6. ASSUME Running(p)' PROVE next_model'[p] \in 1 .. Len(Names(p)')
  <2>1. CASE final
    <3>1. Names(p)' = PredictedModels(setup[p])
      BY <1>4, <1>5, <1>6, <2>1 DEF Running, Names
    <3>2. Len(PredictedModels(setup[p])) \in Nat \ {0}
      BY ModelSequences
    <3> QED BY <1>5, <2>1, <3>1, <3>2
  <2>2. CASE ~final
    <3>1. Names(p)' = Names(p)
      BY <1>5, <2>2 DEF Names
    <3>2. Len(Names(p)) \in Nat
      BY ModelSequences DEF Names
    <3> QED BY <1>2, <1>4, <1>5, <2>2, <3>1, <3>2
  <2> QED BY <2>1, <2>2
<1> QED BY <1>1, <1>2, <1>3, <1>5, <1>6

(* What does not change for a simulation. *)
Unmoved(p) ==
    /\ pc'[p] = pc[p] /\ next_model'[p] = next_model[p] /\ writing'[p] = writing[p]

(* A simulation that does not move keeps its part of the invariant.         *)
LEMMA UnmovedKept ==
    ASSUME NEW p \in Simulations, SimulationInv(p), Unmoved(p), setup' = setup,
           profiles' = profiles, killed \subseteq killed'
    PROVE  SimulationInv(p)' /\ File(p)' = File(p)
<1>1. Name(p)' = Name(p) /\ Names(p)' = Names(p) /\ Running(p)' = Running(p)
  BY DEF Unmoved, Name, Names, Running
<1>2. File(p)' = File(p)
  BY <1>1 DEF Unmoved, File, ModelFile, PredictionFile, SameData, Data
<1>3. killed # {} => killed' # {}
  OBVIOUS
<1> QED BY <1>1, <1>2, <1>3 DEF SimulationInv, Unmoved

(* A file with no writer that is not whole was left by one that was killed. *)
LEMMA NobodysFile ==
    ASSUME CacheInv, NEW f, NoWriter(f), Exists(f), Content(f) = Torn
    PROVE  killed # {}
<1>1. PICK x \in files : x.file = f
  BY DEF Exists
<1>2. PICK y \in files : y.file = f /\ y.content = Torn
  BY <1>1, Zenon DEF Content
<1>3. TornInv(y)
  BY DEF CacheInv
<1> QED BY <1>2, <1>3 DEF TornInv, NoWriter

(* No step of a simulation, and no kill, breaks the invariant of the cache. *)
LEMMA LaunchKeepsCache ==
    ASSUME Init \/ CacheInv, Launch
    PROVE  CacheInv'
<1>1. CASE Init
  <2>1. /\ setup' \in Setups /\ pc' = [p \in Simulations |-> "train"]
        /\ next_model' = [p \in Simulations |-> 1]
        /\ writing' = [p \in Simulations |-> NotWriting] /\ files' = {}
        /\ DOMAIN models' = Simulations /\ DOMAIN predictions' = Simulations
    BY <1>1 DEF Init, Launch
  <2>2. ASSUME NEW p \in Simulations PROVE SimulationInv(p)'
    <3>1. Names(p)' = TrainedModels(setup'[p])
      BY <2>1 DEF Names
    <3>2. Len(TrainedModels(setup'[p])) \in Nat \ {0}
      BY ModelSequences
    <3> QED BY <2>1, <3>1, <3>2 DEF SimulationInv
  <2> QED BY <2>1, <2>2 DEF CacheInv
<1>2. CASE CacheInv
  <2>1. Simulations = {}
    BY <1>2 DEF CacheInv, SimulationInv, Launch
  <2>2. ASSUME NEW x \in files' PROVE x.file.kind \in {"model", "predictions"} /\ TornInv(x)'
    BY <1>2 DEF Launch, CacheInv, TornInv
  <2> QED BY <1>2, <2>1, <2>2 DEF CacheInv, Launch
<1> QED BY <1>1, <1>2

(* _load_model_from_cache and _load_model_predication_cache, file found.    *)
LEMMA LoadKeepsCache ==
    ASSUME CacheInv, NEW p \in Simulations, Load(p)
    PROVE  CacheInv'
<1>1. /\ setup' = setup /\ profiles' = profiles /\ writing' = writing /\ files' = files
      /\ killed' = killed /\ Running(p) /\ writing[p] = NotWriting
  BY DEF Load, Working
<1>2. /\ DOMAIN pc' = Simulations /\ DOMAIN next_model' = Simulations
      /\ DOMAIN models' = Simulations /\ DOMAIN predictions' = Simulations
      /\ \A q \in Simulations \ {p} : pc'[q] = pc[q] /\ next_model'[q] = next_model[q]
      /\ SimulationInv(p)'
  <2>1. CASE Content(File(p)) = Torn
    <3>1. /\ pc' = [pc EXCEPT ![p] = "torn file"] /\ next_model' = next_model
          /\ models' = models /\ predictions' = predictions
      BY <2>1 DEF Load
    <3>2. killed # {}
      BY <2>1, NobodysFile DEF Load
    <3> QED BY <1>1, <3>1, <3>2 DEF CacheInv, SimulationInv, Running
  <2>2. CASE Content(File(p)) # Torn
    <3>1. Obtained(p, Content(File(p)))
      BY <2>2 DEF Load
    <3> QED BY <1>1, <3>1, ObtainedFacts DEF SimulationInv
  <2> QED BY <2>1, <2>2
<1>3. \A q \in Simulations \ {p} : SimulationInv(q)'
  BY <1>1, <1>2, UnmovedKept DEF CacheInv, Unmoved
<1>4. ASSUME NEW x \in files PROVE TornInv(x)'
  BY <1>1 DEF CacheInv, TornInv
<1> QED BY <1>1, <1>2, <1>3, <1>4 DEF CacheInv

(* No file, and the model cannot be trained or is being computed.           *)
LEMMA MissKeepsCache ==
    ASSUME CacheInv, NEW p \in Simulations, Miss(p) \/ NoData(p)
    PROVE  CacheInv'
<1>1. /\ setup' = setup /\ profiles' = profiles /\ next_model' = next_model
      /\ files' = files /\ models' = models /\ predictions' = predictions
      /\ killed' = killed /\ Running(p) /\ writing[p] = NotWriting
  BY DEF Miss, NoData, Working
<1>2. \/ pc' = pc /\ writing' = [writing EXCEPT ![p] = Computing]
      \/ pc' = [pc EXCEPT ![p] = "no data"] /\ writing' = writing
  BY DEF Miss, NoData
<1>3. /\ DOMAIN pc' = Simulations /\ DOMAIN writing' = Simulations
      /\ \A q \in Simulations \ {p} : pc'[q] = pc[q] /\ writing'[q] = writing[q]
  BY <1>2 DEF CacheInv
<1>4. SimulationInv(p)'
  <2>1. CASE pc' = pc /\ writing' = [writing EXCEPT ![p] = Computing]
    <3>1. Names(p)' = Names(p)
      BY <1>1, <2>1 DEF Names
    <3> QED BY <1>1, <2>1, <3>1 DEF CacheInv, SimulationInv, Running
  <2>2. CASE pc' = [pc EXCEPT ![p] = "no data"] /\ writing' = writing
    BY <1>1, <2>2 DEF CacheInv, SimulationInv, Running
  <2> QED BY <1>2, <2>1, <2>2
<1>5. \A q \in Simulations \ {p} : SimulationInv(q)'
  BY <1>1, <1>3, UnmovedKept DEF CacheInv, Unmoved
<1>6. ASSUME NEW x \in files PROVE TornInv(x)'
  <2>1. x.file # NotWriting /\ TornInv(x)
    BY FileKinds DEF CacheInv
  <2> QED BY <1>1, <1>3, <2>1 DEF TornInv
<1> QED BY <1>1, <1>3, <1>4, <1>5, <1>6 DEF CacheInv

(* The file is opened.                                                      *)
LEMMA OpenKeepsCache ==
    ASSUME CacheInv, NEW p \in Simulations, Open(p)
    PROVE  CacheInv'
<1>1. /\ setup' = setup /\ profiles' = profiles /\ next_model' = next_model
      /\ models' = models /\ predictions' = predictions /\ pc' = pc
      /\ killed' = killed /\ writing[p] = Computing
      /\ writing' = [writing EXCEPT ![p] = File(p)] /\ files' = Written(File(p), Torn)
  BY DEF Open
<1>2. /\ DOMAIN writing' = Simulations /\ writing'[p] = File(p)
      /\ \A q \in Simulations \ {p} : writing'[q] = writing[q]
  BY <1>1 DEF CacheInv
<1>3. SimulationInv(p)'
  <2>1. Name(p)' = Name(p) /\ Names(p)' = Names(p) /\ Running(p)' = Running(p)
    BY <1>1 DEF Name, Names, Running
  <2>2. File(p)' = File(p)
    BY <1>1, <2>1 DEF File, ModelFile, PredictionFile, SameData, Data
  <2>3. Computing # NotWriting
    BY FileKinds
  <2> QED BY <1>1, <1>2, <2>1, <2>2, <2>3 DEF CacheInv, SimulationInv
<1>4. \A q \in Simulations \ {p} : SimulationInv(q)'
  BY <1>1, <1>2, UnmovedKept DEF CacheInv, Unmoved
<1>5. ASSUME NEW x \in files' PROVE x.file.kind \in {"model", "predictions"} /\ TornInv(x)'
  <2>1. CASE x = [file |-> File(p), content |-> Torn]
    BY <1>2, <2>1, FileKinds DEF TornInv
  <2>2. CASE x \in files
    <3>1. x.file.kind \in {"model", "predictions"} /\ x.file # Computing /\ TornInv(x)
      BY <2>2, FileKinds DEF CacheInv
    <3>2. ASSUME NEW q \in Simulations, writing[q] = x.file PROVE writing'[q] = x.file
      BY <1>1, <1>2, <3>1, <3>2
    <3> QED BY <1>1, <3>1, <3>2 DEF TornInv
  <2> QED BY <1>1, <2>1, <2>2 DEF Written
<1> QED BY <1>1, <1>2, <1>3, <1>4, <1>5 DEF CacheInv

(* The file is written and closed.                                          *)
LEMMA CloseKeepsCache ==
    ASSUME CacheInv, NEW p \in Simulations, Close(p)
    PROVE  CacheInv'
<1>1. PICK mine : /\ mine # Torn /\ files' = Written(File(p), mine) /\ Obtained(p, mine)
  <2> DEFINE m == IF pc[p] = "train" THEN OwnModel(p, Name(p)) ELSE OwnTable(p, Name(p))
  <2>1. m # Torn /\ files' = Written(File(p), m) /\ Obtained(p, m)
    BY OwnIsWhole DEF Close
  <2> QED BY <2>1
<1>2. /\ setup' = setup /\ profiles' = profiles /\ killed' = killed
      /\ writing[p] \notin {NotWriting, Computing}
      /\ writing' = [writing EXCEPT ![p] = NotWriting]
  BY DEF Close
<1>3. Running(p) /\ writing[p] = File(p)
  BY <1>2 DEF CacheInv, SimulationInv
<1>4. /\ DOMAIN writing' = Simulations /\ writing'[p] = NotWriting
      /\ \A q \in Simulations \ {p} : writing'[q] = writing[q]
  BY <1>2 DEF CacheInv
<1>5. /\ DOMAIN pc' = Simulations /\ DOMAIN next_model' = Simulations
      /\ DOMAIN models' = Simulations /\ DOMAIN predictions' = Simulations
      /\ \A q \in Simulations \ {p} : pc'[q] = pc[q] /\ next_model'[q] = next_model[q]
      /\ pc'[p] \in {"train", "predict", "ready"}
      /\ Running(p)' => next_model'[p] \in 1 .. Len(Names(p)')
  BY <1>1, <1>2, <1>3, ObtainedFacts
<1>6. SimulationInv(p)'
  BY <1>4, <1>5 DEF SimulationInv
<1>7. \A q \in Simulations \ {p} : SimulationInv(q)'
  BY <1>2, <1>4, <1>5, UnmovedKept DEF CacheInv, Unmoved
<1>8. ASSUME NEW x \in files' PROVE x.file.kind \in {"model", "predictions"} /\ TornInv(x)'
  <2>1. CASE x = [file |-> File(p), content |-> mine]
    BY <1>1, <2>1, FileKinds DEF TornInv
  <2>2. CASE x \in files /\ x.file # File(p)
    <3>1. x.file.kind \in {"model", "predictions"} /\ TornInv(x)
      BY <2>2 DEF CacheInv
    <3>2. ASSUME NEW q \in Simulations, writing[q] = x.file PROVE writing'[q] = x.file
      BY <1>3, <1>4, <2>2, <3>2
    <3> QED BY <1>2, <3>1, <3>2 DEF TornInv
  <2> QED BY <1>1, <2>1, <2>2 DEF Written
<1> QED BY <1>2, <1>4, <1>5, <1>6, <1>7, <1>8 DEF CacheInv

(* A simulation is killed.                                                  *)
LEMMA KillKeepsCache ==
    ASSUME CacheInv, NEW p \in Simulations, Kill(p)
    PROVE  CacheInv'
<1>1. /\ setup' = setup /\ profiles' = profiles /\ next_model' = next_model
      /\ files' = files /\ models' = models /\ predictions' = predictions
      /\ killed' = killed \cup {p} /\ pc' = [pc EXCEPT ![p] = "killed"]
      /\ writing' = [writing EXCEPT ![p] = NotWriting]
  BY DEF Kill
<1>2. /\ DOMAIN pc' = Simulations /\ DOMAIN writing' = Simulations
      /\ pc'[p] = "killed" /\ writing'[p] = NotWriting
      /\ \A q \in Simulations \ {p} : pc'[q] = pc[q] /\ writing'[q] = writing[q]
  BY <1>1 DEF CacheInv
<1>3. SimulationInv(p)'
  BY <1>2 DEF SimulationInv, Running
<1>4. \A q \in Simulations \ {p} : SimulationInv(q)'
  <2>1. killed \subseteq killed'
    BY <1>1
  <2> QED BY <1>1, <1>2, <2>1, UnmovedKept DEF CacheInv, Unmoved
<1>5. killed' # {}
  BY <1>1
<1> QED BY <1>1, <1>2, <1>3, <1>4, <1>5 DEF CacheInv, TornInv

(* Before they are started simulations do nothing.                          *)
LEMMA NotYet ==
    ASSUME Init, NEW p \in Simulations, Step(p) \/ Kill(p)
    PROVE  FALSE
<1>1. pc[p] = "waiting" /\ writing[p] = NotWriting
  BY DEF Init
<1>2. \/ pc[p] \in {"train", "predict"}
      \/ writing[p] = Computing
      \/ writing[p] \notin {NotWriting, Computing}
  BY DEF Step, Load, Miss, NoData, Open, Close, Kill, Working, Running
<1> QED BY <1>1, <1>2, FileKinds

(* The profiles do not change any more once a simulation has been started.  *)
LEMMA CacheSafeStep == CacheSafe /\ [OfflineNext]_allVars => CacheSafe'
<1> SUFFICES ASSUME CacheSafe, [OfflineNext]_allVars PROVE CacheSafe'
  OBVIOUS
<1>1. CASE Profile
  <2>1. Init
    BY <1>1, OverIsOver DEF CacheSafe, Profile
  <2>2. Init'
    BY <1>1, <2>1 DEF Profile, Init, cacheVars
  <2> QED BY <2>2 DEF CacheSafe
<1>2. ASSUME UNCHANGED profilerVars, P!Over PROVE P!Over'
  BY <1>2 DEF P!Over, profilerVars
<1>3. CASE LaunchAll
  BY <1>2, <1>3, LaunchKeepsCache DEF LaunchAll, CacheSafe
<1>4. ASSUME NEW p \in Simulations, Simulate(p) \/ BeKilled(p)
      PROVE  CacheSafe'
  <2>1. P!Over /\ P!Over' /\ (Step(p) \/ Kill(p))
    BY <1>2, <1>4 DEF Simulate, BeKilled
  <2>2. CacheInv
    BY <2>1, NotYet DEF CacheSafe
  <2>3. CacheInv'
    BY <2>1, <2>2, LoadKeepsCache, MissKeepsCache, OpenKeepsCache, CloseKeepsCache,
       KillKeepsCache DEF Step
  <2> QED BY <2>1, <2>3 DEF CacheSafe
<1>5. CASE UNCHANGED allVars
  <2>1. /\ UNCHANGED vars /\ UNCHANGED profilerVars
    BY <1>5 DEF allVars
  <2>2. Init => Init'
    BY <2>1 DEF Init, vars, cacheVars
  <2>3. CASE P!Over /\ CacheInv
    <3>1. UNCHANGED <<profiles, setup, pc, next_model, writing, files, models,
                      predictions, killed>>
      BY <2>1 DEF vars, cacheVars
    <3>2. \A p \in Simulations : SimulationInv(p)'
      <4>1. killed \subseteq killed'
        BY <3>1
      <4> QED BY <2>3, <3>1, <4>1, UnmovedKept DEF CacheInv, Unmoved
    <3>3. CacheInv'
      BY <2>3, <3>1, <3>2 DEF CacheInv, TornInv
    <3> QED BY <1>2, <2>1, <2>3, <3>3 DEF CacheSafe
  <2> QED BY <2>2, <2>3 DEF CacheSafe
<1> QED BY <1>1, <1>3, <1>4, <1>5 DEF OfflineNext

(* In every state: before the profiles are complete no simulation has       *)
(* started, and from then on a simulation that writes has just the file of  *)
(* the model it is at open, and a file that is not whole is being written   *)
(* or was left by a simulation that was killed.                             *)
THEOREM CacheInvariance == OfflineSpec => []CacheSafe
<1>1. OfflineInit => CacheSafe
  BY DEF OfflineInit, CacheSafe
<1> QED BY <1>1, CacheSafeStep, PTL DEF OfflineSpec

(* In every state a simulation that failed over a torn file of the cache    *)
(* did so after another was killed, never because it read while another     *)
(* wrote (the locks of sklearn_execution_time_predictor.py).                *)
THEOREM ReadersMeetNoWriter == OfflineSpec => []NoTornRead
<1>1. CacheSafe => NoTornRead
  BY DEF CacheSafe, NoTornRead, CacheInv, SimulationInv, Init
<1> QED BY <1>1, CacheInvariance, PTL

-----------------------------------------------------------------------------
(* The names of the files. *)

(* Simulations that agree on what goes into the names of their files train  *)
(* on the same rows, but for the time to send between stages.               *)
LEMMA SameRows ==
    ASSUME NEW s, NEW t, ToDict(s) = ToDict(t), NEW name, name # "send_recv", NEW known
    PROVE  TrainingRows(s, name, known) = TrainingRows(t, name, known)
<1>1. s.model = t.model /\ s.tp = t.tp /\ s.block_size = t.block_size
  BY DEF ToDict
<1>2. /\ \A r : ComputeRows(s, r) = ComputeRows(t, r)
      /\ \A r : AttentionRowsOf(s, r) = AttentionRowsOf(t, r)
      /\ \A r : AllReduceRows(s, r) = AllReduceRows(t, r)
      /\ \A r : CpuOverheadRowsOf(s, r) = CpuOverheadRowsOf(t, r)
  BY <1>1 DEF ComputeRows, AttentionRowsOf, AllReduceRows, CpuOverheadRowsOf
<1>3. CASE name \in Range(ComputeModels)
  <2>1. ComputeRows(s, known.compute) = ComputeRows(t, known.compute)
    BY <1>2
  <2>2. {"attn_kv_cache_save", "send_recv", "all_reduce", "attn_prefill", "attn_decode"}
            \cap Range(ComputeModels) = {}
    BY DEF ComputeModels, Range
  <2>3. /\ name # "attn_kv_cache_save" /\ name # "send_recv" /\ name # "all_reduce"
        /\ name # "attn_prefill" /\ name # "attn_decode"
    BY <1>3, <2>2
  <2> QED BY <1>3, <2>1, <2>3, Zenon DEF TrainingRows
<1>4. CASE name \notin Range(ComputeModels) /\ name = "all_reduce"
  BY <1>2, <1>4 DEF TrainingRows
<1>5. CASE name \notin Range(ComputeModels) /\ name # "all_reduce"
  BY <1>2, <1>5 DEF TrainingRows
<1> QED BY <1>3, <1>4, <1>5

(* A file of models is only shared by simulations with the same data.       *)
LEMMA SameModelFile ==
    ASSUME NEW p \in Simulations, NEW q \in Simulations, NEW n, NEW m,
           ModelFile(p, n) = ModelFile(q, m)
    PROVE  n = m /\ OwnModel(p, n) = OwnModel(q, n)
<1> DEFINE H(r) == {x \in Simulations : ToDict(setup[x]) = ToDict(setup[r])
                                            /\ SameData(r, x, n)}
<1>1. n = m
  BY DEF ModelFile
<1>2. FirstOf(H(p)) = FirstOf(H(q))
  BY <1>1 DEF ModelFile
<1>3. \A r \in {p, q} : r \in H(r)
  BY DEF SameData
<1>4. FirstOf(H(p)) \in H(p) /\ FirstOf(H(q)) \in H(q)
  BY <1>3, FirstIn
<1>5. PICK h \in Simulations : SameData(p, h, n) /\ SameData(q, h, n)
  BY <1>2, <1>4
<1>6. Data(p, n) = Data(q, n)
  BY <1>5 DEF SameData
<1>7. \A x \in Simulations : SameData(p, x, n) <=> SameData(q, x, n)
  BY <1>6 DEF SameData
<1> QED BY <1>1, <1>7 DEF OwnModel

(* A file of predictions is only shared by simulations whose predictions    *)
(* differ in what its name leaves out.                                      *)
LEMMA SameTableFile ==
    ASSUME NEW p \in Simulations, NEW q \in Simulations, NEW n, NEW m,
           PredictionFile(p, n) = PredictionFile(q, m)
    PROVE  n = m /\ Confused(q, p, n)
<1> DEFINE H(r) == {x \in Simulations : ToDict(setup[x]) = ToDict(setup[r])}
<1>1. n = m
  BY DEF PredictionFile
<1>2. FirstOf(H(p)) = FirstOf(H(q))
  BY <1>1 DEF PredictionFile
<1>3. FirstOf(H(p)) \in H(p) /\ FirstOf(H(q)) \in H(q)
  <2>1. \A r \in {p, q} : r \in H(r)
    OBVIOUS
  <2> QED BY <2>1, FirstIn
<1>4. ToDict(setup[p]) = ToDict(setup[q])
  BY <1>2, <1>3
<1>5. n # "send_recv" => SameData(q, p, n)
  BY <1>4, SameRows DEF SameData, Data
<1>6. /\ setup[p].max_chunk = setup[q].max_chunk /\ setup[p].max_batch = setup[q].max_batch
      /\ MaxTokens(setup[p]) = MaxTokens(setup[q])
  BY <1>4 DEF ToDict
<1>7. SameNamedInputs(setup[q], setup[p], n)
  BY <1>6 DEF SameNamedInputs
<1> QED BY <1>1, <1>4, <1>5, <1>7 DEF Confused

(* What a simulation computes itself is not confused with anything. *)
LEMMA OwnUnconfused ==
    ASSUME NEW p \in Simulations, NEW name
    PROVE  Confused(p, p, name)
BY DEF Confused, SameNamedInputs, SameData

(* The model a simulation is at is one of its models.                       *)
LEMMA NameInRange ==
    ASSUME CacheInv, NEW p \in Simulations, Running(p)
    PROVE  Name(p) \in Range(Names(p))
<1>1. next_model[p] \in 1 .. Len(Names(p))
  BY DEF CacheInv, SimulationInv
<1>2. DOMAIN Names(p) = 1 .. Len(Names(p))
  BY ModelSequences, LenProperties DEF Names
<1>3. Name(p) = Names(p)[next_model[p]]
  BY DEF Name, Names
<1> QED BY <1>1, <1>2, <1>3 DEF Range

(* The file a simulation has written is what all others would write in it.  *)
LEMMA OwnContent ==
    ASSUME CacheInv, NEW p \in Simulations, Running(p),
           NEW mine, NEW x, x.file = File(p), x.content = mine,
           mine = IF pc[p] = "train" THEN OwnModel(p, Name(p)) ELSE OwnTable(p, Name(p))
    PROVE  ContentInv(x)
<1>1. Name(p) \in Range(Names(p))
  BY NameInRange
<1>3. CASE pc[p] = "train"
  <2>1. x.file = ModelFile(p, Name(p)) /\ x.content = OwnModel(p, Name(p))
    BY <1>3 DEF File
  <2>2. \A q \in Simulations : \A n : x.file # PredictionFile(q, n)
    BY <2>1 DEF ModelFile, PredictionFile
  <2>3. ASSUME NEW q \in Simulations, NEW n, x.file = ModelFile(q, n)
        PROVE  x.content = OwnModel(q, n)
    <3>1. PICK name : name = Name(p)
      OBVIOUS
    <3>2. ModelFile(p, name) = ModelFile(q, n) /\ x.content = OwnModel(p, name)
      BY <2>1, <2>3, <3>1
    <3>3. name = n /\ OwnModel(p, name) = OwnModel(q, name)
      BY <3>2, SameModelFile
    <3> QED BY <3>2, <3>3
  <2> QED BY <2>2, <2>3 DEF ContentInv
<1>4. CASE pc[p] # "train"
  <2>1. /\ x.file = PredictionFile(p, Name(p)) /\ x.content = OwnTable(p, Name(p))
    BY <1>4 DEF File
  <2>2. \A q \in Simulations : \A n : x.file # ModelFile(q, n)
    BY <2>1 DEF ModelFile, PredictionFile
  <2>3. ASSUME NEW q \in Simulations, NEW n \in Range(PredictedModels(setup[q])),
               x.file = PredictionFile(q, n)
        PROVE  \E r \in Simulations : Confused(q, r, n) /\ x.content = OwnTable(r, n)
    <3>1. PICK name : name = Name(p)
      OBVIOUS
    <3>2. PredictionFile(p, name) = PredictionFile(q, n) /\ x.content = OwnTable(p, name)
      BY <2>1, <2>3, <3>1
    <3>3. name = n /\ Confused(q, p, name)
      BY <3>2, SameTableFile
    <3> QED BY <3>2, <3>3
  <2> QED BY <2>2, <2>3 DEF ContentInv
<1> QED BY <1>3, <1>4

(* With the same simulations and profiles, contents mean the same.          *)
LEMMA SameMeaning ==
    ASSUME setup' = setup, profiles' = profiles
    PROVE  /\ \A p \in Simulations : \A name :
                OwnModel(p, name)' = OwnModel(p, name) /\ OwnTable(p, name)' = OwnTable(p, name)
           /\ \A p, q \in Simulations : \A name : Confused(p, q, name)' <=> Confused(p, q, name)
           /\ \A x : ContentInv(x) => ContentInv(x)'
<1>1. \A p \in Simulations : \A q \in Simulations : \A name :
        SameData(p, q, name)' <=> SameData(p, q, name)
  BY DEF SameData, Data
<1>2. \A p \in Simulations : \A name :
        OwnModel(p, name)' = OwnModel(p, name) /\ OwnTable(p, name)' = OwnTable(p, name)
  BY <1>1 DEF OwnModel, OwnTable
<1>3. \A p \in Simulations : \A name :
        /\ ModelFile(p, name)' = ModelFile(p, name)
        /\ PredictionFile(p, name)' = PredictionFile(p, name)
  BY <1>1 DEF ModelFile, PredictionFile
<1>4. \A p, q \in Simulations : \A name : Confused(p, q, name)' <=> Confused(p, q, name)
  BY <1>1 DEF Confused
<1> QED BY <1>2, <1>3, <1>4 DEF ContentInv

(* What p may obtain for the model it is at: its own, or another's where    *)
(* names confuse them.                                                      *)
IsFresh(p, content) ==
    IF pc[p] = "train" THEN content = OwnModel(p, Name(p))
    ELSE \E q \in Simulations : Confused(p, q, Name(p)) /\ content = OwnTable(q, Name(p))

(* It has nothing else then.                                                *)
LEMMA ObtainedFresh ==
    ASSUME CacheInv, FreshPredictions, NEW p \in Simulations, NEW content,
           IsFresh(p, content),
           Obtained(p, content), setup' = setup, profiles' = profiles
    PROVE  FreshPredictions'
<1>1. DOMAIN models = Simulations /\ DOMAIN predictions = Simulations
  BY DEF CacheInv
<1>2. CASE pc[p] = "train"
  <2>1. /\ models' = [models EXCEPT ![p] = With(models[p], Name(p), content)]
        /\ predictions' = predictions
    BY <1>2 DEF Obtained
  <2>2. ASSUME NEW q \in Simulations, NEW n \in DOMAIN models'[q]
        PROVE  models'[q][n] = OwnModel(q, n)
    <3>1. CASE q = p
      <4>1. models'[p] = With(models[p], Name(p), content)
        BY <1>1, <2>1
      <4> QED BY <1>2, <2>2, <3>1, <4>1 DEF With, FreshPredictions, IsFresh
    <3>2. CASE q # p
      BY <1>1, <2>1, <2>2, <3>2 DEF FreshPredictions
    <3> QED BY <3>1, <3>2
  <2> QED BY <2>1, <2>2, SameMeaning DEF FreshPredictions
<1>3. CASE pc[p] # "train"
  <2>1. /\ predictions' = [predictions EXCEPT ![p] = With(predictions[p], Name(p), content)]
        /\ models' = models
    BY <1>3 DEF Obtained
  <2>2. ASSUME NEW q \in Simulations, NEW n \in DOMAIN predictions'[q]
        PROVE  \E r \in Simulations : Confused(q, r, n) /\ predictions'[q][n] = OwnTable(r, n)
    <3>1. CASE q = p
      <4>1. predictions'[p] = With(predictions[p], Name(p), content)
        BY <1>1, <2>1
      <4> QED BY <1>3, <2>2, <3>1, <4>1 DEF With, FreshPredictions, IsFresh
    <3>2. CASE q # p
      BY <1>1, <2>1, <2>2, <3>2 DEF FreshPredictions
    <3> QED BY <3>1, <3>2
  <2> QED BY <2>1, <2>2, SameMeaning DEF FreshPredictions
<1> QED BY <1>2, <1>3

(* A step of a simulation, or a kill, leaves only own contents.             *)
LEMMA StepKeepsFresh ==
    ASSUME CacheInv, FreshInv, NEW p \in Simulations, Step(p) \/ Kill(p)
    PROVE  FreshInv'
<1>1. setup' = setup /\ profiles' = profiles
  BY DEF Step, Load, Miss, NoData, Open, Close, Kill
<1>2. /\ FreshPredictions /\ \A x \in files : ContentInv(x)
      /\ \A x : ContentInv(x) => ContentInv(x)'
  BY <1>1, SameMeaning DEF FreshInv
<1>3. ASSUME models' = models, predictions' = predictions PROVE FreshPredictions'
  BY <1>1, <1>2, <1>3, SameMeaning DEF FreshPredictions
<1>4. CASE Load(p)
  <2>1. Running(p) /\ files' = files
    BY <1>4 DEF Load, Working
  <2>2. CASE Content(File(p)) = Torn
    <3>1. models' = models /\ predictions' = predictions
      BY <1>4, <2>2 DEF Load
    <3> QED BY <1>2, <1>3, <2>1, <3>1 DEF FreshInv
  <2>3. CASE Content(File(p)) # Torn
    <3>1. Obtained(p, Content(File(p))) /\ Exists(File(p))
      BY <1>4, <2>3 DEF Load
    <3>2. PICK x \in files : x.file = File(p) /\ x.content = Content(File(p))
      BY <3>1, Zenon DEF Exists, Content
    <3>3. ContentInv(x) /\ x.content # Torn
      BY <1>2, <2>3, <3>2
    <3>4. PICK name : name = Name(p)
      OBVIOUS
    <3>5. name \in Range(Names(p))
      BY <2>1, <3>4, NameInRange
    <3>6. IF pc[p] = "train" THEN x.content = OwnModel(p, name)
          ELSE \E q \in Simulations : Confused(p, q, name) /\ x.content = OwnTable(q, name)
      BY <3>2, <3>3, <3>4, <3>5 DEF ContentInv, File, Names
    <3>7. IsFresh(p, x.content)
      BY <3>4, <3>6 DEF IsFresh
    <3>8. FreshPredictions'
      BY <1>1, <1>2, <3>1, <3>2, <3>7, ObtainedFresh
    <3> QED BY <1>2, <2>1, <3>8 DEF FreshInv
  <2> QED BY <2>2, <2>3
<1>5. CASE Miss(p) \/ NoData(p) \/ Kill(p)
  <2>1. models' = models /\ predictions' = predictions /\ files' = files
    BY <1>5 DEF Miss, NoData, Kill
  <2> QED BY <1>2, <1>3, <2>1 DEF FreshInv
<1>6. CASE Open(p)
  <2>1. /\ models' = models /\ predictions' = predictions
        /\ \A x \in files' : x \in files \/ x.content = Torn
    BY <1>6 DEF Open, Written
  <2>2. \A x \in files' : ContentInv(x)'
    BY <1>2, <2>1 DEF ContentInv
  <2> QED BY <1>3, <2>1, <2>2 DEF FreshInv
<1>7. CASE Close(p)
  <2>1. PICK mine : /\ mine = IF pc[p] = "train" THEN OwnModel(p, Name(p))
                               ELSE OwnTable(p, Name(p))
                    /\ files' = Written(File(p), mine) /\ Obtained(p, mine)
    BY <1>7 DEF Close
  <2>2. Running(p)
    BY <1>7 DEF Close, CacheInv, SimulationInv
  <2>3. FreshPredictions'
    <3>1. IsFresh(p, mine)
      BY <2>1, OwnUnconfused DEF IsFresh
    <3> QED BY <1>1, <1>2, <2>1, <3>1, ObtainedFresh
  <2>4. ASSUME NEW x \in files' PROVE ContentInv(x)'
    <3>1. CASE x \in files
      BY <1>2, <3>1
    <3>2. CASE x = [file |-> File(p), content |-> mine]
      <4>1. x.file = File(p) /\ x.content = mine
        BY <3>2
      <4>2. ContentInv(x)
        BY <2>1, <2>2, <4>1, OwnContent
      <4> QED BY <1>2, <4>2
    <3> QED BY <2>1, <3>1, <3>2 DEF Written
  <2> QED BY <2>3, <2>4 DEF FreshInv
<1> QED BY <1>4, <1>5, <1>6, <1>7 DEF Step

(* Every step leaves only own contents.                                     *)
LEMMA CacheFreshStep ==
    CacheFresh /\ [OfflineNext]_allVars => CacheFresh'
<1> SUFFICES ASSUME CacheFresh, [OfflineNext]_allVars, CacheInv', P!Over'
             PROVE  FreshInv'
  BY CacheSafeStep DEF CacheSafe, CacheFresh
<1>1. ASSUME models' = models, predictions' = predictions, files' = files, Init
      PROVE  FreshInv'
  BY <1>1 DEF Init, FreshInv, FreshPredictions
<1>2. ASSUME NEW p \in Simulations, Simulate(p) \/ BeKilled(p) PROVE FreshInv'
  <2>1. Step(p) \/ Kill(p)
    BY <1>2 DEF Simulate, BeKilled
  <2>2. CacheInv /\ FreshInv
    BY <2>1, NotYet DEF CacheFresh
  <2> QED BY <2>1, <2>2, StepKeepsFresh
<1>3. CASE Profile
  <2>1. Init
    BY <1>3, OverIsOver DEF CacheFresh, Profile
  <2>2. models' = models /\ predictions' = predictions /\ files' = files
    BY <1>3 DEF Profile, cacheVars
  <2> QED BY <1>1, <2>1, <2>2
<1>4. CASE LaunchAll
  <2>1. /\ models' = models /\ predictions' = predictions /\ files' = files
        /\ \A p \in Simulations : pc[p] = "waiting"
    BY <1>4 DEF LaunchAll, Launch
  <2>2. CASE Simulations = {}
    BY <2>2 DEF FreshInv, FreshPredictions, ContentInv
  <2>3. CASE Simulations # {}
    <3>1. Init
      BY <2>1, <2>3 DEF CacheFresh, CacheInv, SimulationInv
    <3> QED BY <1>1, <2>1, <3>1
  <2> QED BY <2>2, <2>3
<1>5. CASE UNCHANGED allVars
  <2>1. /\ models' = models /\ predictions' = predictions /\ files' = files
        /\ setup' = setup /\ profiles' = profiles
    BY <1>5 DEF allVars, vars, cacheVars
  <2>2. CASE P!Over /\ CacheInv /\ FreshInv
    BY <2>1, <2>2, SameMeaning DEF FreshInv, FreshPredictions
  <2> QED BY <1>1, <2>1, <2>2 DEF CacheFresh
<1> QED BY <1>2, <1>3, <1>4, <1>5 DEF OfflineNext

(* In every state the models of a simulation are of its own data.  Its      *)
(* predictions are of such models, over the inputs it would have computed   *)
(* itself, but for what the names of the tables leave out: the granularity  *)
(* and the tokens of a request, and whether the stages span nodes (to_dict  *)
(* of sklearn_execution_time_predictor.py).  Where simulations agree in     *)
(* those too, they are what it would have computed itself, whichever of     *)
(* them did; however they are configured, nothing else is ever mixed up.    *)
THEOREM PredictionsAreOwn == OfflineSpec => []FreshPredictions
<1>1. OfflineInit => CacheFresh
  BY DEF OfflineInit, CacheFresh
<1>2. CacheFresh /\ [OfflineNext]_allVars => CacheFresh'
  BY CacheFreshStep
<1>3. CacheFresh => FreshPredictions
  BY DEF CacheFresh, Init, FreshInv, FreshPredictions
<1> QED BY <1>1, <1>2, <1>3, PTL DEF OfflineSpec

-----------------------------------------------------------------------------
(* Induction. *)

(* Induction over the natural numbers, for a set. *)
LEMMA SetInduction ==
    ASSUME NEW T, 0 \in T, \A n \in Nat : n \in T => n + 1 \in T
    PROVE  Nat \subseteq T
<1> SUFFICES ASSUME ~(Nat \subseteq T) PROVE FALSE
  OBVIOUS
<1> DEFINE B == Nat \ T
<1>1. B \subseteq Nat /\ B # {}
  OBVIOUS
<1>2. PICK m \in B : \A n \in B : ~(<<n, m>> \in OpToRel(<, Nat))
  BY <1>1, NatLessThanWellFounded, WFMin, Zenon
<1>3. m \in Nat \ {0} /\ m - 1 \in Nat /\ m - 1 < m /\ (m - 1) + 1 = m
  OBVIOUS
<1>4. <<m - 1, m>> \in OpToRel(<, Nat)
  BY <1>3 DEF OpToRel
<1>5. m - 1 \in T
  BY <1>2, <1>3, <1>4
<1> QED BY <1>3, <1>5

-----------------------------------------------------------------------------
(* The inputs of the collectives. *)

(* g is the function that FlattenSeq builds over the prefixes of s. *)
FlattenStep(s, g, n) == IF n = 1 THEN s[n] ELSE g[n - 1] \o s[n]
FlatBy(s, g) == g = [n \in 1 .. Len(s) |-> FlattenStep(s, g, n)]

(* FlattenSeq is the value of that function. *)
LEMMA FlattenDef ==
    ASSUME NEW S, NEW s \in Seq(S), s # <<>>
    PROVE  LET g == CHOOSE h : FlatBy(s, h)
           IN  FlatBy(s, g) /\ P!FlattenSeq(s) = g[Len(s)]
<1> DEFINE N == Len(s)
           UpToN(n) == \E g : \A m \in 1 .. n : g[m] = FlattenStep(s, g, m)
           T == {n \in Nat : n <= N => UpToN(n)}
<1>1. N \in Nat \ {0}
  BY LenProperties, EmptySeq
<1>2. 0 \in T
  OBVIOUS
<1>3. ASSUME NEW n \in Nat, n \in T PROVE n + 1 \in T
  <2> SUFFICES ASSUME n + 1 <= N PROVE UpToN(n + 1)
    OBVIOUS
  <2>1. PICK g : \A m \in 1 .. n : g[m] = FlattenStep(s, g, m)
    BY <1>1, <1>3
  <2> DEFINE h == [m \in 1 .. n + 1 |-> IF m <= n THEN g[m] ELSE FlattenStep(s, g, m)]
  <2>2. ASSUME NEW m \in 1 .. n + 1 PROVE h[m] = FlattenStep(s, h, m)
    <3>1. h[m] = FlattenStep(s, g, m)
      BY <2>1
    <3>2. m # 1 => m - 1 \in 1 .. n /\ h[m - 1] = g[m - 1]
      OBVIOUS
    <3> HIDE DEF h
    <3> QED BY <3>1, <3>2 DEF FlattenStep
  <2> HIDE DEF h
  <2> QED BY <2>2
<1>4. N \in T
  <2> HIDE DEF T
  <2>1. Nat \subseteq T
    BY <1>2, <1>3, SetInduction
  <2> QED BY <1>1, <2>1
<1>5. PICK g : \A m \in 1 .. N : g[m] = FlattenStep(s, g, m)
  BY <1>4
<1> DEFINE h == [m \in 1 .. N |-> g[m]]
<1>6. ASSUME NEW m \in 1 .. N PROVE h[m] = FlattenStep(s, h, m)
  <2>1. h[m] = FlattenStep(s, g, m)
    BY <1>5
  <2>2. m # 1 => m - 1 \in 1 .. N /\ h[m - 1] = g[m - 1]
    OBVIOUS
  <2> HIDE DEF h
  <2> QED BY <2>1, <2>2 DEF FlattenStep
<1>7. FlatBy(s, h)
  <2>1. h = [m \in 1 .. N |-> h[m]]
    OBVIOUS
  <2> HIDE DEF h
  <2> QED BY <1>6, <2>1 DEF FlatBy
<1> DEFINE c == CHOOSE f : FlatBy(s, f)
<1>8. FlatBy(s, c)
  <2> HIDE DEF h
  <2> QED BY <1>7, Zenon
<1>9. P!FlattenSeq(s) = c[N]
  BY <1>1 DEF P!FlattenSeq, FlatBy, FlattenStep
<1> QED BY <1>8, <1>9

(* Where the elements of a flattened sequence are from: f is the first n    *)
(* sequences of s, one after the other.                                     *)
Spread(s, n, f, at, off) ==
    /\ \A q \in 1 .. Len(f) :
        /\ at[q] \in 1 .. n /\ off[q] \in 1 .. Len(s[at[q]])
        /\ f[q] = s[at[q]][off[q]]
    /\ \A q, r \in 1 .. Len(f) :
        q < r => at[q] < at[r] \/ (at[q] = at[r] /\ off[q] < off[r])
    /\ \A i \in 1 .. n : \A k \in 1 .. Len(s[i]) :
        \E q \in 1 .. Len(f) : at[q] = i /\ off[q] = k

(* One more sequence. *)
LEMMA SpreadStep ==
    ASSUME NEW S, NEW s \in Seq(Seq(S)), NEW n \in Nat, n + 1 \in 1 .. Len(s),
           NEW f \in Seq(S), NEW at, NEW off, Spread(s, n, f, at, off)
    PROVE  \E a, o : Spread(s, n + 1, f \o s[n + 1], a, o)
<1>1. PICK u : u = s[n + 1]
  OBVIOUS
<1>2. PICK g : g = f \o u
  OBVIOUS
<1>3. u \in Seq(S) /\ Len(u) \in Nat /\ Len(f) \in Nat
  BY <1>1, LenProperties
<1>4. /\ Len(g) = Len(f) + Len(u)
      /\ \A i \in 1 .. Len(f) + Len(u) :
            g[i] = IF i <= Len(f) THEN f[i] ELSE u[i - Len(f)]
  BY <1>2, <1>3, ConcatProperties
<1> DEFINE a == [q \in 1 .. Len(g) |-> IF q <= Len(f) THEN at[q] ELSE n + 1]
           o == [q \in 1 .. Len(g) |-> IF q <= Len(f) THEN off[q] ELSE q - Len(f)]
<1>5. /\ \A q \in 1 .. Len(f) : q \in 1 .. Len(g) /\ a[q] = at[q] /\ o[q] = off[q]
      /\ \A q \in 1 .. Len(g) : q \in 1 .. Len(f) \/ (a[q] = n + 1 /\ o[q] = q - Len(f))
  BY <1>3, <1>4
<1> HIDE DEF a, o
<1>6. ASSUME NEW q \in 1 .. Len(g)
      PROVE  a[q] \in 1 .. n + 1 /\ o[q] \in 1 .. Len(s[a[q]]) /\ g[q] = s[a[q]][o[q]]
  <2>1. CASE q \in 1 .. Len(f)
    <3>1. at[q] \in 1 .. n /\ off[q] \in 1 .. Len(s[at[q]]) /\ f[q] = s[at[q]][off[q]]
      BY <2>1 DEF Spread
    <3>2. a[q] = at[q] /\ o[q] = off[q]
      BY <1>5, <2>1
    <3>3. g[q] = f[q]
      BY <1>3, <1>4, <2>1
    <3> QED BY <3>1, <3>2, <3>3
  <2>2. CASE q \notin 1 .. Len(f)
    <3>1. a[q] = n + 1 /\ o[q] = q - Len(f) /\ ~(q <= Len(f))
      BY <1>3, <1>5, <2>2
    <3>2. o[q] \in 1 .. Len(u) /\ g[q] = u[o[q]]
      BY <1>3, <1>4, <3>1
    <3> QED BY <1>1, <3>1, <3>2
  <2> QED BY <2>1, <2>2
<1>7. ASSUME NEW q \in 1 .. Len(g), NEW r \in 1 .. Len(g), q < r
      PROVE  a[q] < a[r] \/ (a[q] = a[r] /\ o[q] < o[r])
  <2>1. CASE r \in 1 .. Len(f)
    <3>1. q \in 1 .. Len(f)
      BY <1>3, <1>7, <2>1
    <3>2. at[q] < at[r] \/ (at[q] = at[r] /\ off[q] < off[r])
      BY <1>7, <2>1, <3>1 DEF Spread
    <3>3. a[q] = at[q] /\ o[q] = off[q] /\ a[r] = at[r] /\ o[r] = off[r]
      BY <1>5, <2>1, <3>1
    <3> QED BY <3>2, <3>3
  <2>2. CASE r \notin 1 .. Len(f) /\ q \in 1 .. Len(f)
    <3>1. at[q] \in 1 .. n
      BY <2>2 DEF Spread
    <3>2. a[q] = at[q] /\ a[r] = n + 1
      BY <1>5, <2>2
    <3> QED BY <3>1, <3>2
  <2>3. CASE r \notin 1 .. Len(f) /\ q \notin 1 .. Len(f)
    BY <1>3, <1>5, <1>7, <2>3
  <2> QED BY <2>1, <2>2, <2>3
<1>8. ASSUME NEW i \in 1 .. n + 1, NEW k \in 1 .. Len(s[i])
      PROVE  \E q \in 1 .. Len(g) : a[q] = i /\ o[q] = k
  <2>1. CASE i \in 1 .. n
    <3>1. PICK q \in 1 .. Len(f) : at[q] = i /\ off[q] = k
      BY <2>1 DEF Spread
    <3> QED BY <1>5, <3>1
  <2>2. CASE i = n + 1
    <3>1. PICK q : q = Len(f) + k
      OBVIOUS
    <3>2. k \in 1 .. Len(u)
      BY <1>1, <2>2
    <3>3. q \in 1 .. Len(g) /\ q \notin 1 .. Len(f) /\ q - Len(f) = k
      BY <1>3, <1>4, <3>1, <3>2
    <3> QED BY <1>5, <2>2, <3>3
  <2> QED BY <2>1, <2>2
<1>9. Spread(s, n + 1, g, a, o)
  BY <1>6, <1>7, <1>8 DEF Spread
<1> QED BY <1>1, <1>2, <1>9

(* A flattened sequence. *)
LEMMA Flattened ==
    ASSUME NEW S, NEW s \in Seq(Seq(S))
    PROVE  /\ P!FlattenSeq(s) \in Seq(S)
           /\ \E at, off : Spread(s, Len(s), P!FlattenSeq(s), at, off)
<1> DEFINE N == Len(s)
<1>1. N \in Nat /\ \A n \in 1 .. N : s[n] \in Seq(S)
  BY LenProperties, ElementOfSeq
<1>2. CASE s = <<>>
  <2>1. P!FlattenSeq(s) = <<>> /\ N = 0
    BY <1>2 DEF P!FlattenSeq
  <2>2. <<>> \in Seq(S) /\ Len(<<>>) = 0
    BY EmptySeq
  <2>3. \A at, off : Spread(s, 0, <<>>, at, off)
    BY <2>2 DEF Spread
  <2> QED BY <2>1, <2>2, <2>3
<1>3. CASE s # <<>>
  <2>1. PICK g : FlatBy(s, g) /\ P!FlattenSeq(s) = g[N]
    BY <1>3, FlattenDef
  <2>2. \A n \in 1 .. N : g[n] = IF n = 1 THEN s[n] ELSE g[n - 1] \o s[n]
    BY <2>1 DEF FlatBy, FlattenStep
  <2> DEFINE Good(n) == g[n] \in Seq(S) /\ \E at, off : Spread(s, n, g[n], at, off)
             T == {n \in Nat : n + 1 <= N => Good(n + 1)}
  <2>3. 0 \in T
    <3> SUFFICES ASSUME 1 <= N PROVE Good(1)
      OBVIOUS
    <3>1. g[1] = s[1] /\ s[1] \in Seq(S) /\ 0 + 1 \in 1 .. Len(s)
      BY <1>1, <2>2
    <3>2. \A at, off : Spread(s, 0, <<>>, at, off)
      BY EmptySeq DEF Spread
    <3>3. <<>> \in Seq(S)
      BY EmptySeq
    <3>4. \E at, off : Spread(s, 0 + 1, <<>> \o s[0 + 1], at, off)
      BY <3>1, <3>2, <3>3, SpreadStep
    <3>5. <<>> \o s[1] = s[1]
      BY <3>1, ConcatEmptySeq
    <3> QED BY <3>1, <3>4, <3>5
  <2>4. ASSUME NEW n \in Nat, n \in T PROVE n + 1 \in T
    <3> SUFFICES ASSUME (n + 1) + 1 <= N PROVE Good((n + 1) + 1)
      OBVIOUS
    <3>1. PICK m : m = n + 1
      OBVIOUS
    <3>2. m \in Nat /\ m \in 1 .. N /\ m + 1 \in 1 .. N /\ m + 1 # 1 /\ (m + 1) - 1 = m
      BY <1>1, <3>1
    <3>3. g[m] \in Seq(S) /\ \E at, off : Spread(s, m, g[m], at, off)
      BY <2>4, <3>1, <3>2
    <3>4. g[m + 1] = g[m] \o s[m + 1]
      BY <2>2, <3>2
    <3>5. \E at, off : Spread(s, m + 1, g[m] \o s[m + 1], at, off)
      BY <3>2, <3>3, SpreadStep
    <3>6. g[m] \o s[m + 1] \in Seq(S)
      BY <1>1, <3>2, <3>3, ConcatProperties
    <3> QED BY <3>1, <3>4, <3>5, <3>6
  <2>5. Nat \subseteq T
    <3> HIDE DEF T
    <3> QED BY <2>3, <2>4, SetInduction
  <2>6. N - 1 \in Nat /\ (N - 1) + 1 = N
    BY <1>1, <1>3, EmptySeq
  <2>7. Good(N)
    <3>1. PICK m : m = N - 1
      OBVIOUS
    <3>2. m \in T /\ m + 1 = N
      BY <2>5, <2>6, <3>1
    <3> QED BY <1>1, <3>2
  <2> QED BY <2>1, <2>7
<1> QED BY <1>2, <1>3

-----------------------------------------------------------------------------
(* Division. *)

(* Products grow with their factors. *)
LEMMA Multiples ==
    ASSUME NEW a \in Nat, NEW b \in Nat, NEW c \in Nat, a <= b
    PROVE  a * c <= b * c /\ a * c \in Nat /\ b * c \in Nat
OBVIOUS

(* Quotient and remainder. *)
LEMMA Division ==
    ASSUME NEW a \in Nat, NEW b \in Nat \ {0}
    PROVE  a \div b \in Nat /\ a % b \in 0 .. b - 1 /\ a = (a \div b) * b + (a % b)
<1>1. a \div b \in Int /\ a % b \in 0 .. b - 1
  OBVIOUS
<1>2. a = b * (a \div b) + (a % b)
  OBVIOUS
<1>3. a \div b \in Nat
  <2>1. SUFFICES ASSUME a \div b <= -1 PROVE FALSE
    BY <1>1
  <2>2. b * (a \div b) <= -b
    BY <1>1, <2>1
  <2> QED BY <1>1, <1>2, <2>2
<1>4. b * (a \div b) = (a \div b) * b
  BY <1>1
<1> QED BY <1>1, <1>2, <1>3, <1>4

(* They are the only such numbers. *)
LEMMA Quotient ==
    ASSUME NEW b \in Nat \ {0}, NEW q \in Nat, NEW r \in 0 .. b - 1
    PROVE  (q * b + r) \div b = q /\ (q * b + r) % b = r
OBVIOUS

-----------------------------------------------------------------------------
(* The ranks. *)

(* The size of the cluster. *)
LEMMA ClusterFacts ==
    /\ NumNodes \in Nat \ {0} /\ GpusPerNode \in Nat \ {0} /\ P!TotalGpus \in Nat \ {0}
    /\ P!TotalGpus = NumNodes * GpusPerNode
    /\ P!Gpus = 0 .. P!TotalGpus - 1 /\ 0 \in P!Gpus
    /\ IsFiniteSet(P!Gpus)
    /\ Combinations \in Seq(Nat)
    /\ \A n \in P!Range(Combinations) : n \in 1 .. GpusPerNode
    /\ CollectiveSizes \in Seq(Nat)
<1>1. /\ NumNodes \in Nat \ {0} /\ GpusPerNode \in Nat \ {0}
      /\ P!TotalGpus = NumNodes * GpusPerNode
      /\ P!Gpus = 0 .. P!TotalGpus - 1
  BY CollectivesAssumption DEF P!CombinationsFit, P!TotalGpus, P!Gpus
<1>2. P!TotalGpus \in Nat \ {0}
  <2>1. 1 * GpusPerNode <= NumNodes * GpusPerNode
    BY <1>1, Multiples
  <2> QED BY <1>1, <2>1
<1>3. IsFiniteSet(P!Gpus)
  BY <1>1, <1>2, FS_Interval
<1> QED BY <1>1, <1>2, <1>3, CollectivesAssumption DEF P!CombinationsFit

(* The counts of an input that can be run. *)
Fits(x) ==
    /\ x.workers \in Nat \ {0} /\ x.per_node \in 1 .. GpusPerNode
    /\ x.workers > x.per_node => x.workers % x.per_node = 0
    /\ x.workers \div x.per_node <= NumNodes

Participants(x) == {g \in P!Gpus : P!TakesPart(g, x)}

(* Who takes part has a place on a node. *)
LEMMA RankIs ==
    ASSUME NEW x, Fits(x), NEW g \in P!Gpus
    PROVE  LET M == x.workers \div x.per_node
               node == g \div GpusPerNode
               local == g % GpusPerNode
           IN  /\ M \in Nat
               /\ node \in Nat /\ local \in 0 .. GpusPerNode - 1
               /\ g = node * GpusPerNode + local
               /\ P!TakesPart(g, x) => /\ node < M /\ local < x.per_node
                                       /\ P!Rank(g, x) = node * x.per_node + local
                                       /\ x.workers = M * x.per_node
               /\ (node < M /\ local < x.per_node) =>
                    P!Rank(g, x) = node * x.per_node + local /\ P!Rank(g, x) \in Nat
<1>1. PICK W, n, M, node, local, G :
        /\ W = x.workers /\ n = x.per_node /\ M = x.workers \div x.per_node
        /\ G = GpusPerNode /\ node = g \div GpusPerNode /\ local = g % GpusPerNode
  OBVIOUS
<1>2. W \in Nat \ {0} /\ n \in 1 .. G /\ G \in Nat \ {0} /\ g \in Nat
  BY <1>1, ClusterFacts DEF Fits
<1>3. M \in Nat /\ W = M * n + (W % n) /\ W % n \in 0 .. n - 1
  <2>1. W \in Nat /\ n \in Nat \ {0} /\ M = W \div n
    BY <1>1, <1>2
  <2> QED BY <2>1, Division
<1>4. node \in Nat /\ local \in 0 .. G - 1 /\ g = node * G + local
  BY <1>1, <1>2, Division
<1>5. /\ P!Rank(g, x) = IF node >= M \/ local >= n THEN -1 ELSE node * n + local
      /\ P!TakesPart(g, x) <=> P!Rank(g, x) # -1
  BY <1>1 DEF P!Rank, P!TakesPart
<1>6. node * n \in Nat
  BY <1>2, <1>4, Multiples
<1>7. node < M => W = M * n
  <2> SUFFICES ASSUME node < M PROVE W = M * n
    OBVIOUS
  <2>1. 1 * n <= M * n /\ M * n \in Nat
    <3>1. 1 <= M
      BY <1>3, <1>4
    <3> QED BY <1>2, <1>3, <3>1, Multiples
  <2>2. CASE W > n
    <3>1. W % n = 0
      BY <1>1, <2>2 DEF Fits
    <3> QED BY <1>3, <2>1, <3>1
  <2>3. CASE ~(W > n)
    BY <1>2, <1>3, <2>1, <2>3
  <2> QED BY <2>2, <2>3
<1>8. P!TakesPart(g, x) => node < M /\ local < n
  BY <1>2, <1>3, <1>4, <1>5
<1>9. (node < M /\ local < n) => P!Rank(g, x) = node * n + local /\ P!Rank(g, x) \in Nat
  BY <1>2, <1>3, <1>4, <1>5, <1>6
<1> QED BY <1>1, <1>3, <1>4, <1>7, <1>8, <1>9

(* The ranks of those that take part are 0, 1, ... *)
LEMMA Ranks ==
    ASSUME NEW x, Fits(x), NEW g \in Participants(x)
    PROVE  /\ {P!Rank(h, x) : h \in Participants(x)} = 0 .. x.workers - 1
           /\ IsFiniteSet(Participants(x))
           /\ Cardinality(Participants(x)) = x.workers
<1>1. PICK W, n, M, G, N :
        /\ W = x.workers /\ n = x.per_node /\ M = x.workers \div x.per_node
        /\ G = GpusPerNode /\ N = NumNodes
  OBVIOUS
<1>2. /\ W \in Nat \ {0} /\ n \in 1 .. G /\ G \in Nat \ {0} /\ N \in Nat \ {0}
      /\ M \in Nat /\ M <= N /\ W = M * n
  <2>1. g \in P!Gpus /\ P!TakesPart(g, x)
    BY DEF Participants
  <2>2. M \in Nat /\ W = M * n
    BY <1>1, <2>1, RankIs
  <2> QED BY <1>1, <2>2, ClusterFacts DEF Fits
<1>3. ASSUME NEW h \in Participants(x)
      PROVE  \E node \in Nat, local \in Nat :
                /\ node < M /\ local < n /\ h = node * G + local
                /\ P!Rank(h, x) = node * n + local
  <2>1. h \in P!Gpus /\ P!TakesPart(h, x)
    BY DEF Participants
  <2>2. PICK node, local : node = h \div GpusPerNode /\ local = h % GpusPerNode
    OBVIOUS
  <2>3. /\ node \in Nat /\ local \in 0 .. G - 1 /\ node < M /\ local < n
        /\ h = node * G + local /\ P!Rank(h, x) = node * n + local
    BY <1>1, <2>1, <2>2, RankIs
  <2>4. local \in Nat
    BY <1>2, <2>3
  <2> QED BY <2>3, <2>4
<1>4. ASSUME NEW h \in Participants(x) PROVE P!Rank(h, x) \in 0 .. W - 1
  <2>1. PICK node \in Nat, local \in Nat :
            node < M /\ local < n /\ P!Rank(h, x) = node * n + local
    BY <1>3
  <2>2. (node + 1) * n <= M * n
    BY <1>2, <2>1, Multiples
  <2>3. (node + 1) * n = node * n + n /\ node * n \in Nat
    BY <1>2, <2>1
  <2> QED BY <1>2, <2>1, <2>2, <2>3
<1>5. ASSUME NEW r \in 0 .. W - 1
      PROVE  \E h \in Participants(x) : P!Rank(h, x) = r
  <2>1. PICK node, local : node = r \div n /\ local = r % n
    OBVIOUS
  <2>2. node \in Nat /\ local \in 0 .. n - 1 /\ r = node * n + local /\ r \in Nat
    <3>1. r \in Nat /\ n \in Nat \ {0}
      BY <1>2
    <3> QED BY <2>1, <3>1, Division
  <2>3. node < M
    <3>1. SUFFICES ASSUME M <= node PROVE FALSE
      BY <1>2, <2>2
    <3>2. M * n <= node * n /\ node * n \in Nat
      BY <1>2, <2>2, <3>1, Multiples
    <3> QED BY <1>2, <2>2, <3>2
  <2>4. PICK h : h = node * G + local
    OBVIOUS
  <2>5. h \in P!Gpus
    <3>1. (node + 1) * G <= N * G
      BY <1>2, <2>2, <2>3, Multiples
    <3>2. (node + 1) * G = node * G + G /\ node * G \in Nat
      BY <1>2, <2>2
    <3>3. h \in 0 .. N * G - 1
      BY <1>2, <2>2, <2>4, <3>1, <3>2
    <3> QED BY <1>1, <3>3, ClusterFacts
  <2>6. h \div G = node /\ h % G = local
    BY <1>2, <2>2, <2>4, Quotient
  <2>7. P!Rank(h, x) = r /\ r # -1
    <3>1. node < M /\ local < n
      BY <1>2, <2>2, <2>3
    <3>2. P!Rank(h, x) = node * n + local
      BY <1>1, <2>5, <2>6, <3>1, RankIs
    <3> QED BY <2>2, <3>2
  <2>8. h \in Participants(x)
    BY <2>5, <2>7 DEF Participants, P!TakesPart
  <2> QED BY <2>7, <2>8
<1>6. ASSUME NEW h \in Participants(x), NEW k \in Participants(x), P!Rank(h, x) = P!Rank(k, x)
      PROVE  h = k
  <2>1. PICK a \in Nat, b \in Nat :
            a < M /\ b < n /\ h = a * G + b /\ P!Rank(h, x) = a * n + b
    BY <1>3
  <2>2. PICK c \in Nat, d \in Nat :
            c < M /\ d < n /\ k = c * G + d /\ P!Rank(k, x) = c * n + d
    BY <1>3
  <2>3. n \in Nat \ {0} /\ b \in 0 .. n - 1 /\ d \in 0 .. n - 1
    BY <1>2, <2>1, <2>2
  <2>4. (a * n + b) \div n = a /\ (a * n + b) % n = b
    BY <2>3, Quotient
  <2>5. (c * n + d) \div n = c /\ (c * n + d) % n = d
    BY <2>3, Quotient
  <2>6. a * n + b = c * n + d
    BY <1>6, <2>1, <2>2
  <2>7. a = c /\ b = d
    BY <2>4, <2>5, <2>6
  <2> QED BY <2>1, <2>2, <2>7
<1> DEFINE R == Participants(x)
           I == 0 .. W - 1
           f == [h \in R |-> P!Rank(h, x)]
<1>7. {P!Rank(h, x) : h \in R} = I
  BY <1>4, <1>5
<1>8. IsFiniteSet(R)
  BY ClusterFacts, FS_Subset DEF Participants
<1>9. f \in Injection(R, I)
  <2>1. f \in [R -> I]
    BY <1>4
  <2> QED BY <1>6, <2>1 DEF Injection, IsInjective
<1>10. f \in Surjection(R, I)
  <2>1. f \in [R -> I]
    BY <1>4
  <2> QED BY <1>5, <2>1 DEF Surjection
<1>11. Cardinality(R) = W
  <2>1. Cardinality(I) = W
    <3>1. 0 \in Int /\ W - 1 \in Int /\ ~(0 > W - 1) /\ (W - 1) - 0 + 1 = W
      BY <1>2
    <3> QED BY <3>1, FS_Interval
  <2> HIDE DEF f, I, R
  <2>2. Cardinality(I) = Cardinality(R)
    BY <1>8, <1>9, <1>10, FS_Surjection
  <2> QED BY <2>1, <2>2
<1> QED BY <1>1, <1>7, <1>8, <1>11

(* Finite sets, for the profiler. *)
LEMMA ProfilerSets ==
    ASSUME NEW S
    PROVE  P!Cardinality(S) = Cardinality(S) /\ (P!IsFiniteSet(S) <=> IsFiniteSet(S))
<1>1. P!Cardinality(S) = Cardinality(S)
  BY Zenon DEF P!Cardinality, Cardinality
<1>2. P!IsFiniteSet(S) <=> IsFiniteSet(S)
  BY Zenon DEF P!IsFiniteSet, IsFiniteSet
<1> QED BY <1>1, <1>2

(* The counts of workers, and the orders in which a set of them is read. *)
LEMMA Counts ==
    /\ P!WorkerCounts \subseteq 1 .. P!TotalGpus
    /\ IsFiniteSet(P!WorkerCounts)
    /\ \A order \in P!SetToSeqs(P!WorkerCounts) :
        /\ order \in Seq(P!WorkerCounts) /\ IsInjective(order)
        /\ \A w \in P!WorkerCounts : \E i \in 1 .. Len(order) : order[i] = w
<1>1. ASSUME NEW w \in P!WorkerCounts PROVE w \in 1 .. P!TotalGpus
  <2>1. PICK n \in P!Range(Combinations), k \in 1 .. NumNodes : w = n * k
    BY DEF P!WorkerCounts
  <2>2. n \in Nat /\ 1 <= n /\ n <= GpusPerNode /\ k \in Nat /\ 1 <= k /\ k <= NumNodes
    BY ClusterFacts
  <2>3. n * k <= GpusPerNode * k /\ 1 * k <= n * k /\ n * k \in Nat
    BY <2>2, ClusterFacts, Multiples
  <2>4. k * GpusPerNode <= NumNodes * GpusPerNode
    BY <2>2, ClusterFacts, Multiples
  <2>5. GpusPerNode * k = k * GpusPerNode
    BY <2>2, ClusterFacts
  <2>6. w \in Nat /\ 1 <= w /\ w <= NumNodes * GpusPerNode
    BY <2>1, <2>2, <2>3, <2>4, <2>5, ClusterFacts
  <2> QED BY <2>6, ClusterFacts
<1>2. IsFiniteSet(P!WorkerCounts)
  <2>1. IsFiniteSet(1 .. P!TotalGpus)
    BY ClusterFacts, FS_Interval
  <2>2. P!WorkerCounts \in SUBSET (1 .. P!TotalGpus)
    BY <1>1
  <2> QED BY <2>1, <2>2, FS_Subset, Zenon
<1>3. ASSUME NEW order \in P!SetToSeqs(P!WorkerCounts)
      PROVE  /\ order \in Seq(P!WorkerCounts) /\ IsInjective(order)
             /\ \A w \in P!WorkerCounts : \E i \in 1 .. Len(order) : order[i] = w
  <2>1. PICK N, W : N = Cardinality(P!WorkerCounts) /\ W = P!WorkerCounts
    OBVIOUS
  <2>2. N \in Nat
    BY <1>2, <2>1, FS_CardinalityType
  <2>3. order \in [1 .. N -> W] /\ \A i, j \in 1 .. N : i # j => order[i] # order[j]
    <3>1. order \in {f \in [1 .. N -> W] : \A i, j \in 1 .. N : i # j => f[i] # f[j]}
      BY <2>1, ProfilerSets DEF P!SetToSeqs
    <3> QED BY <3>1
  <2>4. order \in Seq(W) /\ Len(order) = N
    BY <2>2, <2>3
  <2>5. IsInjective(order)
    BY <2>3 DEF IsInjective
  <2>6. order \in Injection(1 .. N, W)
    BY <2>3, <2>5 DEF Injection
  <2>7. Cardinality(1 .. N) = N
    <3>1. 1 \in Int /\ N \in Int /\ (1 > N <=> N = 0) /\ N - 1 + 1 = N
      BY <2>2
    <3> QED BY <3>1, FS_Interval
  <2>8. order \in Surjection(1 .. N, W)
    BY <1>2, <2>1, <2>6, <2>7, FS_Injection
  <2> QED BY <2>1, <2>4, <2>5, <2>8 DEF Surjection
<1> QED BY <1>1, <1>2, <1>3

(* The inputs of a pair of counts. *)
Sizes(workers, per_node, c) ==
    IF P!ValidCollective(workers, per_node, c)
    THEN [k \in DOMAIN CollectiveSizes |->
            [workers |-> workers, per_node |-> per_node,
             size |-> CollectiveSizes[k], collective |-> c]]
    ELSE <<>>

(* They are valid, of that pair, and all there are of it. *)
LEMMA SizesFacts ==
    ASSUME NEW w \in P!WorkerCounts, NEW n \in P!Range(Combinations), NEW c
    PROVE  /\ Sizes(w, n, c) \in Seq(P!ValidInputs(c))
           /\ \A k \in 1 .. Len(Sizes(w, n, c)) : P!Pair(Sizes(w, n, c)[k]) = <<w, n>>
           /\ \A x \in P!ValidInputs(c) : x.workers = w /\ x.per_node = n =>
                \E k \in 1 .. Len(Sizes(w, n, c)) : Sizes(w, n, c)[k] = x
<1>1. CASE ~P!ValidCollective(w, n, c)
  <2>1. Sizes(w, n, c) = <<>>
    BY <1>1 DEF Sizes
  <2>2. <<>> \in Seq(P!ValidInputs(c)) /\ Len(<<>>) = 0
    BY EmptySeq
  <2>3. \A x \in P!ValidInputs(c) : ~(x.workers = w /\ x.per_node = n)
    BY <1>1 DEF P!ValidInputs
  <2> QED BY <2>1, <2>2, <2>3
<1>2. CASE P!ValidCollective(w, n, c)
  <2>1. PICK s, L : s = Sizes(w, n, c) /\ L = Len(CollectiveSizes)
    OBVIOUS
  <2>2. L \in Nat /\ DOMAIN CollectiveSizes = 1 .. L
    BY <2>1, ClusterFacts, LenProperties
  <2>3. s = [k \in 1 .. L |-> [workers |-> w, per_node |-> n,
                              size |-> CollectiveSizes[k], collective |-> c]]
    BY <1>2, <2>1, <2>2 DEF Sizes
  <2>4. ASSUME NEW k \in 1 .. L PROVE s[k] \in P!ValidInputs(c) /\ P!Pair(s[k]) = <<w, n>>
    <3>1. s[k] = [workers |-> w, per_node |-> n, size |-> CollectiveSizes[k],
                  collective |-> c]
      BY <2>3
    <3>2. CollectiveSizes[k] \in P!Range(CollectiveSizes)
      BY <2>2 DEF P!Range
    <3> QED BY <1>2, <3>1, <3>2 DEF P!ValidInputs, P!Pair
  <2>5. s \in Seq(P!ValidInputs(c)) /\ Len(s) = L
    <3>1. s = [k \in 1 .. L |-> s[k]]
      BY <2>3
    <3> QED BY <2>2, <2>4, <3>1
  <2>6. ASSUME NEW x \in P!ValidInputs(c), x.workers = w, x.per_node = n
        PROVE  \E k \in 1 .. L : s[k] = x
    <3>1. /\ x \in [workers : P!WorkerCounts, per_node : P!Range(Combinations),
                    size : P!Range(CollectiveSizes), collective : {c}]
      BY DEF P!ValidInputs
    <3>2. x = [workers |-> w, per_node |-> n, size |-> x.size, collective |-> c]
      BY <2>6, <3>1
    <3>3. PICK k \in 1 .. L : x.size = CollectiveSizes[k]
      BY <2>2, <3>1 DEF P!Range
    <3> QED BY <2>3, <3>2, <3>3
  <2> QED BY <2>1, <2>4, <2>5, <2>6
<1> QED BY <1>1, <1>2

(* What is run for a collective is all that is valid, each pair of counts   *)
(* with all sizes at a time.                                                *)
LEMMA InputsFacts ==
    ASSUME NEW order \in P!SetToSeqs(P!WorkerCounts), NEW c
    PROVE  LET s == P!CollectiveInputs(order, c)
           IN  /\ s \in Seq(P!ValidInputs(c))
               /\ \A x \in P!ValidInputs(c) : \E p \in 1 .. Len(s) : s[p] = x
               /\ P!CombinationsDiffer => \A i, j, k \in 1 .. Len(s) :
                    i < j /\ j < k /\ P!Pair(s[i]) = P!Pair(s[k]) =>
                        P!Pair(s[j]) = P!Pair(s[i])
<1>1. PICK S, N, C, m, B, s :
        /\ S = P!ValidInputs(c) /\ N = Len(order) /\ C = Len(Combinations)
        /\ m = [i \in DOMAIN order |-> [j \in DOMAIN Combinations |->
                    Sizes(order[i], Combinations[j], c)]]
        /\ B = P!FlattenSeq(m) /\ s = P!FlattenSeq(B)
  OBVIOUS
<1>2. s = P!CollectiveInputs(order, c)
  BY <1>1 DEF P!CollectiveInputs, Sizes
<1>3. /\ N \in Nat /\ DOMAIN order = 1 .. N
      /\ C \in Nat /\ DOMAIN Combinations = 1 .. C
  BY <1>1, Counts, ClusterFacts, LenProperties
<1>4. /\ \A i \in 1 .. N : order[i] \in P!WorkerCounts
      /\ \A j \in 1 .. C : Combinations[j] \in P!Range(Combinations)
  BY <1>1, <1>3, Counts, ElementOfSeq DEF P!Range
<1>5. m \in Seq(Seq(Seq(S))) /\ Len(m) = N
  <2>1. ASSUME NEW i \in 1 .. N PROVE m[i] \in Seq(Seq(S))
    <3>1. m[i] = [j \in 1 .. C |-> Sizes(order[i], Combinations[j], c)]
      BY <1>1, <1>3
    <3>2. \A j \in 1 .. C : Sizes(order[i], Combinations[j], c) \in Seq(S)
      BY <1>1, <1>4, SizesFacts
    <3> QED BY <1>3, <3>1, <3>2
  <2>2. m = [i \in 1 .. N |-> m[i]]
    BY <1>1, <1>3
  <2> QED BY <1>3, <2>1, <2>2
<1>6. ASSUME NEW i \in 1 .. N
      PROVE  /\ Len(m[i]) = C
             /\ \A j \in 1 .. C : m[i][j] = Sizes(order[i], Combinations[j], c)
  BY <1>1, <1>3
<1>7. PICK row, column : B \in Seq(Seq(S)) /\ Spread(m, N, B, row, column)
  BY <1>1, <1>5, Flattened
<1>8. PICK block, place : s \in Seq(S) /\ Spread(B, Len(B), s, block, place)
  BY <1>1, <1>7, Flattened
<1>9. Len(B) \in Nat /\ Len(s) \in Nat
  BY <1>7, <1>8, LenProperties
<1>10. ASSUME NEW b \in 1 .. Len(B)
       PROVE  /\ row[b] \in 1 .. N /\ column[b] \in 1 .. C
              /\ B[b] = Sizes(order[row[b]], Combinations[column[b]], c)
  <2>1. row[b] \in 1 .. N /\ column[b] \in 1 .. Len(m[row[b]]) /\ B[b] = m[row[b]][column[b]]
    BY <1>7 DEF Spread
  <2> QED BY <1>6, <2>1
<1>11. ASSUME NEW p \in 1 .. Len(s)
       PROVE  /\ block[p] \in 1 .. Len(B)
              /\ P!Pair(s[p]) = <<order[row[block[p]]], Combinations[column[block[p]]]>>
  <2>1. /\ block[p] \in 1 .. Len(B) /\ place[p] \in 1 .. Len(B[block[p]])
        /\ s[p] = B[block[p]][place[p]]
    BY <1>8 DEF Spread
  <2>2. PICK b : b = block[p]
    OBVIOUS
  <2>3. /\ row[b] \in 1 .. N /\ column[b] \in 1 .. C
        /\ B[b] = Sizes(order[row[b]], Combinations[column[b]], c)
    BY <1>10, <2>1, <2>2
  <2>4. PICK w \in P!WorkerCounts, n \in P!Range(Combinations) :
            w = order[row[b]] /\ n = Combinations[column[b]]
    BY <1>4, <2>3
  <2>5. P!Pair(Sizes(w, n, c)[place[p]]) = <<w, n>>
    <3>1. place[p] \in 1 .. Len(Sizes(w, n, c))
      BY <2>1, <2>2, <2>3, <2>4
    <3> QED BY <3>1, SizesFacts
  <2> QED BY <2>1, <2>2, <2>3, <2>4, <2>5
<1>12. ASSUME NEW x \in S PROVE \E p \in 1 .. Len(s) : s[p] = x
  <2>1. x.workers \in P!WorkerCounts /\ x.per_node \in P!Range(Combinations)
    BY <1>1 DEF P!ValidInputs
  <2>2. PICK i \in 1 .. N : order[i] = x.workers
    BY <1>1, <2>1, Counts
  <2>3. PICK j \in 1 .. C : Combinations[j] = x.per_node
    BY <1>3, <2>1 DEF P!Range
  <2>4. PICK b \in 1 .. Len(B) : row[b] = i /\ column[b] = j
    BY <1>6, <1>7, <2>2, <2>3 DEF Spread
  <2>5. B[b] = Sizes(x.workers, x.per_node, c)
    BY <1>10, <2>2, <2>3, <2>4
  <2>6. PICK k \in 1 .. Len(B[b]) : B[b][k] = x
    <3>1. PICK w \in P!WorkerCounts, n \in P!Range(Combinations) :
            w = x.workers /\ n = x.per_node
      BY <2>1
    <3>2. x \in P!ValidInputs(c) /\ B[b] = Sizes(w, n, c)
      BY <1>1, <2>5, <3>1
    <3> QED BY <3>1, <3>2, SizesFacts
  <2>7. PICK p \in 1 .. Len(s) : block[p] = b /\ place[p] = k
    BY <1>8, <2>4, <2>6 DEF Spread
  <2>8. s[p] = B[block[p]][place[p]]
    BY <1>8, <2>7 DEF Spread
  <2> QED BY <2>6, <2>7, <2>8
<1>13. ASSUME P!CombinationsDiffer,
              NEW i \in 1 .. Len(s), NEW j \in 1 .. Len(s), NEW k \in 1 .. Len(s),
              i < j, j < k, P!Pair(s[i]) = P!Pair(s[k])
       PROVE  P!Pair(s[j]) = P!Pair(s[i])
  <2>1. PICK a, b, d : a = block[i] /\ b = block[j] /\ d = block[k]
    OBVIOUS
  <2>2. /\ a \in 1 .. Len(B) /\ b \in 1 .. Len(B) /\ d \in 1 .. Len(B)
        /\ P!Pair(s[i]) = <<order[row[a]], Combinations[column[a]]>>
        /\ P!Pair(s[j]) = <<order[row[b]], Combinations[column[b]]>>
        /\ P!Pair(s[k]) = <<order[row[d]], Combinations[column[d]]>>
    BY <1>11, <2>1
  <2>3. order[row[a]] = order[row[d]] /\ Combinations[column[a]] = Combinations[column[d]]
    <3>1. <<order[row[a]], Combinations[column[a]]>> = <<order[row[d]], Combinations[column[d]]>>
      BY <1>13, <2>2, Zenon
    <3> QED BY <3>1
  <2>4. row[a] = row[d]
    <3>1. row[a] \in DOMAIN order /\ row[d] \in DOMAIN order /\ IsInjective(order)
      BY <1>3, <1>10, <2>2, Counts
    <3> QED BY <2>3, <3>1 DEF IsInjective
  <2>5. column[a] = column[d]
    <3>1. /\ column[a] \in DOMAIN Combinations /\ column[d] \in DOMAIN Combinations
          /\ P!IsInjective(Combinations)
      BY <1>3, <1>10, <1>13, <2>2 DEF P!CombinationsDiffer
    <3> QED BY <2>3, <3>1 DEF P!IsInjective
  <2>6. a <= b /\ b <= d
    <3>1. /\ block[i] < block[j] \/ block[i] = block[j]
          /\ block[j] < block[k] \/ block[j] = block[k]
      BY <1>8, <1>13 DEF Spread
    <3> QED BY <1>9, <2>1, <2>2, <3>1
  <2>7. ~(a < d)
    <3>1. SUFFICES ASSUME a < d PROVE FALSE
      OBVIOUS
    <3>2. row[a] < row[d] \/ (row[a] = row[d] /\ column[a] < column[d])
      BY <1>7, <2>2, <3>1 DEF Spread
    <3>3. row[a] \in 1 .. N /\ row[d] \in 1 .. N /\ column[a] \in 1 .. C /\ column[d] \in 1 .. C
      BY <1>10, <2>2
    <3> QED BY <1>3, <2>4, <2>5, <3>2, <3>3
  <2>8. a = b
    BY <1>9, <2>2, <2>6, <2>7
  <2> QED BY <2>2, <2>8
<1> QED BY <1>1, <1>2, <1>8, <1>12, <1>13

-----------------------------------------------------------------------------
(* The groups of the runners. *)

(* An input that is run fits the cluster. *)
LEMMA ValidFits ==
    ASSUME NEW c, NEW x \in P!ValidInputs(c)
    PROVE  Fits(x) /\ x.workers \in P!WorkerCounts /\ x.collective = c
<1>1. /\ x.workers \in P!WorkerCounts /\ x.per_node \in P!Range(Combinations)
      /\ x.collective = c /\ P!ValidCollective(x.workers, x.per_node, c)
  BY DEF P!ValidInputs
<1>2. x.workers \in Nat \ {0}
  <2>1. P!TotalGpus \in Nat /\ x.workers \in 1 .. P!TotalGpus
    BY <1>1, Counts, ClusterFacts
  <2> QED BY <2>1
<1> QED BY <1>1, <1>2, ClusterFacts DEF Fits, P!ValidCollective

(* While a collective is run. *)
LEMMA BusyFacts ==
    ASSUME P!Busy
    PROVE  /\ Len(inputs) \in Nat /\ position \in 1 .. Len(inputs) /\ inputs # <<>>
           /\ \A p \in 1 .. Len(inputs) : Fits(inputs[p])
           /\ P!CombinationsDiffer => \A i, j, k \in 1 .. Len(inputs) :
                i < j /\ j < k /\ P!Pair(inputs[i]) = P!Pair(inputs[k]) =>
                    P!Pair(inputs[j]) = P!Pair(inputs[i])
<1>1. PICK c \in Collectives : \E order \in P!SetToSeqs(P!WorkerCounts) :
            inputs = P!CollectiveInputs(order, c)
  BY DEF P!Busy
<1>2. PICK order \in P!SetToSeqs(P!WorkerCounts) : inputs = P!CollectiveInputs(order, c)
  BY <1>1
<1>3. inputs \in Seq(P!ValidInputs(c))
  BY <1>2, InputsFacts
<1>4. Len(inputs) \in Nat /\ \A p \in 1 .. Len(inputs) : Fits(inputs[p])
  BY <1>3, LenProperties, ElementOfSeq, ValidFits
<1>5. position \in 1 .. Len(inputs)
  BY DEF P!Busy
<1>6. inputs # <<>>
  BY <1>4, <1>5, EmptySeq
<1> QED BY <1>2, <1>4, <1>5, <1>6, InputsFacts

(* Whether one takes part depends on the two counts. *)
LEMMA PairDecides ==
    ASSUME NEW x, NEW y, P!Pair(x) = P!Pair(y)
    PROVE  /\ x.workers = y.workers /\ x.per_node = y.per_node
           /\ \A g : P!Rank(g, x) = P!Rank(g, y) /\ (P!TakesPart(g, x) <=> P!TakesPart(g, y))
<1>1. x.workers = y.workers /\ x.per_node = y.per_node
  BY DEF P!Pair
<1> QED BY <1>1 DEF P!Rank, P!TakesPart

(* A collective is begun. *)
LEMMA StartKeeps ==
    ASSUME P!Idle, NEW c \in Collectives, P!Start(c)
    PROVE  P!ProfilerInv'
<1>1. PICK order \in P!SetToSeqs(P!WorkerCounts) : inputs' = P!CollectiveInputs(order, c)
  BY DEF P!Start
<1>2. inputs' \in Seq(P!ValidInputs(c))
  BY <1>1, InputsFacts
<1>3. Len(inputs') \in Nat
  BY <1>2, LenProperties
<1>4. /\ position' = 1 /\ runner' = [g \in P!Gpus |-> "called"]
      /\ group' = [g \in P!Gpus |-> P!NoGroup] /\ last' = [g \in P!Gpus |-> P!Never]
  BY DEF P!Start, P!Idle
<1>5. CASE inputs' = <<>>
  BY <1>4, <1>5 DEF P!ProfilerInv, P!Idle
<1>6. CASE inputs' # <<>>
  <2>1. position' \in 1 .. Len(inputs')
    BY <1>2, <1>3, <1>4, <1>6, EmptySeq
  <2>2. PICK x : x = inputs'[position']
    OBVIOUS
  <2>3. Fits(x)
    BY <1>2, <2>1, <2>2, ElementOfSeq, ValidFits
  <2>4. P!Pair(x) # P!Never
    BY <2>3 DEF Fits, P!Pair, P!Never
  <2>5. \A g \in P!Gpus : P!RunnerInv(g)'
    BY <1>4, <2>2, <2>4 DEF P!RunnerInv, P!Differs, P!Input
  <2> QED BY <1>1, <1>4, <2>1, <2>5 DEF P!ProfilerInv, P!Busy
<1> QED BY <1>5, <1>6

(* What a runner that does nothing relies on. *)
LEMMA OtherKept ==
    ASSUME P!Busy, NEW g \in P!Gpus, UNCHANGED <<inputs, position>>,
           runner'[g] = runner[g], group'[g] = group[g], last'[g] = last[g],
           \A h \in P!Gpus : P!TakesPart(h, P!Input) /\ ~P!Differs(g, P!Input) =>
                group'[h] = group[h]
    PROVE  P!RunnerInv(g)'
<1>1. P!RunnerInv(g)
  BY DEF P!Busy
<1>2. PICK x : x = P!Input
  OBVIOUS
<1>3. P!Input' = x
  BY <1>2 DEF P!Input
<1> QED BY <1>1, <1>2, <1>3 DEF P!RunnerInv, P!Differs

(* A runner is called. *)
LEMMA BeginKeeps ==
    ASSUME P!Busy, NEW g \in P!Gpus, P!Begin(g)
    PROVE  P!Busy'
<1>1. PICK x : x = P!Input
  OBVIOUS
<1>2. /\ UNCHANGED <<inputs, position, last>> /\ P!Input' = x
      /\ DOMAIN runner = P!Gpus /\ DOMAIN group = P!Gpus /\ DOMAIN last = P!Gpus
      /\ P!RunnerInv(g)
  BY <1>1 DEF P!Begin, P!Busy, P!Input
<1>3. PICK d \in BOOLEAN : d <=> P!Differs(g, x)
  OBVIOUS
<1>4. /\ group' = [group EXCEPT ![g] = IF d THEN P!NoGroup ELSE @]
      /\ runner' = [runner EXCEPT ![g] = IF P!Rank(g, x) = -1 THEN "done"
                                        ELSE IF d THEN "joining" ELSE "ready"]
  BY <1>1, <1>3 DEF P!Begin
<1>5. ASSUME NEW h \in P!Gpus, h # g PROVE P!RunnerInv(h)'
  <2>1. runner'[h] = runner[h] /\ group'[h] = group[h] /\ last'[h] = last[h]
    BY <1>2, <1>4, <1>5
  <2>2. ASSUME P!TakesPart(g, x), ~P!Differs(h, x) PROVE ~d
    <3>1. P!RunnerInv(h)
      BY DEF P!Busy
    <3>2. group[h] # P!NoGroup /\ group[g].comm_id = group[h].comm_id
      BY <1>1, <2>2, <3>1 DEF P!RunnerInv
    <3>3. PICK p \in 1 .. position :
            /\ last[h] = P!Pair(inputs[p])
            /\ group[h] = [comm_id |-> p, rank |-> P!Rank(h, inputs[p]),
                           size |-> inputs[p].workers]
      BY <3>1, <3>2 DEF P!RunnerInv
    <3>4. p # 0
      BY BusyFacts
    <3>5. group[g] # P!NoGroup
      BY <3>2, <3>3, <3>4 DEF P!NoGroup
    <3>6. PICK q \in 1 .. position :
            /\ last[g] = P!Pair(inputs[q])
            /\ group[g] = [comm_id |-> q, rank |-> P!Rank(g, inputs[q]),
                           size |-> inputs[q].workers]
      BY <1>2, <3>5 DEF P!RunnerInv
    <3>7. p = q
      BY <3>2, <3>3, <3>6
    <3> QED BY <1>3, <2>2, <3>3, <3>6, <3>7 DEF P!Differs
  <2>3. \A k \in P!Gpus : P!TakesPart(k, x) /\ ~P!Differs(h, x) => group'[k] = group[k]
    BY <1>2, <1>4, <2>2
  <2> QED BY <1>1, <1>2, <2>1, <2>3, OtherKept
<1>6. P!RunnerInv(g)'
  <2>1. /\ runner'[g] = IF P!Rank(g, x) = -1 THEN "done" ELSE IF d THEN "joining" ELSE "ready"
        /\ group'[g] = IF d THEN P!NoGroup ELSE group[g]
        /\ last'[g] = last[g]
    BY <1>2, <1>4
  <2>2. P!Differs(g, x)' = d
    BY <1>2, <1>3 DEF P!Differs
  <2>3. ~d => \A h \in P!Gpus : group'[h] = group[h]
    BY <1>2, <1>4
  <2> QED BY <1>1, <1>2, <1>3, <2>1, <2>2, <2>3 DEF P!RunnerInv, P!TakesPart
<1>7. \A h \in P!Gpus : P!RunnerInv(h)'
  BY <1>5, <1>6
<1>8. DOMAIN runner' = P!Gpus /\ DOMAIN group' = P!Gpus /\ DOMAIN last' = P!Gpus
  BY <1>2, <1>4
<1> QED BY <1>2, <1>7, <1>8 DEF P!Busy

(* A group is joined by all that take part. *)
LEMMA JoinKeeps ==
    ASSUME P!Busy, P!JoinGroup
    PROVE  P!Busy'
<1>1. PICK x, J : x = P!Input /\ J = {g \in P!Gpus : runner[g] = "joining"}
  OBVIOUS
<1>2. /\ UNCHANGED <<inputs, position>> /\ P!Input' = x
      /\ position \in 1 .. Len(inputs) /\ Len(inputs) \in Nat /\ Fits(x)
      /\ x = inputs[position]
  <2>1. UNCHANGED <<inputs, position>>
    BY DEF P!JoinGroup
  <2> QED BY <1>1, <2>1, BusyFacts DEF P!Input
<1>3. \A g \in P!Gpus : P!RunnerInv(g)
  BY DEF P!Busy
<1>4. \A g \in J : P!TakesPart(g, x) /\ P!Differs(g, x)
  BY <1>1, <1>3 DEF P!RunnerInv
<1>5. Cardinality(J) = x.workers
  BY <1>1, ProfilerSets DEF P!JoinGroup
<1>6. J # {}
  <2>1. Cardinality(J) # 0
    BY <1>2, <1>5 DEF Fits
  <2> QED BY <2>1, FS_EmptySet
<1>7. J = Participants(x)
  <2>1. J \subseteq Participants(x)
    BY <1>1, <1>4 DEF Participants
  <2>2. PICK g \in Participants(x) : TRUE
    BY <1>6, <2>1
  <2>3. IsFiniteSet(Participants(x)) /\ Cardinality(Participants(x)) = x.workers
    BY <1>2, <2>2, Ranks
  <2> QED BY <1>5, <2>1, <2>3, FS_Subset
<1>8. /\ group' = [g \in P!Gpus |->
                IF g \in J
                THEN [comm_id |-> position, rank |-> P!Rank(g, x), size |-> x.workers]
                ELSE group[g]]
      /\ last' = [g \in P!Gpus |-> IF g \in J THEN P!Pair(x) ELSE last[g]]
      /\ runner' = [g \in P!Gpus |-> IF g \in J THEN "ready" ELSE runner[g]]
  BY <1>1 DEF P!JoinGroup
<1>9. ASSUME NEW g \in P!Gpus, g \notin J PROVE P!RunnerInv(g)'
  <2>1. P!Differs(g, x)
    <3>1. SUFFICES ASSUME ~P!Differs(g, x) PROVE FALSE
      OBVIOUS
    <3>2. PICK h \in J : TRUE
      BY <1>6
    <3>3. h \in P!Gpus /\ P!TakesPart(h, x) /\ P!Differs(h, x)
      BY <1>1, <1>4
    <3>4. group[g] # P!NoGroup /\ group[h].comm_id = group[g].comm_id
      BY <1>1, <1>3, <3>1, <3>3 DEF P!RunnerInv
    <3>5. PICK p \in 1 .. position :
            /\ last[g] = P!Pair(inputs[p])
            /\ group[g] = [comm_id |-> p, rank |-> P!Rank(g, inputs[p]),
                           size |-> inputs[p].workers]
      BY <1>3, <3>4 DEF P!RunnerInv
    <3>6. group[h] # P!NoGroup
      BY <1>2, <3>4, <3>5 DEF P!NoGroup
    <3>7. PICK q \in 1 .. position :
            /\ last[h] = P!Pair(inputs[q])
            /\ group[h] = [comm_id |-> q, rank |-> P!Rank(h, inputs[q]),
                           size |-> inputs[q].workers]
      BY <1>3, <3>3, <3>6 DEF P!RunnerInv
    <3>8. p = q
      BY <3>4, <3>5, <3>7
    <3> QED BY <3>1, <3>3, <3>5, <3>7, <3>8 DEF P!Differs
  <2>2. group'[g] = group[g] /\ last'[g] = last[g] /\ runner'[g] = runner[g]
    BY <1>8, <1>9
  <2>3. P!TakesPart(g, x) => FALSE
    BY <1>7, <1>9 DEF Participants
  <2>4. P!Differs(g, x)'
    BY <1>2, <2>1, <2>2 DEF P!Differs
  <2>5. P!RunnerInv(g)
    BY <1>3
  <2> QED BY <1>1, <1>2, <2>2, <2>3, <2>4, <2>5 DEF P!RunnerInv
<1>10. ASSUME NEW g \in P!Gpus, g \in J PROVE P!RunnerInv(g)'
  <2>1. /\ group'[g] = [comm_id |-> position, rank |-> P!Rank(g, x), size |-> x.workers]
        /\ last'[g] = P!Pair(x) /\ runner'[g] = "ready"
    BY <1>8, <1>10
  <2>2. P!TakesPart(g, x) /\ ~P!Differs(g, x)'
    BY <1>4, <1>10, <2>1 DEF P!Differs
  <2>3. group'[g] # P!NoGroup
    BY <1>2, <2>1 DEF P!NoGroup
  <2>4. \A h \in P!Gpus : P!TakesPart(h, x) => group'[h].comm_id = group'[g].comm_id
    BY <1>7, <1>8, <2>1 DEF Participants
  <2>5. position' = position /\ inputs' = inputs /\ position \in 1 .. position
    BY <1>2
  <2> QED BY <1>2, <2>1, <2>2, <2>3, <2>4, <2>5 DEF P!RunnerInv
<1>11. \A g \in P!Gpus : P!RunnerInv(g)'
  BY <1>9, <1>10
<1>12. DOMAIN runner' = P!Gpus /\ DOMAIN group' = P!Gpus /\ DOMAIN last' = P!Gpus
  BY <1>8
<1> QED BY <1>2, <1>11, <1>12 DEF P!Busy

(* A group runs a collective. *)
LEMMA RunKeeps ==
    ASSUME P!Busy, NEW g \in P!Gpus, P!RunCollective(g)
    PROVE  P!Busy'
<1>1. PICK M : M = P!Members(group[g].comm_id)
  OBVIOUS
<1>2. /\ UNCHANGED <<inputs, position, group, last>>
      /\ runner' = [h \in P!Gpus |-> IF h \in M THEN "done" ELSE runner[h]]
  BY <1>1 DEF P!RunCollective
<1>3. ASSUME NEW h \in P!Gpus PROVE P!RunnerInv(h)'
  <2>1. P!RunnerInv(h)
    BY DEF P!Busy
  <2>2. runner'[h] = "done" \/ runner'[h] = runner[h]
    BY <1>2
  <2>3. PICK x : x = P!Input
    OBVIOUS
  <2>4. P!Input' = x /\ (P!Differs(h, x)' <=> P!Differs(h, x))
    BY <1>2, <2>3 DEF P!Input, P!Differs
  <2> QED BY <1>2, <2>1, <2>2, <2>3, <2>4 DEF P!RunnerInv
<1> QED BY <1>2, <1>3 DEF P!Busy

(* The next input, or none. *)
LEMMA NextInputKeeps ==
    ASSUME P!CombinationsDiffer, P!Busy, P!NextInput
    PROVE  P!ProfilerInv'
<1>1. position \in 1 .. Len(inputs) /\ Len(inputs) \in Nat
  BY BusyFacts
<1>2. runner' = [g \in P!Gpus |-> "called"]
  BY DEF P!NextInput
<1>3. CASE ~(position < Len(inputs))
  BY <1>2, <1>3 DEF P!NextInput, P!ProfilerInv, P!Idle
<1>4. CASE position < Len(inputs)
  <2>1. position' = position + 1 /\ UNCHANGED <<inputs, group, last>>
    BY <1>4 DEF P!NextInput
  <2>2. PICK k : k = position + 1
    OBVIOUS
  <2>3. position' = k /\ k \in 1 .. Len(inputs) /\ position < k /\ k \in Nat
    BY <1>1, <1>4, <2>1, <2>2
  <2>4. PICK x, y : x = inputs[position] /\ y = inputs[k]
    OBVIOUS
  <2>5. P!Input = x /\ P!Input' = y
    BY <2>1, <2>3, <2>4 DEF P!Input
  <2>6. ASSUME NEW g \in P!Gpus PROVE P!RunnerInv(g)'
    <3>1. P!RunnerInv(g)
      BY DEF P!Busy
    <3>2. runner'[g] = "called" /\ group'[g] = group[g] /\ last'[g] = last[g]
      BY <1>2, <2>1
    <3>3. \A p \in 1 .. position : p \in 1 .. k
      BY <1>1, <2>3
    <3>4. P!Differs(g, y)' <=> last[g] # P!Pair(y)
      BY <2>1 DEF P!Differs
    <3>5. ASSUME last[g] = P!Pair(y)
          PROVE  /\ group[g] # P!NoGroup
                 /\ \A h \in P!Gpus : P!TakesPart(h, y) => group[h].comm_id = group[g].comm_id
      <4>1. Fits(y)
        BY <2>3, <2>4, BusyFacts
      <4>2. last[g] # P!Never
        BY <3>5, <4>1 DEF Fits, P!Pair, P!Never
      <4>3. PICK p \in 1 .. position : last[g] = P!Pair(inputs[p])
        BY <3>1, <4>2 DEF P!RunnerInv
      <4>4. P!Pair(x) = P!Pair(y)
        <5>1. CASE p = position
          BY <2>4, <3>5, <4>3, <5>1
        <5>2. CASE p # position
          <6>1. p < position /\ p \in 1 .. Len(inputs)
            BY <1>1, <5>2
          <6>2. P!Pair(inputs[position]) = P!Pair(inputs[p])
            BY <1>1, <2>3, <2>4, <3>5, <4>3, <6>1, BusyFacts
          <6> QED BY <2>4, <3>5, <4>3, <6>2
        <5> QED BY <5>1, <5>2
      <4>5. ~P!Differs(g, x)
        BY <3>5, <4>4 DEF P!Differs
      <4> QED BY <2>5, <3>1, <4>4, <4>5, PairDecides DEF P!RunnerInv
    <3> QED BY <2>1, <2>3, <2>5, <3>1, <3>2, <3>3, <3>4, <3>5 DEF P!RunnerInv
  <2>7. DOMAIN runner' = P!Gpus /\ DOMAIN group' = P!Gpus /\ DOMAIN last' = P!Gpus
    BY <1>2, <2>1 DEF P!Busy
  <2> QED BY <2>1, <2>3, <2>6, <2>7 DEF P!Busy, P!ProfilerInv
<1> QED BY <1>3, <1>4

(* Every step of the profiler keeps its invariant. *)
LEMMA ProfilerStep ==
    ASSUME P!CombinationsDiffer, P!ProfilerInv, P!Next \/ UNCHANGED profilerVars
    PROVE  P!ProfilerInv'
<1>1. CASE UNCHANGED profilerVars
  BY <1>1 DEF profilerVars, P!ProfilerInv, P!Idle, P!Busy, P!RunnerInv, P!Input, P!Differs
<1>2. CASE P!Next /\ P!Idle
  <2>1. inputs = <<>>
    BY <1>2 DEF P!Idle
  <2>2. \E c \in Collectives : P!Start(c)
    BY <1>2, <2>1 DEF P!Next, P!Begin, P!RunCollective, P!JoinGroup, P!NextInput
  <2> QED BY <1>2, <2>2, StartKeeps
<1>3. CASE P!Next /\ P!Busy
  <2>1. ~\E c \in Collectives : P!Start(c)
    BY <1>3, BusyFacts DEF P!Start
  <2>2. ASSUME NEW g \in P!Gpus, P!Begin(g) \/ P!RunCollective(g) PROVE P!Busy'
    BY <1>3, <2>2, BeginKeeps, RunKeeps
  <2> QED BY <1>3, <2>1, <2>2, JoinKeeps, NextInputKeeps DEF P!Next, P!ProfilerInv
<1> QED BY <1>1, <1>2, <1>3 DEF P!ProfilerInv

(* The invariant says that a group is the one of the input. *)
LEMMA ProfilerIsRight ==
    ASSUME P!ProfilerInv
    PROVE  GroupIsTheInput
<1> SUFFICES ASSUME NEW g \in P!Gpus, runner[g] = "ready"
             PROVE  /\ group[g] # P!NoGroup
                    /\ group[g].rank = P!Rank(g, P!Input)
                    /\ group[g].size = P!Input.workers
                    /\ {P!Rank(h, P!Input) : h \in {h \in P!Gpus : group[h] # P!NoGroup /\
                                                group[h].comm_id = group[g].comm_id}}
                         = 0 .. P!Input.workers - 1
  BY DEF GroupIsTheInput, P!GroupIsTheInput
<1>1. P!Busy
  BY DEF P!ProfilerInv, P!Idle
<1>2. PICK x : x = P!Input
  OBVIOUS
<1>3. x = inputs[position] /\ Fits(x) /\ position \in Nat
  BY <1>1, <1>2, BusyFacts DEF P!Input
<1>4. \A h \in P!Gpus : P!RunnerInv(h)
  BY <1>1 DEF P!Busy
<1>5. /\ P!TakesPart(g, x) /\ last[g] = P!Pair(x) /\ group[g] # P!NoGroup
      /\ \A h \in P!Gpus : P!TakesPart(h, x) => group[h].comm_id = group[g].comm_id
  BY <1>2, <1>4 DEF P!RunnerInv, P!Differs
<1>6. PICK p \in 1 .. position :
        /\ last[g] = P!Pair(inputs[p])
        /\ group[g] = [comm_id |-> p, rank |-> P!Rank(g, inputs[p]),
                       size |-> inputs[p].workers]
  BY <1>4, <1>5 DEF P!RunnerInv
<1>7. /\ P!Pair(x) = P!Pair(inputs[p]) /\ p # 0 /\ group[g].comm_id = p
      /\ group[g].rank = P!Rank(g, inputs[p]) /\ group[g].size = inputs[p].workers
  BY <1>3, <1>5, <1>6
<1>8. /\ x.workers = inputs[p].workers
      /\ \A h : P!Rank(h, x) = P!Rank(h, inputs[p])
                /\ (P!TakesPart(h, x) <=> P!TakesPart(h, inputs[p]))
  BY <1>7, PairDecides
<1>9. ASSUME NEW h \in P!Gpus
      PROVE  (group[h] # P!NoGroup /\ group[h].comm_id = group[g].comm_id)
                <=> P!TakesPart(h, x)
  <2>1. ASSUME P!TakesPart(h, x)
        PROVE  group[h] # P!NoGroup /\ group[h].comm_id = group[g].comm_id
    BY <1>5, <1>7, <2>1 DEF P!NoGroup
  <2>2. ASSUME group[h] # P!NoGroup, group[h].comm_id = group[g].comm_id
        PROVE  P!TakesPart(h, x)
    <3>1. PICK q \in 1 .. position :
            /\ P!TakesPart(h, inputs[q])
            /\ group[h] = [comm_id |-> q, rank |-> P!Rank(h, inputs[q]),
                           size |-> inputs[q].workers]
      BY <1>4, <2>2 DEF P!RunnerInv
    <3>2. q = p
      BY <1>7, <2>2, <3>1
    <3> QED BY <1>8, <3>1, <3>2
  <2> QED BY <2>1, <2>2
<1>10. {h \in P!Gpus : group[h] # P!NoGroup /\ group[h].comm_id = group[g].comm_id}
        = Participants(x)
  BY <1>9 DEF Participants
<1>11. {P!Rank(h, x) : h \in Participants(x)} = 0 .. x.workers - 1
  <2>1. g \in Participants(x)
    BY <1>5 DEF Participants
  <2> QED BY <1>3, <2>1, Ranks
<1> QED BY <1>2, <1>5, <1>7, <1>8, <1>10, <1>11

(* Every runner that is about to run a collective is in a group of exactly  *)
(* the workers of the input, if no combination is asked for twice.          *)
THEOREM GroupsFollowTheInputs ==
    P!CombinationsDiffer => (OfflineSpec => []GroupIsTheInput)
<1> SUFFICES ASSUME P!CombinationsDiffer PROVE OfflineSpec => []GroupIsTheInput
  OBVIOUS
<1>1. OfflineInit => P!ProfilerInv
  BY DEF OfflineInit, P!Init, P!ProfilerInv
<1>2. P!ProfilerInv /\ [OfflineNext]_allVars => P!ProfilerInv'
  <2>1. [OfflineNext]_allVars => (P!Next \/ UNCHANGED profilerVars)
    BY DEF OfflineNext, Profile, LaunchAll, Simulate, BeKilled, allVars
  <2> QED BY <2>1, ProfilerStep
<1>3. P!ProfilerInv => GroupIsTheInput
  BY ProfilerIsRight
<1> QED BY <1>1, <1>2, <1>3, PTL DEF OfflineSpec

-----------------------------------------------------------------------------
(* The rows of the collectives. *)

(* Every step of the profiler keeps the account of the rows.                *)
LEMMA RowsStep ==
    ASSUME P!ProfilerInv, P!RowsInv, P!Next \/ UNCHANGED profilerVars
    PROVE  P!RowsInv'
<1>1. IsFiniteSet(rows)
  BY ProfilerSets DEF P!RowsInv
<1>2. ASSUME NEW c \in Collectives \ todo, NEW x \in P!ValidInputs(c)
      PROVE  \/ ~P!TakesPart(0, x)
             \/ P!Row(x) \in rows
             \/ \E p \in position .. Len(inputs) :
                    inputs[p] = x /\ (p = position => runner[0] # "done")
  BY DEF P!RowsInv
<1>3. CASE UNCHANGED profilerVars
  BY <1>3 DEF profilerVars, P!RowsInv
<1>4. ASSUME NEW c \in Collectives, P!Start(c) PROVE P!RowsInv'
  <2>1. PICK order \in P!SetToSeqs(P!WorkerCounts) : inputs' = P!CollectiveInputs(order, c)
    BY <1>4 DEF P!Start
  <2>2. /\ P!Idle /\ todo' = todo \ {c} /\ rows' = rows
        /\ position' = position /\ runner' = runner
    BY <1>4, BusyFacts DEF P!Start, P!ProfilerInv
  <2>3. position = 1 /\ runner[0] # "done" /\ position .. Len(inputs) = {}
    <3>1. inputs = <<>> /\ position = 1 /\ runner[0] = "called"
      BY <2>2, ClusterFacts DEF P!Idle
    <3>2. Len(<<>>) = 0
      BY EmptySeq
    <3> QED BY <3>1, <3>2
  <2>4. ASSUME NEW d \in Collectives \ todo', NEW x \in P!ValidInputs(d)
        PROVE  \/ ~P!TakesPart(0, x)
               \/ P!Row(x) \in rows'
               \/ \E p \in position' .. Len(inputs') :
                    inputs'[p] = x /\ (p = position' => runner'[0] # "done")
    <3>1. CASE d = c
      <4>1. PICK p \in 1 .. Len(inputs') : inputs'[p] = x
        BY <2>1, <3>1, InputsFacts
      <4> QED BY <2>2, <2>3, <4>1
    <3>2. CASE d # c
      <4>1. d \in Collectives \ todo
        BY <2>2, <3>2
      <4> QED BY <1>2, <2>2, <2>3, <4>1
    <3> QED BY <3>1, <3>2
  <2> QED BY <1>1, <2>2, <2>4, ProfilerSets DEF P!RowsInv
<1>5. ASSUME NEW g \in P!Gpus, P!Begin(g) PROVE P!RowsInv'
  <2>1. /\ UNCHANGED <<inputs, position, rows, todo>> /\ P!Busy
    BY <1>5 DEF P!Begin, P!ProfilerInv, P!Idle
  <2>2. ASSUME runner'[0] = "done", runner[0] # "done" PROVE ~P!TakesPart(0, P!Input)
    <3>1. DOMAIN runner = P!Gpus
      BY <2>1 DEF P!Busy
    <3>2. g = 0
      BY <1>5, <2>2, <3>1, ClusterFacts DEF P!Begin
    <3> QED BY <1>5, <2>2, <3>1, <3>2 DEF P!Begin, P!TakesPart
  <2> QED BY <1>2, <2>1, <2>2 DEF P!RowsInv, P!Input
<1>6. ASSUME NEW g \in P!Gpus, P!RunCollective(g) PROVE P!RowsInv'
  <2>1. PICK M, y : M = P!Members(group[g].comm_id) /\ y = P!Input
    OBVIOUS
  <2>2. /\ UNCHANGED <<inputs, position, todo>>
        /\ runner' = [h \in P!Gpus |-> IF h \in M THEN "done" ELSE runner[h]]
        /\ rows' = IF 0 \in M THEN rows \cup {P!Row(y)} ELSE rows
    BY <1>6, <2>1 DEF P!RunCollective
  <2>3. P!IsFiniteSet(rows')
    <3>1. IsFiniteSet(rows \cup {P!Row(y)})
      BY <1>1, FS_AddElement
    <3> QED BY <1>1, <2>2, <3>1, ProfilerSets
  <2>4. runner'[0] = IF 0 \in M THEN "done" ELSE runner[0]
    BY <2>2, ClusterFacts
  <2>5. ASSUME NEW c \in Collectives \ todo', NEW x \in P!ValidInputs(c)
        PROVE  \/ ~P!TakesPart(0, x)
               \/ P!Row(x) \in rows'
               \/ \E p \in position' .. Len(inputs') :
                    inputs'[p] = x /\ (p = position' => runner'[0] # "done")
    <3>1. CASE ~P!TakesPart(0, x) \/ P!Row(x) \in rows
      BY <2>2, <3>1
    <3>2. CASE \E p \in position .. Len(inputs) :
                    inputs[p] = x /\ (p = position => runner[0] # "done")
      <4>1. PICK p \in position .. Len(inputs) :
                    inputs[p] = x /\ (p = position => runner[0] # "done")
        BY <3>2
      <4>2. CASE p = position /\ 0 \in M
        BY <2>1, <2>2, <4>1, <4>2 DEF P!Input
      <4>3. CASE ~(p = position /\ 0 \in M)
        BY <2>2, <2>4, <4>1, <4>3
      <4> QED BY <4>2, <4>3
    <3> QED BY <1>2, <2>2, <3>1, <3>2
  <2> QED BY <2>3, <2>5 DEF P!RowsInv
<1>7. CASE P!JoinGroup
  <2>1. UNCHANGED <<inputs, position, rows, todo>>
    BY <1>7 DEF P!JoinGroup
  <2>2. runner'[0] = "done" => runner[0] = "done"
    BY <1>7, ClusterFacts DEF P!JoinGroup
  <2> QED BY <1>2, <2>1, <2>2 DEF P!RowsInv
<1>8. CASE P!NextInput
  <2>1. P!Busy
    BY <1>8 DEF P!NextInput, P!ProfilerInv, P!Idle
  <2>2. position \in 1 .. Len(inputs) /\ Len(inputs) \in Nat
    BY <2>1, BusyFacts
  <2>3. rows' = rows /\ todo' = todo /\ runner[0] = "done" /\ runner'[0] = "called"
    BY <1>8, ClusterFacts DEF P!NextInput
  <2>4. ASSUME NEW p \in position .. Len(inputs), p # position
        PROVE  p \in position' .. Len(inputs') /\ inputs'[p] = inputs[p]
    <3>1. position < Len(inputs)
      BY <2>2, <2>4
    <3>2. position' = position + 1 /\ inputs' = inputs
      BY <1>8, <3>1 DEF P!NextInput
    <3> QED BY <2>2, <2>4, <3>2
  <2> QED BY <1>2, <1>1, <2>3, <2>4, ProfilerSets DEF P!RowsInv
<1> QED BY <1>3, <1>4, <1>5, <1>6, <1>7, <1>8 DEF P!Next

(* When all collectives are profiled, all inputs in which GPU 0 takes part  *)
(* have their rows.                                                         *)
LEMMA AllRows ==
    ASSUME P!Over, P!ProfilerInv, P!RowsInv,
           NEW c \in Collectives, NEW x \in P!ValidInputs(c), P!TakesPart(0, x)
    PROVE  P!Row(x) \in rows
<1>1. P!Idle
  BY BusyFacts DEF P!Over, P!ProfilerInv
<1>2. position .. Len(inputs) = {}
  <2>1. Len(<<>>) = 0
    BY EmptySeq
  <2> QED BY <1>1, <2>1 DEF P!Idle
<1> QED BY <1>2 DEF P!RowsInv, P!Over

(* A set with two elements has two. *)
LEMMA AtLeastTwo ==
    ASSUME NEW S, IsFiniteSet(S), NEW a \in S, NEW b \in S, a # b
    PROVE  Cardinality(S) >= 2
<1>1. Cardinality(S \ {a}) = Cardinality(S) - 1 /\ IsFiniteSet(S \ {a})
  BY FS_RemoveElement
<1>2. Cardinality(S \ {a}) \in Nat /\ Cardinality(S) \in Nat /\ Cardinality(S \ {a}) # 0
  BY <1>1, FS_CardinalityType, FS_EmptySet
<1> QED BY <1>1, <1>2

(* A pair of counts that GPU 0 takes part in has enough rows to train on.   *)
LEMMA TwoRows ==
    ASSUME P!Over, P!ProfilerInv, P!RowsInv, BothProfiled,
           NEW c \in {"all_reduce", "send_recv"},
           NEW w \in P!WorkerCounts, NEW n \in P!Range(Combinations),
           P!ValidCollective(w, n, c), w \div n >= 1,
           NEW R, R \subseteq rows,
           \A r \in rows : r.collective = c /\ r.num_workers = w /\ r.devices_per_node = n
                            => r \in R
    PROVE  CanTrain(R)
<1>1. PICK a, b : a \in P!Range(CollectiveSizes) /\ b \in P!Range(CollectiveSizes) /\ a # b
  BY DEF BothProfiled, P!Range, Range
<1>2. a \in Nat /\ b \in Nat
  <2>1. CollectiveSizes \in Seq(Nat)
    BY ClusterFacts
  <2> QED BY <1>1, <2>1, LenProperties DEF P!Range
<1> DEFINE X(s) == [workers |-> w, per_node |-> n, size |-> s, collective |-> c]
<1>3. ASSUME NEW s \in P!Range(CollectiveSizes)
      PROVE  P!Row(X(s)) \in R /\ P!Row(X(s)).size = 2 * s
  <2>1. PICK x : x = X(s)
    OBVIOUS
  <2>2. x \in P!ValidInputs(c) /\ x.workers = w /\ x.per_node = n /\ x.collective = c /\ x.size = s
    BY <2>1 DEF P!ValidInputs
  <2>3. P!TakesPart(0, x)
    <3>1. 0 \div GpusPerNode = 0 /\ 0 % GpusPerNode = 0
      <4>1. (0 * GpusPerNode + 0) \div GpusPerNode = 0 /\ (0 * GpusPerNode + 0) % GpusPerNode = 0
        BY ClusterFacts, Quotient
      <4>2. 0 * GpusPerNode + 0 = 0
        BY ClusterFacts
      <4> QED BY <4>1, <4>2
    <3>2. x.workers \div x.per_node \in Nat /\ ~(0 >= x.workers \div x.per_node)
          /\ x.per_node \in Nat /\ ~(0 >= x.per_node)
      <4>1. w \in Nat /\ n \in Nat \ {0}
        BY Counts, ClusterFacts
      <4>2. w \div n \in Nat
        BY <4>1, Division
      <4> QED BY <2>2, <4>1, <4>2
    <3>3. P!Rank(0, x) = 0 * x.per_node + 0
      BY <3>1, <3>2 DEF P!Rank
    <3>4. 0 * x.per_node + 0 = 0
      BY <3>2
    <3> QED BY <3>3, <3>4 DEF P!TakesPart
  <2>4. P!Row(x) \in rows
    <3>1. c \in Collectives
      BY DEF BothProfiled
    <3> QED BY <2>2, <2>3, <3>1, AllRows
  <2>5. /\ P!Row(x).collective = c /\ P!Row(x).num_workers = w
        /\ P!Row(x).devices_per_node = n /\ P!Row(x).size = 2 * s
    BY <2>2 DEF P!Row
  <2> QED BY <2>1, <2>4, <2>5
<1>4. IsFiniteSet(R)
  BY ProfilerSets, FS_Subset DEF P!RowsInv
<1>5. P!Row(X(a)) # P!Row(X(b))
  <2>1. 2 * a # 2 * b
    BY <1>1, <1>2
  <2>2. P!Row(X(a)).size = 2 * a /\ P!Row(X(b)).size = 2 * b
    BY <1>1, <1>3
  <2> HIDE DEF X
  <2> QED BY <2>1, <2>2
<1>6. Cardinality(R) >= 2
  <2> HIDE DEF X
  <2> QED BY <1>1, <1>3, <1>4, <1>5, AtLeastTwo
<1> QED BY <1>6 DEF CanTrain

(* The rows of the profiles are those of the collectives. *)
LEMMA ProfiledRows ==
    ASSUME profiles = WithCollectives(rows)
    PROVE  /\ profiles.all_reduce = {x \in rows : x.collective = "all_reduce"}
           /\ profiles.send_recv = {x \in rows : x.collective = "send_recv"}
BY ProfilesAssumption DEF WithCollectives

(* The collectives that were profiled suffice to train on. *)
LEMMA TrainableCollectives ==
    ASSUME P!Over, P!ProfilerInv, P!RowsInv, BothProfiled, profiles = WithCollectives(rows),
           NEW p \in Simulations,
           setup[p].tp \in Range(Combinations),
           IF IsMultiNode(setup[p]) THEN 1 \in Range(Combinations) /\ NumNodes > 1
           ELSE 2 \in Range(Combinations)
    PROVE  /\ "all_reduce" \in Range(TrainedModels(setup[p])) => CanTrain(Data(p, "all_reduce"))
           /\ CanTrain(Data(p, "send_recv"))
<1>1. PICK s : s = setup[p]
  OBVIOUS
<1>2. /\ Data(p, "all_reduce") = {x \in profiles.all_reduce :
            x.num_workers = s.tp /\ x.devices_per_node = s.tp /\ x.collective = "all_reduce"}
      /\ Data(p, "send_recv") = {x \in profiles.send_recv : x.collective = "send_recv"
            /\ x.devices_per_node = IF IsMultiNode(s) THEN 1 ELSE 2}
  <2>1. {"all_reduce", "send_recv"} \cap Range(ComputeModels) = {}
    BY ModelSequences
  <2> QED BY <1>1, <2>1 DEF Data, TrainingRows, AllReduceRows, SendRecvRows
<1>3. P!Range(Combinations) = Range(Combinations)
  BY DEF P!Range, Range
<1>4. ASSUME NEW n \in Range(Combinations), NEW k \in 1 .. NumNodes
      PROVE  /\ n * k \in P!WorkerCounts /\ n \in Nat \ {0} /\ n * k \in Nat
             /\ n <= GpusPerNode /\ n * k <= P!TotalGpus
  <2>1. n * k \in P!WorkerCounts /\ n \in 1 .. GpusPerNode
    BY <1>3, ClusterFacts DEF P!WorkerCounts
  <2> QED BY <2>1, Counts, ClusterFacts
<1>5. 1 \in 1 .. NumNodes
  BY ClusterFacts
<1>6. ASSUME NEW n \in Range(Combinations)
      PROVE  n \in P!WorkerCounts /\ n \div n = 1 /\ n <= P!TotalGpus /\ n \in Nat \ {0}
  <2>1. n * 1 \in P!WorkerCounts /\ n * 1 <= P!TotalGpus /\ n \in Nat \ {0}
    BY <1>4, <1>5
  <2>2. n * 1 = n /\ 1 * n + 0 = n /\ 0 \in 0 .. n - 1
    BY <2>1
  <2>3. (1 * n + 0) \div n = 1
    BY <2>1, <2>2, Quotient
  <2> QED BY <2>1, <2>2, <2>3
<1>7. ASSUME "all_reduce" \in Range(TrainedModels(s)) PROVE CanTrain(Data(p, "all_reduce"))
  <2>1. PICK n \in Range(Combinations) : n = s.tp
    BY <1>1
  <2>2. n > 1
    BY <1>7, <2>1, ModelSequences
  <2>3. P!ValidCollective(n, n, "all_reduce") /\ n \div n >= 1 /\ n \in P!WorkerCounts
    BY <1>6, <2>2, ClusterFacts DEF P!ValidCollective
  <2>4. /\ Data(p, "all_reduce") \subseteq rows
        /\ \A r \in rows : r.collective = "all_reduce" /\ r.num_workers = n
                            /\ r.devices_per_node = n => r \in Data(p, "all_reduce")
    BY <1>2, <2>1, ProfiledRows
  <2> QED BY <1>3, <2>1, <2>3, <2>4, TwoRows
<1>8. CanTrain(Data(p, "send_recv"))
  <2>1. PICK n : n = IF IsMultiNode(s) THEN 1 ELSE 2
    OBVIOUS
  <2>2. n \in Range(Combinations) /\ (n = 2 \/ (n = 1 /\ NumNodes > 1))
    BY <1>1, <2>1
  <2>3. /\ 2 \in P!WorkerCounts /\ 2 <= P!TotalGpus /\ 2 \div n >= 1 /\ 2 \div n <= NumNodes
        /\ 2 > n => 2 % n = 0
    <3>1. CASE n = 2
      BY <1>6, <2>2, <3>1, ClusterFacts
    <3>2. CASE n = 1 /\ NumNodes > 1
      <4>1. 2 \in 1 .. NumNodes
        BY <3>2, ClusterFacts
      <4>2. n * 2 \in P!WorkerCounts /\ n * 2 <= P!TotalGpus
        BY <1>4, <2>2, <4>1
      <4>3. 2 \div 1 = 2 /\ 2 % 1 = 0
        OBVIOUS
      <4> QED BY <3>2, <4>1, <4>2, <4>3, ClusterFacts
    <3> QED BY <2>2, <3>1, <3>2
  <2>4. P!ValidCollective(2, n, "send_recv")
    BY <2>3 DEF P!ValidCollective
  <2>5. /\ Data(p, "send_recv") \subseteq rows
        /\ \A r \in rows : r.collective = "send_recv" /\ r.num_workers = 2
                            /\ r.devices_per_node = n => r \in Data(p, "send_recv")
    BY <1>1, <1>2, <2>1, ProfiledRows
  <2> QED BY <1>3, <2>2, <2>3, <2>4, <2>5, TwoRows
<1> QED BY <1>1, <1>7, <1>8

(* A simulation that stops for want of data does so for its model.          *)
LEMMA ShortStep ==
    ASSUME CacheInv, \A p \in Simulations : ShortInv(p),
           NEW p \in Simulations, Step(p) \/ Kill(p)
    PROVE  \A q \in Simulations : ShortInv(q)'
<1>1. setup' = setup /\ profiles' = profiles
  BY DEF Step, Load, Miss, NoData, Open, Close, Kill
<1>2. ASSUME NEW q \in Simulations, pc'[q] = pc[q], next_model'[q] = next_model[q]
      PROVE  ShortInv(q)'
  BY <1>1, <1>2 DEF ShortInv, Data
<1>3. DOMAIN pc = Simulations /\ DOMAIN next_model = Simulations
  BY DEF CacheInv
<1>4. ASSUME NEW content, Obtained(p, content)
      PROVE  /\ \A q \in Simulations \ {p} : pc'[q] = pc[q] /\ next_model'[q] = next_model[q]
             /\ pc'[p] = pc[p] \/ pc'[p] \in {"predict", "ready"}
  BY <1>3, <1>4 DEF Obtained
<1>5. ASSUME NEW q \in Simulations \ {p}
      PROVE  pc'[q] = pc[q] /\ next_model'[q] = next_model[q]
  <2>1. CASE Load(p)
    BY <1>3, <1>4, <2>1 DEF Load
  <2>2. CASE Close(p)
    BY <1>3, <1>4, <2>2 DEF Close
  <2>3. CASE Miss(p) \/ NoData(p) \/ Open(p) \/ Kill(p)
    BY <1>3, <2>3 DEF Miss, NoData, Open, Kill
  <2> QED BY <2>1, <2>2, <2>3 DEF Step
<1>6. ShortInv(p)'
  <2> SUFFICES ASSUME pc'[p] = "no data" PROVE ShortInv(p)'
    BY DEF ShortInv
  <2>1. CASE NoData(p)
    <3>1. /\ pc[p] = "train" /\ next_model' = next_model
          /\ ~CanTrain(Data(p, Name(p))) /\ Running(p) /\ SimulationInv(p)
      BY <2>1 DEF NoData, Working, CacheInv
    <3>2. /\ Name(p) = TrainedModels(setup[p])[next_model[p]]
          /\ next_model[p] \in 1 .. Len(TrainedModels(setup[p]))
      BY <3>1 DEF Name, SimulationInv, Names
    <3> QED BY <1>1, <3>1, <3>2 DEF ShortInv, Data
  <2>2. CASE ~NoData(p)
    <3>1. pc[p] # "no data"
      <4>1. CASE Load(p) \/ Miss(p) \/ Kill(p)
        BY <4>1 DEF Load, Miss, Kill, Working, Running
      <4>2. CASE Open(p) \/ Close(p)
        <5>1. writing[p] # NotWriting
          BY <4>2, FileKinds DEF Open, Close
        <5> QED BY <5>1 DEF CacheInv, SimulationInv, Running
      <4> QED BY <2>2, <4>1, <4>2 DEF Step
    <3>2. pc'[p] # "no data"
      <4>1. CASE Load(p)
        <5>1. pc' = [pc EXCEPT ![p] = "torn file"] \/ Obtained(p, Content(File(p)))
          BY <4>1 DEF Load
        <5> QED BY <1>3, <1>4, <3>1, <5>1
      <4>2. CASE Close(p)
        BY <1>4, <3>1, <4>2 DEF Close
      <4>3. CASE Miss(p) \/ Open(p) \/ Kill(p)
        BY <1>3, <3>1, <4>3 DEF Miss, Open, Kill
      <4> QED BY <2>2, <4>1, <4>2, <4>3 DEF Step
    <3> QED BY <3>2
  <2> QED BY <2>1, <2>2
<1> QED BY <1>2, <1>5, <1>6

(* The account of the profiles, and the invariant of the cache. *)
RowsKnown == CacheSafe /\ ProfilesSafe

(* No step breaks it. *)
LEMMA RowsKnownStep ==
    ASSUME P!CombinationsDiffer, RowsKnown, [OfflineNext]_allVars
    PROVE  RowsKnown'
<1>1. CacheSafe' /\ P!ProfilerInv' /\ P!RowsInv'
  <2>1. P!Next \/ UNCHANGED profilerVars
    BY DEF OfflineNext, Profile, LaunchAll, Simulate, BeKilled, allVars
  <2> QED BY <2>1, CacheSafeStep, ProfilerStep, RowsStep DEF RowsKnown, ProfilesSafe
<1>2. profiles' = WithCollectives(rows')
  <2>1. CASE Profile
    BY <2>1 DEF Profile
  <2>2. CASE UNCHANGED <<profiles, rows>>
    BY <2>2 DEF RowsKnown, ProfilesSafe, WithCollectives
  <2>3. LaunchAll => UNCHANGED <<profiles, rows>>
    BY DEF LaunchAll, Launch, profilerVars
  <2>4. \A p \in Simulations : Simulate(p) \/ BeKilled(p) => UNCHANGED <<profiles, rows>>
    BY DEF Simulate, BeKilled, Step, Load, Miss, NoData, Open, Close, Kill, profilerVars
  <2>5. UNCHANGED allVars => UNCHANGED <<profiles, rows>>
    BY DEF allVars, vars, profilerVars
  <2> QED BY <2>1, <2>2, <2>3, <2>4, <2>5 DEF OfflineNext
<1>3. Init' \/ \A p \in Simulations : ShortInv(p)'
  <2>1. CASE Profile
    <3>1. Init
      BY <2>1, OverIsOver DEF RowsKnown, ProfilesSafe, CacheSafe, Profile
    <3> QED BY <2>1, <3>1 DEF Profile, Init, cacheVars
  <2>2. CASE LaunchAll
    BY <2>2 DEF LaunchAll, Launch, ShortInv
  <2>3. ASSUME NEW p \in Simulations, Simulate(p) \/ BeKilled(p)
        PROVE  \A q \in Simulations : ShortInv(q)'
    <3>1. P!Over /\ (Step(p) \/ Kill(p))
      BY <2>3 DEF Simulate, BeKilled
    <3>2. CacheInv /\ \A q \in Simulations : ShortInv(q)
      BY <3>1, NotYet DEF RowsKnown, ProfilesSafe, CacheSafe
    <3> QED BY <3>1, <3>2, ShortStep
  <2>4. CASE UNCHANGED allVars
    <3>1. UNCHANGED vars
      BY <2>4 DEF allVars
    <3>2. Init => Init'
      BY <3>1 DEF Init, vars, cacheVars
    <3>3. \A p \in Simulations : ShortInv(p) => ShortInv(p)'
      BY <3>1 DEF ShortInv, Data, vars, cacheVars
    <3> QED BY <3>2, <3>3 DEF RowsKnown, ProfilesSafe
  <2> QED BY <2>1, <2>2, <2>3, <2>4 DEF OfflineNext
<1> QED BY <1>1, <1>2, <1>3 DEF RowsKnown, ProfilesSafe

(* What a simulation is short of is never a collective that was profiled.   *)
LEMMA KnownSuffice ==
    ASSUME BothProfiled, RowsKnown
    PROVE  CollectivesSuffice
<1> SUFFICES ASSUME NEW p \in Simulations, pc[p] = "no data",
                    setup[p].tp \in Range(Combinations),
                    IF IsMultiNode(setup[p]) THEN 1 \in Range(Combinations) /\ NumNodes > 1
                    ELSE 2 \in Range(Combinations)
             PROVE  TrainedModels(setup[p])[next_model[p]] \notin {"all_reduce", "send_recv"}
  BY DEF CollectivesSuffice
<1>1. ~Init
  BY DEF Init
<1>2. /\ P!Over /\ P!ProfilerInv /\ P!RowsInv /\ profiles = WithCollectives(rows)
      /\ ShortInv(p)
  BY <1>1 DEF RowsKnown, ProfilesSafe, CacheSafe
<1>3. PICK name : name = TrainedModels(setup[p])[next_model[p]]
  OBVIOUS
<1>4. ~CanTrain(Data(p, name)) /\ next_model[p] \in 1 .. Len(TrainedModels(setup[p]))
  BY <1>2, <1>3 DEF ShortInv
<1>5. name \in Range(TrainedModels(setup[p]))
  BY <1>3, <1>4, ModelSequences, LenProperties DEF Range
<1>6. /\ "all_reduce" \in Range(TrainedModels(setup[p])) => CanTrain(Data(p, "all_reduce"))
      /\ CanTrain(Data(p, "send_recv"))
  BY <1>2, TrainableCollectives
<1> QED BY <1>3, <1>4, <1>5, <1>6

(* In every state a simulation whose degree of tensor parallelism was       *)
(* profiled, on a node and across nodes as it needs, is never short of a    *)
(* collective: the rows collectives/main.py writes are enough to train on.  *)
THEOREM CollectivesAreEnough ==
    P!CombinationsDiffer /\ BothProfiled => (OfflineSpec => []CollectivesSuffice)
<1> SUFFICES ASSUME P!CombinationsDiffer, BothProfiled
             PROVE  OfflineSpec => []CollectivesSuffice
  OBVIOUS
<1>1. OfflineInit => RowsKnown
  <2>1. P!IsFiniteSet({})
    BY FS_EmptySet, ProfilerSets
  <2> QED BY <2>1 DEF OfflineInit, RowsKnown, ProfilesSafe, CacheSafe, P!Init,
                      P!ProfilerInv, P!RowsInv
<1>2. RowsKnown /\ [OfflineNext]_allVars => RowsKnown'
  BY RowsKnownStep
<1>3. RowsKnown => CollectivesSuffice
  BY KnownSuffice
<1> QED BY <1>1, <1>2, <1>3, PTL DEF OfflineSpec
=============================================================================
