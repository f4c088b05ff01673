--------------------------- MODULE PredictorCache ---------------------------
(***************************************************************************)
(* Simulations that share a cache directory, as those of an exploration    *)
(* do: each trains its models or loads them, then predicts or loads the    *)
(* predictions, under a reader-writer lock per file.  A simulation may be  *)
(* killed while it writes.                                                 *)
(***************************************************************************)
EXTENDS Predictor

CONSTANTS
    Simulations,   \* simulations that share the cache, numbered from 1
    Setups,        \* how the simulations may be configured together
    Lead,          \* bound: how many models a simulation may be ahead of another
    Kills          \* bound: how many simulations may be killed

ASSUME CacheAssumption ==
    /\ Simulations \subseteq Nat \ {0} /\ IsFiniteSet(Simulations)
    /\ \A S \in Setups : \A p \in Simulations : WorkersFit(S[p])
    /\ Lead \in Nat /\ Kills \in Nat

VARIABLES
    profiles,      \* the rows of the csv files of profiles, by kind
    setup,         \* the configuration of each simulation
    pc,            \* "train", "predict", "ready", or why it stopped
    next_model,    \* index of the model it trains or predicts for
    writing,       \* the file it has opened for writing
    files,         \* what is in the cache directory, and from whom
    models,        \* _models: from whom each model is
    predictions,   \* _predictions: from whom each table is
    killed         \* history: simulations that were killed

cacheVars == <<setup, pc, next_model, writing, files, models, predictions, killed>>
vars == <<profiles, cacheVars>>

Unconfigured == [model |-> "none"]
Torn == 0

-----------------------------------------------------------------------------
(* Seeded fault: the limits of the predictions are left out, too. *)
ToDictOfModel(s) ==
    [tp |-> s.tp, model |-> s.model, block_size |-> s.block_size,
     k_fold |-> s.k_fold, provider |-> s.provider,
     files |-> <<InputFiles(s).compute, InputFiles(s).all_reduce,
                 InputFiles(s).send_recv, InputFiles(s).cpu_overhead>>]

(* to_dict: what of a simulation goes into the names of its files.  The     *)
(* attention profile, the granularity and the stages are not in it.         *)
ToDict(s) ==
    [tp |-> s.tp, model |-> s.model, block_size |-> s.block_size,
     max_tokens |-> MaxTokens(s), max_chunk |-> s.max_chunk, max_batch |-> s.max_batch,
     k_fold |-> s.k_fold, provider |-> s.provider,
     files |-> <<InputFiles(s).compute, InputFiles(s).all_reduce,
                 InputFiles(s).send_recv, InputFiles(s).cpu_overhead>>]

Data(p, name) == TrainingRows(setup[p], name, profiles)
SameData(p, q, name) == p = q \/ Data(p, name) = Data(q, name)

(* A file is named by a hash: here the first simulation with that hash.     *)
FirstOf(S) == CHOOSE p \in S : \A q \in S : p <= q

(* _get_model_hash with the training data. *)
ModelFile(p, name) ==
    [kind |-> "model", name |-> name,
     hash |-> FirstOf({q \in Simulations :
                        /\ ToDict(setup[q]) = ToDict(setup[p])
                        /\ SameData(p, q, name)})]

(* _get_model_hash of an estimator: its parameters, but not its data.       *)
PredictionFile(p, name) ==
    [kind |-> "predictions", name |-> name,
     hash |-> FirstOf({q \in Simulations : ToDict(setup[q]) = ToDict(setup[p])})]

(* The inputs a table is computed for are the same, as far as they go into  *)
(* its name.                                                                *)
SameNamedInputs(s, t, name) ==
    IF name = "attn_prefill" THEN s.max_chunk = t.max_chunk
    ELSE IF name \in Range(TrainedCompute(s)) THEN MaxTokens(s) = MaxTokens(t)
    ELSE s.max_batch = t.max_batch

SameInputs(s, t, name) ==
    /\ SameNamedInputs(s, t, name)
    /\ name \in Range(TrainedAttention) =>
            /\ s.granularity = t.granularity
            /\ s.max_tokens_per_request = t.max_tokens_per_request

(* What a simulation computes is named after the first that would compute   *)
(* the same: a model of the same data, a table over the same inputs too.    *)
OwnModel(p, name) == FirstOf({q \in Simulations : SameData(p, q, name)})
OwnTable(p, name) ==
    FirstOf({q \in Simulations :
                SameData(p, q, name) /\ SameInputs(setup[p], setup[q], name)})

Name(p) ==
    IF pc[p] = "train" THEN TrainedModels(setup[p])[next_model[p]]
    ELSE PredictedModels(setup[p])[next_model[p]]

File(p) == IF pc[p] = "train" THEN ModelFile(p, Name(p)) ELSE PredictionFile(p, Name(p))

NoWriter(file) == \A q \in Simulations : writing[q] # file
Exists(file) == \E x \in files : x.file = file
Content(file) == (CHOOSE x \in files : x.file = file).content
Written(file, content) ==
    {x \in files : x.file # file} \cup {[file |-> file, content |-> content]}

NotWriting == [kind |-> "none"]
Computing == [kind |-> "computing"]
Running(p) == pc[p] \in {"train", "predict"}

Progress(p) ==
    next_model[p] + IF pc[p] = "train" THEN 0 ELSE Len(TrainedModels(setup[p]))

(* A simulation looks for the next file.  (Bound: it is not far ahead.)     *)
Working(p) ==
    /\ Running(p) /\ writing[p] = NotWriting
    /\ \A q \in Simulations : Running(q) => Progress(p) <= Progress(q) + Lead

With(table, name, content) ==
    [x \in DOMAIN table \cup {name} |-> IF x = name THEN content ELSE table[x]]

(* What p has for the model it is at, and the step after it. *)
Obtained(p, content) ==
    LET name == Name(p)
        last == next_model[p] = Len(IF pc[p] = "train" THEN TrainedModels(setup[p])
                                    ELSE PredictedModels(setup[p]))
    IN  /\ IF pc[p] = "train"
           THEN /\ models' = [models EXCEPT ![p] = With(@, name, content)]
                /\ UNCHANGED predictions
           ELSE /\ predictions' = [predictions EXCEPT ![p] = With(@, name, content)]
                /\ UNCHANGED models
        /\ next_model' = [next_model EXCEPT ![p] = IF last THEN 1 ELSE @ + 1]
        /\ pc' = [pc EXCEPT ![p] = IF ~last THEN @
                                   ELSE IF @ = "train" THEN "predict" ELSE "ready"]

Init ==
    /\ setup = [p \in Simulations |-> Unconfigured]
    /\ pc = [p \in Simulations |-> "waiting"]
    /\ next_model = [p \in Simulations |-> 1]
    /\ writing = [p \in Simulations |-> NotWriting]
    /\ files = {}
    /\ models = [p \in Simulations |-> <<>>]
    /\ predictions = [p \in Simulations |-> <<>>]
    /\ killed = {}

(* The simulations start together; the time they take to come to the cache  *)
(* differs.                                                                 *)
Launch ==
    /\ \A p \in Simulations : pc[p] = "waiting"
    /\ setup' \in Setups
    /\ pc' = [p \in Simulations |-> "train"]
    /\ UNCHANGED <<profiles, next_model, writing, files, models, predictions, killed>>

(* Seeded fault: a file is read without the reader's lock. *)
LoadWithoutLock(p) ==
    /\ Working(p)
    /\ ~setup[p].no_cache
    /\ Exists(File(p))
    /\ IF Content(File(p)) = Torn
       THEN /\ pc' = [pc EXCEPT ![p] = "torn file"]
            /\ UNCHANGED <<next_model, models, predictions>>
       ELSE Obtained(p, Content(File(p)))
    /\ UNCHANGED <<profiles, setup, writing, files, killed>>

(* _load_model_from_cache and _load_model_predication_cache find the file.  *)
Load(p) ==
    /\ Working(p)
    /\ ~setup[p].no_cache
    /\ NoWriter(File(p))
    /\ Exists(File(p))
    /\ IF Content(File(p)) = Torn
       THEN /\ pc' = [pc EXCEPT ![p] = "torn file"]
            /\ UNCHANGED <<next_model, models, predictions>>
       ELSE Obtained(p, Content(File(p)))
    /\ UNCHANGED <<profiles, setup, writing, files, killed>>

(* No file: without enough data the model cannot be trained; otherwise it   *)
(* is trained, or the predictions are computed, and looking at the cache is *)
(* over.                                                                    *)
Miss(p) ==
    /\ Working(p)
    /\ NoWriter(File(p))
    /\ setup[p].no_cache \/ ~Exists(File(p))
    /\ pc[p] = "train" => CanTrain(Data(p, Name(p)))
    /\ writing' = [writing EXCEPT ![p] = Computing]
    /\ UNCHANGED <<profiles, setup, pc, next_model, files, models,
                   predictions, killed>>

NoData(p) ==
    /\ Working(p)
    /\ pc[p] = "train"
    /\ NoWriter(File(p))
    /\ setup[p].no_cache \/ ~Exists(File(p))
    /\ ~CanTrain(Data(p, Name(p)))
    /\ pc' = [pc EXCEPT ![p] = "no data"]
    /\ UNCHANGED <<profiles, setup, next_model, writing, files,
                   models, predictions, killed>>

(* The file is opened, and so emptied, under the writer's lock. *)
Open(p) ==
    /\ writing[p] = Computing
    /\ NoWriter(File(p))
    /\ writing' = [writing EXCEPT ![p] = File(p)]
    /\ files' = Written(File(p), Torn)
    /\ UNCHANGED <<profiles, setup, pc, next_model, models,
                   predictions, killed>>

Close(p) ==
    LET mine == IF pc[p] = "train" THEN OwnModel(p, Name(p)) ELSE OwnTable(p, Name(p))
    IN  /\ writing[p] \notin {NotWriting, Computing}
        /\ files' = Written(File(p), mine)
        /\ writing' = [writing EXCEPT ![p] = NotWriting]
        /\ Obtained(p, mine)
        /\ UNCHANGED <<profiles, setup, killed>>

(* The operating system releases the lock of a process that is killed.      *)
Kill(p) ==
    /\ Cardinality(killed) < Kills
    /\ pc[p] \in {"train", "predict"}
    /\ killed' = killed \cup {p}
    /\ pc' = [pc EXCEPT ![p] = "killed"]
    /\ writing' = [writing EXCEPT ![p] = NotWriting]
    /\ UNCHANGED <<profiles, setup, next_model, files, models,
                   predictions>>

Step(p) == Load(p) \/ Miss(p) \/ NoData(p) \/ Open(p) \/ Close(p)

-----------------------------------------------------------------------------
(* Properties. *)

Ended(p) == pc[p] \in {"ready", "torn file", "no data", "killed"}

(* A simulation only fails over a file of the cache that another left       *)
(* half-written because it was killed: never because it reads while another *)
(* writes.                                                                  *)
NoTornRead == \A p \in Simulations : pc[p] = "torn file" => killed # {}

(* The tables of p and q have one name, and differ in no more than it leaves *)
(* out: the granularity and the tokens of a request of the attention's, and  *)
(* whether the stages that send_recv connects span nodes.                    *)
Confused(p, q, name) ==
    /\ ToDict(setup[p]) = ToDict(setup[q])
    /\ SameNamedInputs(setup[p], setup[q], name)
    /\ name # "send_recv" => SameData(p, q, name)

(* What a simulation has trained or loaded are models of its own data.  What *)
(* it has computed or loaded are predictions of such models over the inputs  *)
(* it would have computed itself, or those of a simulation that only differs *)
(* in what the names of the tables leave out.                                *)
FreshPredictions ==
    \A p \in Simulations :
        /\ \A name \in DOMAIN models[p] : models[p][name] = OwnModel(p, name)
        /\ \A name \in DOMAIN predictions[p] :
                \E q \in Simulations :
                    Confused(p, q, name) /\ predictions[p][name] = OwnTable(q, name)

(* Every simulation that is not killed gets its predictions or fails. *)
AllEnd == \A p \in Simulations : <>Ended(p)

-----------------------------------------------------------------------------
(* The inductive invariants. *)

Names(p) == IF pc[p] = "train" THEN TrainedModels(setup[p]) ELSE PredictedModels(setup[p])

(* A simulation that writes has the file of the model it is at open, and no *)
(* other; one that failed over a torn file did so after a kill.             *)
SimulationInv(p) ==
    /\ pc[p] \in {"train", "predict", "ready", "torn file", "no data", "killed"}
    /\ pc[p] = "torn file" => killed # {}
    /\ Running(p) => next_model[p] \in 1 .. Len(Names(p))
    /\ writing[p] # NotWriting => Running(p) /\ writing[p] \in {Computing, File(p)}

(* A file that is not whole is being written, or its writer was killed.     *)
TornInv(x) == x.content = Torn => killed # {} \/ \E p \in Simulations : writing[p] = x.file

CacheInv ==
    /\ setup \in Setups
    /\ DOMAIN pc = Simulations /\ DOMAIN next_model = Simulations
    /\ DOMAIN writing = Simulations
    /\ DOMAIN models = Simulations /\ DOMAIN predictions = Simulations
    /\ \A p \in Simulations : SimulationInv(p)
    /\ \A x \in files : x.file.kind \in {"model", "predictions"} /\ TornInv(x)

(* A simulation that lacks data does so for the model it was to train.      *)
ShortInv(p) ==
    pc[p] = "no data" =>
        /\ next_model[p] \in 1 .. Len(TrainedModels(setup[p]))
        /\ ~CanTrain(Data(p, TrainedModels(setup[p])[next_model[p]]))

(* A whole file is what any simulation that looks for it would compute, but *)
(* for what its name leaves out.                                            *)
ContentInv(x) ==
    x.content # Torn =>
        \A p \in Simulations :
            /\ \A name \in Range(TrainedModels(setup[p])) :
                    x.file = ModelFile(p, name) => x.content = OwnModel(p, name)
            /\ \A name \in Range(PredictedModels(setup[p])) :
                    x.file = PredictionFile(p, name) =>
                        \E q \in Simulations :
                            Confused(p, q, name) /\ x.content = OwnTable(q, name)

FreshInv == FreshPredictions /\ \A x \in files : ContentInv(x)
=============================================================================
