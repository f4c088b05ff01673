------------------------- MODULE SarathiPredictions -------------------------
(***************************************************************************)
(* A Sarathi replica and its execution time predictor: each stage looks up *)
(* the time of each batch in tables that were predicted before the         *)
(* simulation began, for batches of limited size (replica_stage_schduler,  *)
(* on_schedule; base_execution_time_predictor.py).                         *)
(***************************************************************************)
EXTENDS SarathiScheduler

CONSTANT Tables   \* the predictor's configuration, as in the module Predictor

P == INSTANCE Predictor

ASSUME TablesAssumption == Tables.pp = NumStages /\ Tables.granularity > 0

(* A batch as the predictor sees it. *)
Looked(b) ==
    [i \in DOMAIN b |-> [processed |-> req[b[i].id].processed,
                         prefilled |-> req[b[i].id].prefill_complete,
                         tokens |-> b[i].tokens]]

(* No stage ever looks for the time of a batch that is in no table, a       *)
(* KeyError of _get_attention_decode_execution_time or of one of its like,  *)
(* though the tables are made for one request's context and one chunk while *)
(* a batch is looked up by the average context of its decodes, the sum of   *)
(* the contexts of its prefills and the root of their squared chunks        *)
(* (sklearn_execution_time_predictor.py:836-869).                           *)
PredictionsExist ==
    DecodesFit => \A k \in DOMAIN running_batches :
        \A s \in 0 .. NumStages - 1 :
            P!Predicted(Tables, Looked(running_batches[k]), s)
=============================================================================
