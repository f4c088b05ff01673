------------------------------ MODULE Offline ------------------------------
(***************************************************************************)
(* From the profiles to the predictions: the collectives are profiled on a *)
(* cluster, the rows become part of the profiles, and simulations that     *)
(* share a cache train their predictors on them.                           *)
(***************************************************************************)
EXTENDS PredictorCache

CONSTANTS
    NumNodes, GpusPerNode, Combinations, Collectives, CollectiveSizes,
    OtherProfiles     \* the profiles of the kernels and of the CPU

VARIABLES inputs, position, runner, group, last, rows, todo

profilerVars == <<inputs, position, runner, group, last, rows, todo>>
allVars == <<vars, profilerVars>>

P == INSTANCE CollectiveProfiler WITH pc <- runner

ASSUME CollectivesAssumption == P!CombinationsFit

ASSUME ProfilesAssumption == {"all_reduce", "send_recv"} \subseteq DOMAIN OtherProfiles

WithCollectives(r) ==
    [OtherProfiles EXCEPT !.all_reduce = {x \in r : x.collective = "all_reduce"},
                          !.send_recv = {x \in r : x.collective = "send_recv"}]

OfflineInit ==
    /\ P!Init /\ Init
    /\ profiles = WithCollectives({})

Profile ==
    /\ P!Next
    /\ profiles' = WithCollectives(rows')
    /\ UNCHANGED cacheVars

LaunchAll == P!Over /\ Launch /\ UNCHANGED profilerVars
Simulate(p) == P!Over /\ Step(p) /\ UNCHANGED profilerVars

BeKilled(p) == P!Over /\ Kill(p) /\ UNCHANGED profilerVars

OfflineNext ==
    \/ Profile
    \/ LaunchAll
    \/ \E p \in Simulations : Simulate(p) \/ BeKilled(p)

OfflineSpec ==
    /\ OfflineInit /\ [][OfflineNext]_allVars
    /\ WF_allVars(Profile) /\ WF_allVars(LaunchAll)
    /\ \A p \in Simulations : WF_allVars(Simulate(p))

-----------------------------------------------------------------------------
(* Properties. *)

(* The runners of collectives/benchmark_runner.py never run a collective in  *)
(* a process group of another input.                                         *)
GroupIsTheInput == P!GroupIsTheInput

(* The rows of the collectives suffice for every simulation whose degree of  *)
(* tensor parallelism was profiled on a node, and, when its pipeline spans   *)
(* nodes, on a cluster of several nodes that was also profiled with one      *)
(* worker per node: what it is short of is never a collective.               *)
CollectivesSuffice ==
    \A p \in Simulations :
        /\ pc[p] = "no data"
        /\ setup[p].tp \in Range(Combinations)
        /\ IF IsMultiNode(setup[p]) THEN 1 \in Range(Combinations) /\ NumNodes > 1
           ELSE 2 \in Range(Combinations)
        => TrainedModels(setup[p])[next_model[p]] \notin {"all_reduce", "send_recv"}

-----------------------------------------------------------------------------
(* The inductive invariants: before the profiles are complete no simulation  *)
(* has started, and then they do not change.                                 *)
CacheSafe == Init \/ (P!Over /\ CacheInv)
CacheFresh == Init \/ (P!Over /\ CacheInv /\ FreshInv)

(* The profiles are those of the collectives that were run so far.          *)
ProfilesSafe ==
    /\ P!ProfilerInv /\ P!RowsInv
    /\ profiles = WithCollectives(rows)
    /\ Init \/ \A p \in Simulations : ShortInv(p)

(* Both collectives are profiled, with sizes that differ. *)
BothProfiled ==
    /\ {"all_reduce", "send_recv"} \subseteq Collectives
    /\ \E a, b \in Range(CollectiveSizes) : a # b
=============================================================================
