------------------------- MODULE CollectiveProfiler -------------------------
(***************************************************************************)
(* profiling/collectives: one runner per GPU of a Ray cluster; the driver  *)
(* calls all runners with the same input and waits for all of them before  *)
(* the next.  A runner that takes part in the input joins the process      *)
(* group of its workers, or keeps the one of the input before, and runs    *)
(* the collective with them.                                               *)
(***************************************************************************)
EXTENDS Profiling, SequencesExt

CONSTANTS
    NumNodes,         \* nodes of the cluster
    GpusPerNode,      \* GPUs of each node
    Combinations,     \* --num_workers_per_node_combinations
    Collectives,      \* collectives a user may profile, one per run
    CollectiveSizes   \* sizes of at most --max_collective_size, ascending

TotalGpus == NumNodes * GpusPerNode
Gpus == 0 .. TotalGpus - 1

(* A combination that is larger than a node or does not divide it fails the *)
(* assertions of _get_rank: the user asks for those that fit.               *)
CombinationsFit ==
    /\ NumNodes \in Nat \ {0} /\ GpusPerNode \in Nat \ {0}
    /\ Combinations \in Seq(Nat)
    /\ \A n \in Range(Combinations) : n \in 1 .. GpusPerNode /\ GpusPerNode % n = 0
    /\ Collectives \subseteq {"all_reduce", "send_recv"}
    /\ CollectiveSizes \in Seq(Nat)

VARIABLES
    inputs,      \* collectives_inputs, in the order they are run
    position,    \* the input that is run
    pc,          \* what each runner does with it
    group,       \* the process group a runner is in, NoGroup when in none
    last,        \* _last_num_workers and _last_num_workers_per_node
    rows,        \* the rows of the csv files
    todo         \* collectives that are still to be profiled

vars == <<inputs, position, pc, group, last, rows, todo>>

NoGroup == [comm_id |-> 0]
Never == <<0, 0>>

-----------------------------------------------------------------------------
(* CollectivesInput.is_valid *)
ValidCollective(workers, per_node, collective) ==
    /\ workers # 1
    /\ collective = "send_recv" => workers = 2
    /\ workers > per_node => workers % per_node = 0
    /\ workers <= TotalGpus
    /\ workers \div per_node <= NumNodes

(* Seeded fault: a size is run with every pair of counts before the next.   *)
InputsBySize(order, collective) ==
    LET all(k) == FlattenSeq([i \in DOMAIN order |-> [j \in DOMAIN Combinations |->
                    [workers |-> order[i], per_node |-> Combinations[j],
                     size |-> CollectiveSizes[k], collective |-> collective]]])
    IN  SelectSeq(FlattenSeq([k \in DOMAIN CollectiveSizes |-> all(k)]),
                  LAMBDA x : ValidCollective(x.workers, x.per_node, collective))

(* get_collectives_inputs for one order of the set of worker counts: the    *)
(* sizes of a pair of counts are run one after the other.                   *)
CollectiveInputs(order, collective) ==
    LET sizes(workers, per_node) ==
            IF ValidCollective(workers, per_node, collective)
            THEN [k \in DOMAIN CollectiveSizes |->
                    [workers |-> workers, per_node |-> per_node,
                     size |-> CollectiveSizes[k], collective |-> collective]]
            ELSE <<>>
    IN  FlattenSeq(FlattenSeq([i \in DOMAIN order |-> [j \in DOMAIN Combinations |->
            sizes(order[i], Combinations[j])]]))

WorkerCounts == {n * k : n \in Range(Combinations), k \in 1 .. NumNodes}

(* _get_rank: -1 for a GPU that takes no part. *)
Rank(gpu, input) ==
    LET node == gpu \div GpusPerNode
        local == gpu % GpusPerNode
    IN  IF node >= input.workers \div input.per_node \/ local >= input.per_node
        THEN -1
        ELSE node * input.per_node + local

Input == inputs[position]
(* Seeded fault: a group is kept when only the workers per node differ.     *)
DiffersInWorkers(gpu, input) == last[gpu][1] # input.workers

Pair(input) == <<input.workers, input.per_node>>
Differs(gpu, input) == last[gpu] # Pair(input)

Idle ==
    /\ inputs = <<>>
    /\ position = 1
    /\ pc = [g \in Gpus |-> "called"]
    /\ group = [g \in Gpus |-> NoGroup]
    /\ last = [g \in Gpus |-> Never]

Init == Idle /\ rows = {} /\ todo = Collectives

(* main for one collective, with the inputs and a runner on every GPU.  A   *)
(* set of worker counts is read in some order.                              *)
Start(c) ==
    /\ inputs = <<>> /\ c \in todo
    /\ \E order \in SetToSeqs(WorkerCounts) : inputs' = CollectiveInputs(order, c)
    /\ todo' = todo \ {c}
    /\ UNCHANGED <<position, pc, group, last, rows>>

(* run_collective up to init_process_group: a runner leaves the group of    *)
(* another pair of counts before it looks whether it takes part.            *)
Begin(g) ==
    /\ inputs # <<>> /\ pc[g] = "called"
    /\ group' = [group EXCEPT ![g] = IF Differs(g, Input) THEN NoGroup ELSE @]
    /\ pc' = [pc EXCEPT ![g] =
                IF Rank(g, Input) = -1 THEN "done"
                ELSE IF Differs(g, Input) THEN "joining" ELSE "ready"]
    /\ UNCHANGED <<inputs, position, last, rows, todo>>

(* init_process_group returns when world_size runners have come.            *)
JoinGroup ==
    LET joining == {g \in Gpus : pc[g] = "joining"}
    IN  /\ inputs # <<>>
        /\ Cardinality(joining) = Input.workers
        /\ group' = [g \in Gpus |->
                IF g \in joining
                THEN [comm_id |-> position, rank |-> Rank(g, Input), size |-> Input.workers]
                ELSE group[g]]
        /\ last' = [g \in Gpus |-> IF g \in joining THEN Pair(Input) ELSE last[g]]
        /\ pc' = [g \in Gpus |-> IF g \in joining THEN "ready" ELSE pc[g]]
        /\ UNCHANGED <<inputs, position, rows, todo>>

(* What rank 0 measures of an input. *)
Row(input) ==
    [num_workers |-> input.workers, size |-> 2 * input.size,
     collective |-> input.collective, devices_per_node |-> input.per_node]

Members(comm_id) == {g \in Gpus : group[g].comm_id = comm_id}

(* The barrier and the collectives of a group: each member must be there.   *)
RunCollective(g) ==
    /\ inputs # <<>>
    /\ pc[g] = "ready" /\ group[g] # NoGroup
    /\ \A h \in Members(group[g].comm_id) : pc[h] = "ready"
    /\ Cardinality(Members(group[g].comm_id)) = group[g].size
    /\ pc' = [h \in Gpus |->
                IF h \in Members(group[g].comm_id) THEN "done" ELSE pc[h]]
    /\ rows' = IF 0 \in Members(group[g].comm_id)
               THEN rows \cup {Row(Input)} ELSE rows
    /\ UNCHANGED <<inputs, position, group, last, todo>>

(* The driver has the results of all GPUs.  After the last input the runners *)
(* and their groups are gone.                                               *)
NextInput ==
    /\ inputs # <<>>
    /\ \A g \in Gpus : pc[g] = "done"
    /\ pc' = [g \in Gpus |-> "called"]
    /\ IF position < Len(inputs)
       THEN /\ position' = position + 1
            /\ UNCHANGED <<inputs, group, last>>
       ELSE /\ position' = 1 /\ inputs' = <<>>
            /\ group' = [g \in Gpus |-> NoGroup]
            /\ last' = [g \in Gpus |-> Never]
    /\ UNCHANGED <<rows, todo>>

Next ==
    \/ \E c \in Collectives : Start(c)
    \/ \E g \in Gpus : Begin(g) \/ RunCollective(g)
    \/ JoinGroup
    \/ NextInput

Over == todo = {} /\ inputs = <<>>

-----------------------------------------------------------------------------
(* A runner that is about to run a collective is in a group of exactly the   *)
(* workers of this input, under the rank this input gives it: whatever       *)
(* inputs came before, nobody works in a group of another input, which the   *)
(* others would wait for forever.                                            *)
GroupIsTheInput ==
    \A g \in Gpus : pc[g] = "ready" =>
        /\ group[g] # NoGroup
        /\ group[g].rank = Rank(g, Input) /\ group[g].size = Input.workers
        /\ {Rank(h, Input) : h \in {h \in Gpus : group[h] # NoGroup /\
                                            group[h].comm_id = group[g].comm_id}}
             = 0 .. Input.workers - 1

-----------------------------------------------------------------------------
(* The inductive invariants. *)

(* A pair of counts is not asked for again after others. *)
CombinationsDiffer == IsInjective(Combinations)

ValidInputs(c) ==
    {x \in [workers : WorkerCounts, per_node : Range(Combinations),
            size : Range(CollectiveSizes), collective : {c}] :
        ValidCollective(x.workers, x.per_node, c)}

TakesPart(g, input) == Rank(g, input) # -1

(* The group a runner is in is one of an input it took part in, and the     *)
(* last it joined.  As long as the counts do not change, it is in a group   *)
(* with all that take part.                                                 *)
RunnerInv(g) ==
    /\ pc[g] \in {"called", "joining", "ready", "done"}
    /\ group[g] # NoGroup =>
        \E p \in 1 .. position :
            /\ TakesPart(g, inputs[p]) /\ last[g] = Pair(inputs[p])
            /\ group[g] = [comm_id |-> p, rank |-> Rank(g, inputs[p]),
                           size |-> inputs[p].workers]
    /\ last[g] # Never => \E p \in 1 .. position : last[g] = Pair(inputs[p])
    /\ ~Differs(g, Input) =>
        /\ group[g] # NoGroup
        /\ \A h \in Gpus : TakesPart(h, Input) => group[h].comm_id = group[g].comm_id
    /\ pc[g] = "joining" => TakesPart(g, Input) /\ Differs(g, Input)
    /\ pc[g] = "ready" => TakesPart(g, Input) /\ ~Differs(g, Input)

Busy ==
    /\ \E c \in Collectives : \E order \in SetToSeqs(WorkerCounts) :
            inputs = CollectiveInputs(order, c)
    /\ position \in 1 .. Len(inputs)
    /\ DOMAIN pc = Gpus /\ DOMAIN group = Gpus /\ DOMAIN last = Gpus
    /\ \A g \in Gpus : RunnerInv(g)

ProfilerInv == Idle \/ Busy

(* An input in which GPU 0 takes part has its row, or is still to be run.   *)
RowsInv ==
    /\ IsFiniteSet(rows)
    /\ \A c \in Collectives \ todo : \A x \in ValidInputs(c) :
        \/ ~TakesPart(0, x)
        \/ Row(x) \in rows
        \/ \E p \in position .. Len(inputs) :
                inputs[p] = x /\ (p = position => pc[0] # "done")
=============================================================================
