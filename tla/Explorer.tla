------------------------------ MODULE Explorer ------------------------------
(***************************************************************************)
(* config_explorer: after the caches have been warmed up, each job gets a  *)
(* CPU core of some node and searches there for the highest load its       *)
(* replicas bear within the service level objective (SLO): it runs the     *)
(* simulator at one load after the other, or takes the result of an        *)
(* earlier run from the directory of the job and the load.                 *)
(***************************************************************************)
EXTENDS JobConfigs, FiniteSets

CONSTANTS
    Config,           \* the configuration of the exploration
    Nodes,            \* the nodes of the Ray cluster, a sequence
    Cores,            \* cores per node that may be assigned
    DiskOf,           \* the file system each node stores results on
    LoadProfiles,     \* how the delays of the jobs' requests may grow with the load
    Outcomes(_),      \* given its arguments, whether a simulation may succeed
    Precision,        \* 100 / --min-search-granularity
    MaxIterations,    \* --max-iterations
    Leftovers,        \* jobs of explorations before this one, of any configuration
    MaxPartial        \* bound: simulations that leave part of a result

ASSUME ExplorerAssumption ==
    /\ Nodes \in Seq(Range(Nodes)) /\ Nodes # <<>> /\ Cores \in Nat \ {0}
    /\ Precision \in Nat \ {0} /\ MaxIterations \in Nat \ {0} /\ MaxPartial \in Nat

VARIABLES
    driver,     \* ConfigExplorer.run: what it does, and with which job next
    table,      \* _core_mapping of the CpuAssignmentManager
    search,     \* the tasks: one per job, and per node and job to warm up
    files,      \* request_scheduling_delay.csv in the directories of the runs
    profile     \* the load profile of each job, those of Leftovers included

vars == <<driver, table, search, files, profile>>

None == -1
NoDir == [key |-> <<>>]
Infinity == 2^29     \* min_qps_over_sla at first, above every load that is tried
Min2(a, b) == IF a <= b THEN a ELSE b
Distance(a, b) == IF a <= b THEN b - a ELSE a - b

Jobs == GenerateJobs(Config)
WarmUps == GenerateUniqueModelJobs(Config)

(* Loads are whole numbers and below what stands for no limit, and a delay  *)
(* within a fraction of the SLO is within the SLO.                          *)
ASSUME LoadAssumption ==
    /\ \A p \in LoadProfiles : \A job \in Range(Jobs) \cup Leftovers :
        LET f == p[job]
        IN  /\ {f.eighth, f.quarter, f.slo} \subseteq Nat
            /\ f.eighth <= f.slo /\ f.quarter <= f.slo /\ f.slo < Infinity
    /\ \A i \in DOMAIN Jobs : 2 * Jobs[i].trace.start_qps \in 0 .. Infinity
    /\ \A i \in DOMAIN Jobs : Jobs[i].trace.start_qps \in Nat

Searches == {[job |-> i, warm |-> FALSE, node |-> 0] : i \in DOMAIN Jobs}
WarmUpTasks(i) == {[job |-> i, warm |-> TRUE, node |-> n] : n \in DOMAIN Nodes}
Tasks == Searches \cup UNION {WarmUpTasks(i) : i \in DOMAIN WarmUps}
Earlier == [job |-> 0, warm |-> FALSE, node |-> 0]  \* a task of an earlier exploration

JobOf(t) == IF t.warm THEN WarmUps[t.job] ELSE Jobs[t.job]
IterationsOf(t) == IF t.warm THEN 1 ELSE MaxIterations

-----------------------------------------------------------------------------
(* Delays.  A profile names the loads up to which the delay of the requests *)
(* is less than an eighth of the SLO's, less than a quarter, within it, and *)
(* at most 500 s.                                                           *)

DelayAt(f, qps) ==
    IF qps <= f.eighth THEN "eighth" ELSE IF qps <= f.quarter THEN "quarter"
    ELSE IF qps <= f.slo THEN "slo" ELSE IF qps <= f.huge THEN "over" ELSE "huge"

Delays == {"eighth", "quarter", "slo", "over", "huge"}
IsUnderSla(delay) == delay \in {"eighth", "quarter", "slo"}

(* The one iteration of a warm-up does not depend on its delay. *)
Delay(job, qps) ==
    IF job \in Range(Jobs) \cup Leftovers THEN DelayAt(profile[job], qps) ELSE "over"

(* get_run_dir, on the disk of the node. *)
RunDir(t, qps) == [disk |-> DiskOf[search[t].node], key |-> Key(JobOf(t)), qps |-> qps]

(* _get_result_file: one of the files that are there, whatever its state. *)
FilesIn(dir) == {f \in files : f.dir = dir}

(* _is_under_sla: the quantile of the rows that are there.  What was written *)
(* of a file so far, or of the requests of a simulation that failed, has a   *)
(* quantile of its own, and none at all before the header is complete.       *)
Readings(f) ==
    IF f.state = "whole" THEN {Delay(f.by, f.dir.qps)} ELSE Delays \cup {"unreadable"}

-----------------------------------------------------------------------------
(* CpuAssignmentManager *)

FreeCores == {c \in (DOMAIN Nodes) \X (1 .. Cores) : ~table[c[1]][c[2]]}

(* get_cpu_core_id: the first free core of the first node that has one. *)
FirstFree ==
    CHOOSE c \in FreeCores : \A d \in FreeCores :
        c[1] < d[1] \/ (c[1] = d[1] /\ c[2] <= d[2])

-----------------------------------------------------------------------------
NotStarted ==
    [pc |-> "not started", node |-> 1, core |-> None, left |-> 0, right |-> 0,
     qps |-> 0, max_qps |-> None, min_over |-> Infinity, iteration |-> 0,
     dir |-> NoDir, huge |-> Infinity]  \* huge: the least load with a huge delay

(* search() before its loop. *)
Started(t, node, core) ==
    [NotStarted EXCEPT !.pc = "searching", !.node = node, !.core = core,
                       !.right = 2 * JobOf(t).trace.start_qps]

(* A result that an earlier exploration left at the first load of a job.    *)
LeftBehind ==
    {[dir |-> [disk |-> DiskOf[n], key |-> Key(j), qps |-> j.trace.start_qps],
      by |-> j, run |-> Earlier, state |-> state] :
        n \in DOMAIN Nodes, j \in Leftovers, state \in {"whole", "partial"}}

Init ==
    /\ driver = [phase |-> IF WarmUps = <<>> THEN "map" ELSE "warm up", next |-> 1]
    /\ table = [n \in DOMAIN Nodes |-> [c \in 1 .. Cores |-> FALSE]]
    /\ search = [t \in Tasks |-> NotStarted]
    /\ profile \in LoadProfiles
    /\ files \in {{}} \cup {{f} : f \in LeftBehind}

Ended(t) == search[t].pc \in {"done", "crashed"}

(* _warmup_cache: all nodes search the same job; one that crashes ends the  *)
(* exploration.  The assertion on the results is never false: a result is   *)
(* a dictionary that is not empty.  What was found is forgotten.            *)
LaunchWarmUp ==
    /\ driver.phase = "warm up"
    /\ \A t \in WarmUpTasks(driver.next) : search[t].pc = "not started"
    /\ search' = [t \in Tasks |->
                    IF t \in WarmUpTasks(driver.next) THEN Started(t, t.node, None)
                    ELSE search[t]]
    /\ UNCHANGED <<driver, table, files, profile>>

WarmedUp ==
    /\ driver.phase = "warm up"
    /\ \A t \in WarmUpTasks(driver.next) : Ended(t)
    /\ driver' =
        IF \E t \in WarmUpTasks(driver.next) : search[t].pc = "crashed"
        THEN [driver EXCEPT !.phase = "failed"]
        ELSE IF driver.next < Len(WarmUps) THEN [driver EXCEPT !.next = @ + 1]
        ELSE [phase |-> "map", next |-> 1]
    /\ search' = [t \in Tasks |->
                    IF t \in WarmUpTasks(driver.next) THEN [NotStarted EXCEPT !.pc = search[t].pc]
                    ELSE search[t]]
    /\ UNCHANGED <<table, files, profile>>

(* RayParallelRunner.map: the driver asks for a core until it gets one.     *)
LaunchSearch ==
    /\ driver.phase = "map"
    /\ driver.next \in DOMAIN Jobs
    /\ FreeCores # {}
    /\ LET core == FirstFree
           t == [job |-> driver.next, warm |-> FALSE, node |-> 0]
       IN  /\ table' = [table EXCEPT ![core[1]][core[2]] = TRUE]
           /\ search' = [search EXCEPT ![t] = Started(t, core[1], core[2])]
    /\ driver' = [driver EXCEPT !.next = @ + 1]
    /\ UNCHANGED <<files, profile>>

(* ray.get(promises): the first task that failed fails the driver.          *)
Collect ==
    /\ driver.phase = "map"
    /\ driver.next \notin DOMAIN Jobs
    /\ \E phase \in {"done", "failed"} :
        /\ phase = "done" => \A t \in Searches : search[t].pc = "done"
        /\ phase = "failed" =>
              \E t \in Searches : /\ search[t].pc = "crashed"
                                  /\ \A u \in Searches : u.job < t.job => Ended(u)
        /\ driver' = [driver EXCEPT !.phase = phase]
    /\ UNCHANGED <<table, search, files, profile>>

-----------------------------------------------------------------------------
(* One task. *)

Stops(t) ==
    LET s == search[t]
    IN  \/ s.iteration = IterationsOf(t)
        \/ Precision * Distance(s.left, s.right) < s.qps

(* Seeded fault: a load near the right bound does not move it. *)
NarrowedOnly(s, d) ==
    IF IsUnderSla(d)
    THEN [s EXCEPT !.max_qps = s.qps, !.left = s.qps,
                   !.right = IF d = "eighth" THEN Min2(4 * @, s.min_over)
                             ELSE IF d = "quarter" THEN Min2(2 * @, s.min_over) ELSE @]
    ELSE [s EXCEPT !.min_over = Min2(@, s.qps),
                   !.huge = IF d = "huge" THEN Min2(@, s.qps) ELSE @,
                   !.right = IF d = "huge" THEN s.qps \div 2 ELSE s.qps]

(* The rest of an iteration: the interval after the delay d at load qps.    *)
Narrowed(s, d) ==
    IF IsUnderSla(d)
    THEN [s EXCEPT
            !.max_qps = s.qps,
            !.left = s.qps,
            !.right = IF d = "eighth" THEN Min2(4 * @, s.min_over)
                      ELSE IF d = "quarter" \/ 5 * s.qps > 4 * @
                      THEN Min2(2 * @, s.min_over)
                      ELSE @]
    ELSE [s EXCEPT
            !.min_over = Min2(@, s.qps),
            !.right = IF d = "huge" THEN s.qps \div 2 ELSE s.qps,
            !.huge = IF d = "huge" THEN Min2(@, s.qps) ELSE @]

(* A delay was read, and the next iteration begins. *)
Decided(s, d) == [Narrowed(s, d) EXCEPT !.pc = "searching", !.iteration = @ + 1]

(* The task t, which is now s, reads one of the results fs; one that cannot *)
(* be read takes it to pc.                                                  *)
ReadsResult(t, s, fs, pc) ==
    \E f \in fs : \E d \in Readings(f) :
        search' = [search EXCEPT ![t] =
            IF d = "unreadable" THEN [s EXCEPT !.pc = pc] ELSE Decided(s, d)]

(* is_under_sla: a result that is there is read outside of the try block;   *)
(* otherwise the simulator is started.                                      *)
TryQps(t) ==
    LET s == search[t]
        qps == (s.left + s.right) \div 2
        tried == [s EXCEPT !.qps = qps, !.dir = RunDir(t, qps)]
    IN  /\ s.pc = "searching" /\ ~Stops(t)
        /\ \/ /\ FilesIn(RunDir(t, qps)) = {}
              /\ search' = [search EXCEPT ![t] = [tried EXCEPT !.pc = "simulating"]]
           \/ ReadsResult(t, tried, FilesIn(RunDir(t, qps)), "crashed")
        /\ UNCHANGED <<driver, table, files, profile>>

MaySucceed(t) ==
    TRUE \in Outcomes(ArgumentNames(JobOf(t), search[t].qps, search[t].dir, 30))
MayFail(t) ==
    FALSE \in Outcomes(ArgumentNames(JobOf(t), search[t].qps, search[t].dir, 30))

(* The result file of a simulation under way, in a directory of its own     *)
(* below that of the run.                                                   *)
Own(t) == [dir |-> search[t].dir, by |-> JobOf(t), run |-> t, state |-> "writing"]

(* The simulator opens its result file, if it gets that far. *)
WriteResult(t) ==
    /\ search[t].pc = "simulating"
    /\ MaySucceed(t)
    /\ files' = files \cup {Own(t)}
    /\ search' = [search EXCEPT ![t].pc = "writing"]
    /\ UNCHANGED <<driver, table, profile>>

(* It ends, killed while it writes, or with what is written at its exit     *)
(* although it failed, or as it should: its exit status is not looked at,   *)
(* any result that is there is read, and one that cannot be read is caught  *)
(* and ends the search like a run without a result.                         *)
EndSimulation(t) ==
    LET mayBePartial ==
            MayFail(t) /\ Cardinality({f \in files : f.state = "partial"}) < MaxPartial
    IN  /\ search[t].pc = "writing"
        /\ \E state \in {"whole"} \cup (IF mayBePartial THEN {"partial"} ELSE {}) :
                files' = (files \ {Own(t)}) \cup {[Own(t) EXCEPT !.state = state]}
        /\ ReadsResult(t, search[t], {f \in files' : f.dir = search[t].dir}, "breaking")
        /\ UNCHANGED <<driver, table, profile>>

(* It ends without a result; that of another is read as well as its own.    *)
FailSimulation(t) ==
    LET s == search[t]
    IN  /\ s.pc = "simulating"
        /\ MayFail(t)
        /\ \/ /\ FilesIn(s.dir) = {}
              /\ search' = [search EXCEPT ![t].pc = "breaking"]
           \/ ReadsResult(t, s, FilesIn(s.dir), "breaking")
        /\ UNCHANGED <<driver, table, files, profile>>

(* Seeded fault: a search that breaks off returns without its core.         *)
FinishKeepsCore(t) ==
    LET s == search[t]
    IN  /\ s.pc = "breaking" \/ (s.pc = "searching" /\ Stops(t))
        /\ search' = [search EXCEPT ![t].pc = "done"]
        /\ table' = IF s.core = None \/ s.pc = "breaking" THEN table
                    ELSE [table EXCEPT ![s.node][s.core] = FALSE]
        /\ UNCHANGED <<driver, files, profile>>

(* search() after its loop: the core is released. *)
Finish(t) ==
    LET s == search[t]
    IN  /\ s.pc = "breaking" \/ (s.pc = "searching" /\ Stops(t))
        /\ search' = [search EXCEPT ![t].pc = "done"]
        /\ table' = IF s.core = None THEN table
                    ELSE [table EXCEPT ![s.node][s.core] = FALSE]
        /\ UNCHANGED <<driver, files, profile>>

Work(t) ==
    TryQps(t) \/ WriteResult(t) \/ EndSimulation(t) \/ FailSimulation(t) \/ Finish(t)

Drive == LaunchWarmUp \/ WarmedUp \/ LaunchSearch \/ Collect

Next == Drive \/ \E t \in Tasks : Work(t)

Spec == Init /\ [][Next]_vars /\ WF_vars(Drive) /\ \A t \in Tasks : WF_vars(Work(t))

-----------------------------------------------------------------------------
(* Properties. *)

Active(s) == s.pc \notin {"not started", "done"}

(* Tasks that are not done hold the cores that are marked in the table of   *)
(* CpuAssignmentManager, each its own; a core whose task crashed is held    *)
(* for good, and no other is lost.                                          *)
CoresExclusive ==
    /\ \A n \in DOMAIN Nodes, c \in 1 .. Cores :
            table[n][c] <=> \E t \in Searches :
                                /\ Active(search[t])
                                /\ search[t].node = n /\ search[t].core = c
    /\ \A t, u \in Searches :
            /\ Active(search[t]) /\ Active(search[u])
            /\ <<search[t].node, search[t].core>> = <<search[u].node, search[u].core>>
            => t = u

(* The job x, with what its key leaves open as in y: the identifier of the  *)
(* model, the trace file and the number of replicas.                        *)
Completed(x, y) ==
    [model |-> y.model,
     trace |-> [max_seq_len |-> x.trace.max_seq_len, num_requests |-> x.trace.num_requests,
                trace_file |-> y.trace.trace_file],
     cluster |-> x.cluster, scheduler |-> x.scheduler, tp |-> x.tp, pp |-> x.pp,
     batch_size |-> x.batch_size, num_replicas |-> y.num_replicas]

(* The results a task finds in the directory of a run are of simulations    *)
(* with its own arguments, though the directory is named by parts of them   *)
(* and is shared with other tasks; those of an earlier exploration, maybe   *)
(* of another configuration, differ in no more than the key leaves open.    *)
(* And no search finds what another simulation has yet to finish.           *)
ResultsAreOwn ==
    \A t \in Tasks : \A f \in FilesIn(search[t].dir) :
        /\ JobDict(Completed(f.by, JobOf(t))) = JobDict(JobOf(t))
        /\ f.run # Earlier => JobDict(f.by) = JobDict(JobOf(t))
        /\ t \in Searches /\ f.state = "writing" => f.run = t

(* A job's results are spoilt by one of another configuration or by a       *)
(* partial one: nothing compares the first and nothing checks the second.   *)
Spoilt(t) ==
    \E f \in files : /\ f.dir.key = Key(JobOf(t))
                     /\ f.by # JobOf(t) \/ f.state = "partial"

(* "Perform binary search to find the maximum QPS under the SLO"             *)
(* (capacity_search.py:127): a search without spoilt results never returns a *)
(* load above the capacity, and one that ends because its interval is small  *)
(* has found the capacity up to the granularity.  A delay of more than 500 s *)
(* halves the load for the right bound, and where this takes it below the    *)
(* capacity, that may be missed.                                             *)
SearchExact ==
    \A t \in Searches :
        LET s == search[t]
            capacity == profile[JobOf(t)].slo
        IN  s.pc = "done" /\ ~Spoilt(t)
            => /\ s.max_qps <= capacity
               /\ Precision * Distance(s.left, s.right) < s.qps /\ capacity < s.huge \div 2
                    => s.max_qps # None /\ Precision * (capacity - s.max_qps) < s.qps

(* An exploration ends, with results or with an error, unless every core is  *)
(* held by a search that crashed.                                            *)
Lost(n, c) ==
    \E t \in Searches :
        search[t].pc = "crashed" /\ search[t].node = n /\ search[t].core = c

ExplorationEnds ==
    <>(\/ driver.phase \in {"done", "failed"}
       \/ \A n \in DOMAIN Nodes, c \in 1 .. Cores : Lost(n, c))

-----------------------------------------------------------------------------
(* The inductive invariants: what the properties above leave out and their  *)
(* proofs need.                                                             *)

(* Searches are started in the order of their jobs, after the warm-up; one  *)
(* job is warmed up at a time.                                              *)
Quiet(t) == search[t].pc \in {"not started", "done", "crashed"}

DriverInv ==
    /\ driver \in [phase : {"warm up", "map", "done", "failed"}, next : Nat \ {0}]
    /\ driver.phase = "warm up" => \A t \in Searches : search[t].pc = "not started"
    /\ driver.phase = "map" =>
        \A t \in Searches : t.job \notin 1 .. driver.next - 1 => search[t].pc = "not started"

WarmUpInv ==
    \A t \in Tasks \ Searches :
        \/ Quiet(t)
        \/ /\ driver.phase = "warm up" => t.job = driver.next
           /\ driver.phase # "map"
           /\ \A u \in Searches : search[u].pc = "not started"

(* A search has a core of a node, a warm-up has none. *)
AssignedInv ==
    /\ table \in [DOMAIN Nodes -> [1 .. Cores -> BOOLEAN]]
    /\ DOMAIN search = Tasks
    /\ \A t \in Tasks :
        /\ DOMAIN search[t] = DOMAIN NotStarted
        /\ t.warm => search[t].core = None
        /\ ~t.warm /\ Active(search[t]) =>
                search[t].node \in DOMAIN Nodes /\ search[t].core \in 1 .. Cores

CoresInv == DriverInv /\ AssignedInv /\ CoresExclusive

(* The key that names a directory tells the jobs of this exploration apart: *)
(* nothing in the code compares them.                                       *)
KeysNameJobs ==
    /\ \A x, y \in Range(Jobs) \cup Range(WarmUps) : Key(x) = Key(y) => x = y
    /\ \A i, j \in DOMAIN Jobs : Jobs[i] = Jobs[j] => i = j

(* Each result is in a directory with the key of the job that made it, and  *)
(* a task looks into directories of its own key, at the load that it tries. *)
LooksInto(t, s) ==
    /\ s.dir = NoDir \/ s.dir.key = Key(JobOf(t))
    /\ s.pc = "not started" => s.dir = NoDir
    /\ s.pc \in {"simulating", "writing"} =>
            s.dir.key = Key(JobOf(t)) /\ s.dir.qps = s.qps

(* A result of this exploration is of its task, which alone writes it.      *)
OfItsTask(f) ==
    /\ f = [dir |-> f.dir, by |-> f.by, run |-> f.run, state |-> f.state]
    /\ f.state \in {"writing", "whole", "partial"}
    /\ f.dir.key = Key(f.by)
    /\ f.run # Earlier => f.run \in Tasks /\ f.by = JobOf(f.run)
    /\ f.state = "writing" =>
            /\ f.run \in Tasks /\ f.by = JobOf(f.run)
            /\ search[f.run].pc = "writing" /\ search[f.run].dir = f.dir

DirsInv ==
    /\ \A f \in files : OfItsTask(f)
    /\ \A t \in Tasks : LooksInto(t, search[t])

(* The left bound is the largest load that was fine, and the capacity is at *)
(* most the right one - or that is so far from the left one that the search *)
(* cannot end.                                                              *)
Bracketed(s, capacity) ==
    /\ s.left <= s.right /\ s.right <= s.min_over
    /\ s.qps <= 2 * s.right + 1 /\ (s.right = 0 => s.qps = 0)
    /\ s.left <= capacity /\ capacity < s.min_over
    /\ s.max_qps = s.left \/ (s.max_qps = None /\ s.left = 0)
    /\ capacity <= s.right \/ (5 * s.left <= 4 * s.right /\ s.qps <= s.right)

(* A delay of more than 500 s may take the right bound below the capacity.  *)
Misled(s, capacity) == s.huge \div 2 <= capacity

Sound(s, capacity) ==
    /\ {s.left, s.right, s.qps, s.min_over, s.huge} \subseteq Nat
    /\ s.max_qps \in Int /\ s.max_qps <= capacity
    /\ s.pc \in {"simulating", "writing"} => s.qps = (s.left + s.right) \div 2
    /\ Misled(s, capacity) \/ Bracketed(s, capacity)

SearchInv ==
    /\ profile \in LoadProfiles
    /\ \A t \in Searches : Spoilt(t) \/ Sound(search[t], profile[JobOf(t)].slo)

(* capacity_search.py:115: after a simulation there is a result file.        *)
ResultFileFound == \A t \in Tasks : search[t].pc # "breaking"
=============================================================================
