----------------------------- MODULE Simulator -----------------------------
(***************************************************************************)
(* The discrete-event simulator (src/vidur/simulator.py) with everything   *)
(* its events drive: the event heap, the global scheduler, the replicas'   *)
(* schedulers (Orca's policy), the pipeline stages of each replica and the *)
(* times the requests record.                                              *)
(***************************************************************************)
EXTENDS RequestEntity, RequestTimes, FiniteSets, SequencesExt

CONSTANTS
    NumRequests,      \* requests of the request generator
    ArrivedAt,        \* their arrival times
    PrefillLens,      \* prompt lengths the generator may draw
    DecodeLens,       \* output lengths the generator may draw
    NumReplicas,      \* replicas of the cluster
    NumStages,        \* pipeline stages of a replica
    MaxBatchSize,     \* _max_batch_size
    Slots,            \* num_blocks \div _max_blocks_per_sequence
    ExecutionTimes,   \* times the predictor may give a batch in a stage
    TimeLimits,       \* time limits the configuration may set
    Policies          \* global schedulers the configuration may choose

Requests == 1 .. NumRequests
Replicas == 0 .. NumReplicas - 1
Stages == 0 .. NumStages - 1

ASSUME SimulatorAssumption ==
    /\ NumRequests \in Nat
    /\ ArrivedAt \in [Requests -> Nat]
    /\ PrefillLens \subseteq Nat \ {0}
    /\ DecodeLens \subseteq Nat \ {0}
    /\ NumReplicas \in Nat \ {0}
    /\ NumStages \in Nat \ {0}
    /\ MaxBatchSize \in Nat \ {0}
    /\ Slots \in Nat \ {0}
    /\ ExecutionTimes \subseteq Nat \ {0}
    /\ TimeLimits \subseteq Nat
    /\ Policies \subseteq {"round_robin", "random", "lor"}

VARIABLES
    time_limit,        \* _time_limit, 0 when there is none
    policy,            \* the global scheduler
    now,               \* _time
    terminate,         \* _terminate
    event_queue,       \* _event_queue, a set: ids make its order total
    last_id,           \* BaseEvent._id
    global_queue,      \* _request_queue of the global scheduler
    request_counter,   \* _request_counter of the round-robin scheduler
    scheduler,         \* the replica schedulers
    stage,             \* the replica stage schedulers
    req,               \* the tokens of the requests
    times,             \* the times of the requests
    last_batch_id,     \* Batch._id
    in_flight,         \* history: batches of each replica, in dispatch order
    started_at,        \* history: when the first stage took a request, -1 before
    token_times        \* history: sum of a request's decode token times

config == <<time_limit, policy>>
clock == <<now, terminate>>
global == <<global_queue, request_counter>>
history == <<in_flight, started_at, token_times>>
vars == <<config, clock, event_queue, last_id, global, scheduler, stage, req,
          times, last_batch_id, history>>

-----------------------------------------------------------------------------

(* The sequence q without the elements of S, in their order. *)
Without(q, S) ==
    LET kept[n \in 0 .. Len(q)] ==
            IF n = 0 THEN <<>>
            ELSE IF q[n] \in S THEN kept[n - 1] ELSE Append(kept[n - 1], q[n])
    IN  kept[Len(q)]

-----------------------------------------------------------------------------
(* Events. *)

(* heapq orders the pairs (time, id): the id of an event is unique, and the *)
(* event type that follows in the tuple is never compared.                  *)
Before(e, f) == e.time < f.time \/ (e.time = f.time /\ e.id < f.id)

Running == event_queue # {} /\ ~terminate

(* The event Simulator.run takes next, if it is a call of this type. *)
Popped(type) ==
    {e \in event_queue :
        /\ Running
        /\ e.call.type = type
        /\ \A f \in event_queue \ {e} : Before(e, f)}

At(t, call) == [time |-> t, call |-> call]

(* _set_time: the event that passes the time limit is still handled. *)
SetTime(t) ==
    /\ now' = t
    /\ terminate' = (time_limit # 0 /\ t > time_limit)

(* Events are numbered as they are made. *)
Numbered(events) ==
    {[time |-> events[i].time, id |-> last_id + i, call |-> events[i].call] :
        i \in DOMAIN events}

(* The rest of an iteration of Simulator.run: the clock is set to the time  *)
(* of the event e, and the events its handler made are queued.              *)
Handled(e, events) ==
    /\ SetTime(e.time)
    /\ event_queue' = (event_queue \ {e}) \cup Numbered(events)
    /\ last_id' = last_id + Len(events)
    /\ UNCHANGED config

-----------------------------------------------------------------------------
(* The global scheduler. *)

(* sort_requests: by arrival time, and the sort of Python is stable.  The   *)
(* rank of a place is that of its request in the sorted queue.              *)
Prior(i, j) ==
    LET a == ArrivedAt[global_queue[i]]
        b == ArrivedAt[global_queue[j]]
    IN  a < b \/ (a = b /\ i <= j)
Rank(i) == Cardinality({j \in DOMAIN global_queue : Prior(j, i)})
SortedQueue ==
    [k \in DOMAIN global_queue |->
        global_queue[CHOOSE i \in DOMAIN global_queue : Rank(i) = k]]

(* The replica with the fewest requests in its queue, the first of them. *)
LeastPending(pending) ==
    CHOOSE r \in Replicas : \A q \in Replicas \ {r} :
        pending[r] < pending[q] \/ (pending[r] = pending[q] /\ r < q)

LorPlacement(n) ==
    LET step[k \in 0 .. n] ==
            IF k = 0
            THEN [pending |-> [r \in Replicas |-> Len(scheduler[r].queue)], placed |-> <<>>]
            ELSE LET was == step[k - 1]
                     r == LeastPending(was.pending)
                 IN  [pending |-> [was.pending EXCEPT ![r] = @ + 1],
                      placed |-> Append(was.placed, r)]
    IN  step[n].placed

RoundRobinPlacement(n) == [k \in 1 .. n |-> (request_counter + k - 1) % NumReplicas]

RandomPlacements(n) == [1 .. n -> Replicas]

(* The replicas that schedule() may give the n requests of the queue. *)
Placements(n) ==
    CASE policy = "round_robin" -> {RoundRobinPlacement(n)}
      [] policy = "random" -> RandomPlacements(n)
      [] policy = "lor" -> {LorPlacement(n)}

-----------------------------------------------------------------------------
(* The replica scheduler: OrcaReplicaScheduler. *)

(* The requests of the next batch, in the code's order: preempted requests  *)
(* first, then new ones while there is memory.                              *)
NextBatch(s) ==
    LET resumed == Min({MaxBatchSize, Len(s.preempted)})
        admitted == Min({MaxBatchSize - resumed, Len(s.queue),
                         Slots - Cardinality(s.allocated)})
    IN  SubSeq(s.preempted, 1, resumed) \o SubSeq(s.queue, 1, admitted)

(* Seeded fault: the resumed requests stay preempted. *)
DispatchedKeepsPreempted(s, b) ==
    [queue |-> Without(s.queue, Range(b)),
     preempted |-> s.preempted,
     allocated |-> s.allocated \cup Range(b), running |-> s.running + 1]

(* The scheduler after it returned the batch b. *)
Dispatched(s, b) ==
    [queue |-> Without(s.queue, Range(b)),
     preempted |-> Without(s.preempted, Range(b)),
     allocated |-> s.allocated \cup Range(b), running |-> s.running + 1]

(* on_schedule: batches for the free stages of the pipeline. *)
OnSchedule(s) ==
    LET step[k \in 0 .. NumStages] ==
            IF k = 0 THEN [after |-> s, batches |-> <<>>]
            ELSE LET was == step[k - 1]
                     b == NextBatch(was.after)
                 IN  IF was.after.running < NumStages /\ b # <<>>
                     THEN [after |-> Dispatched(was.after, b),
                           batches |-> Append(was.batches, b)]
                     ELSE was
    IN  step[NumStages]

(* Seeded faults: the running batches are counted down for each request;    *)
(* the requests that are not completed are forgotten; those that are keep   *)
(* their memory.                                                            *)
OnBatchEndOrcaPerRequest(s, ids, done) ==
    [s EXCEPT !.running = @ - Len(ids), !.allocated = @ \ done,
              !.preempted = @ \o Without(ids, done)]
OnBatchEndOrcaForgets(s, ids, done) ==
    [s EXCEPT !.running = @ - 1, !.allocated = @ \ done]
OnBatchEndOrcaLeaks(s, ids, done) ==
    [s EXCEPT !.running = @ - 1,
              !.preempted = @ \o Without(ids, done)]

(* OrcaReplicaScheduler.on_batch_end, for a batch of the requests ids of    *)
(* which those in done are completed.                                       *)
OnBatchEndOrca(s, ids, done) ==
    [s EXCEPT !.running = @ - 1,
              !.allocated = @ \ done,
              !.preempted = @ \o Without(ids, done)]

(* The tokens of a request in its next batch. *)
Entry(r) ==
    [id |-> r, tokens |-> IF req[r].prefill_complete THEN 1 ELSE req[r].prefill]

Members(b) == {b.entries[i].id : i \in DOMAIN b.entries}

(* The time of a decode token, for a request that has started its decode    *)
(* (has_started_decode) and whose batch b ends at time t.                   *)
TokenTime(q, b, t) == t - b.scheduled_at + times[q].iteration_delay
HasStartedDecode(r) == r.processed > r.prefill + 1

-----------------------------------------------------------------------------
(* The scheduler of one stage: ReplicaStageScheduler. *)

AddBatch(s, b) == [s EXCEPT !.batch_queue = Append(@, b)]
OnStageEnd(s) == [s EXCEPT !.busy = FALSE]
CanStartBusy(s) == s.batch_queue # <<>>   \* seeded fault: is_busy is not tested
CanStart(s) == ~s.busy /\ s.batch_queue # <<>>
Started(s) == [batch_queue |-> Tail(s.batch_queue), busy |-> TRUE]

-----------------------------------------------------------------------------

(* Simulator.__init__: the requests are generated, their arrivals queued.   *)
Init ==
    /\ time_limit \in TimeLimits
    /\ policy \in Policies
    /\ now = 0
    /\ terminate = FALSE
    /\ event_queue =
        {[time |-> ArrivedAt[r], id |-> r,
          call |-> [type |-> "request_arrival", request |-> r]] : r \in Requests}
    /\ last_id = NumRequests
    /\ global_queue = <<>>
    /\ request_counter = 0
    /\ scheduler = [r \in Replicas |->
            [queue |-> <<>>, preempted |-> <<>>, allocated |-> {}, running |-> 0]]
    /\ stage = [r \in Replicas |-> [s \in Stages |-> [batch_queue |-> <<>>, busy |-> FALSE]]]
    /\ \E p \in [Requests -> PrefillLens], d \in [Requests -> DecodeLens] :
            req = [r \in Requests |-> NewRequest(p[r], d[r])]
    /\ times = [r \in Requests |-> NewTimes(ArrivedAt[r])]
    /\ last_batch_id = -1
    /\ in_flight = [r \in Replicas |-> <<>>]
    /\ started_at = [r \in Requests |-> -1]
    /\ token_times = [r \in Requests |-> 0]

RequestArrival ==
    \E e \in Popped("request_arrival") :
        /\ global_queue' = Append(global_queue, e.call.request)
        /\ Handled(e, <<At(e.time, [type |-> "global_schedule"])>>)
        /\ UNCHANGED <<request_counter, scheduler, stage, req, times, last_batch_id, history>>

(* The events are made for a Python set of replicas, in any order. *)
GlobalSchedule ==
    \E e \in Popped("global_schedule") :
        \E placed \in Placements(Len(global_queue)) :
            \E order \in SetToSeqs(Range(placed)) :
                /\ scheduler' = [r \in Replicas |->
                        LET mine == Without([k \in DOMAIN placed |-> k],
                                            {k \in DOMAIN placed : placed[k] # r})
                        IN  [scheduler[r] EXCEPT !.queue =
                                @ \o [k \in DOMAIN mine |-> SortedQueue[mine[k]]]]]
                /\ global_queue' = <<>>
                /\ request_counter' = IF policy = "round_robin"
                        THEN request_counter + Len(global_queue) ELSE request_counter
                /\ Handled(e, [k \in DOMAIN order |->
                        At(e.time, [type |-> "replica_schedule", replica |-> order[k],
                                    cause |-> "arrival"])])
                /\ UNCHANGED <<stage, req, times, last_batch_id, history>>

ReplicaSchedule ==
    \E e \in Popped("replica_schedule") :
        LET r == e.call.replica
            result == OnSchedule(scheduler[r])
            batches == [k \in DOMAIN result.batches |->
                            [id |-> last_batch_id + k,
                             entries |-> [i \in DOMAIN result.batches[k] |->
                                            Entry(result.batches[k][i])],
                             scheduled_at |-> e.time]]
            members == UNION {Range(result.batches[k]) : k \in DOMAIN result.batches}
        IN  /\ scheduler' = [scheduler EXCEPT ![r] = result.after]
            /\ in_flight' = [in_flight EXCEPT ![r] = @ \o batches]
            /\ last_batch_id' = last_batch_id + Len(batches)
            /\ times' = [q \in Requests |->
                    IF q \in members THEN OnBatchSchedule(times[q], e.time) ELSE times[q]]
            /\ Handled(e, [k \in DOMAIN batches |->
                    At(e.time, [type |-> "batch_stage_arrival", replica |-> r,
                                stage |-> 0, batch |-> batches[k]])])
            /\ UNCHANGED <<global, stage, req, started_at, token_times>>

BatchStageArrival ==
    \E e \in Popped("batch_stage_arrival") :
        /\ stage' = [stage EXCEPT ![e.call.replica][e.call.stage] =
                        AddBatch(@, e.call.batch)]
        /\ Handled(e, <<At(e.time, [type |-> "replica_stage_schedule",
                                    replica |-> e.call.replica, stage |-> e.call.stage])>>)
        /\ UNCHANGED <<global, scheduler, req, times, last_batch_id, history>>

(* A busy or an idle stage ignores the event. *)
ReplicaStageSchedule ==
    \E e \in Popped("replica_stage_schedule") :
        LET here == stage[e.call.replica][e.call.stage]
            b == Head(here.batch_queue)
        IN  \/ /\ ~CanStart(here)
               /\ Handled(e, <<>>)
               /\ UNCHANGED <<global, scheduler, stage, req, times, last_batch_id, history>>
            \/ /\ CanStart(here)
               /\ stage' = [stage EXCEPT ![e.call.replica][e.call.stage] = Started(@)]
               /\ times' = [q \in Requests |->
                        IF q \in Members(b)
                        THEN OnBatchStageSchedule(times[q], e.time) ELSE times[q]]
               /\ started_at' = [q \in Requests |->
                        IF q \in Members(b) /\ started_at[q] = -1
                        THEN e.time ELSE started_at[q]]
               /\ \E t \in ExecutionTimes :
                    Handled(e, <<At(e.time + t,
                        [type |-> "batch_stage_end", replica |-> e.call.replica,
                         stage |-> e.call.stage, batch |-> b, execution_time |-> t])>>)
               /\ UNCHANGED <<global, scheduler, req, last_batch_id, in_flight, token_times>>

(* Seeded fault: a stage whose batch ends is not scheduled again. *)
BatchStageEndSilent ==
    \E e \in Popped("batch_stage_end") :
        LET c == e.call
            onward == IF c.stage = NumStages - 1
                      THEN At(e.time, [type |-> "batch_end", replica |-> c.replica,
                                       batch |-> c.batch])
                      ELSE At(e.time, [type |-> "batch_stage_arrival",
                                       replica |-> c.replica, stage |-> c.stage + 1,
                                       batch |-> c.batch])
        IN  /\ stage' = [stage EXCEPT ![c.replica][c.stage] = OnStageEnd(@)]
            /\ Handled(e, <<onward>>)
            /\ UNCHANGED <<global, scheduler, req, times, last_batch_id, history>>

(* The batch leaves the stage, for the next one or after the last one. *)
BatchStageEnd ==
    \E e \in Popped("batch_stage_end") :
        LET c == e.call
            again == At(e.time, [type |-> "replica_stage_schedule",
                                 replica |-> c.replica, stage |-> c.stage])
            onward == IF c.stage = NumStages - 1
                      THEN At(e.time, [type |-> "batch_end", replica |-> c.replica,
                                       batch |-> c.batch])
                      ELSE At(e.time, [type |-> "batch_stage_arrival",
                                       replica |-> c.replica, stage |-> c.stage + 1,
                                       batch |-> c.batch])
        IN  /\ stage' = [stage EXCEPT ![c.replica][c.stage] = OnStageEnd(@)]
            /\ times' = [q \in Requests |->
                    IF q \in Members(c.batch)
                    THEN OnBatchStageEnd(times[q], e.time, c.execution_time) ELSE times[q]]
            /\ Handled(e, <<again, onward>>)
            /\ UNCHANGED <<global, scheduler, req, last_batch_id, history>>

(* The batch of the event ends: its requests advance, the scheduler frees   *)
(* the completed ones and preempts the others, the metrics store records    *)
(* the time of each decode token after the first.                           *)
BatchEnd ==
    \E e \in Popped("batch_end") :
        LET r == e.call.replica
            entries == e.call.batch.entries
            ended == Members(e.call.batch)
            tokens(q) == (CHOOSE x \in Range(entries) : x.id = q).tokens
            after == [q \in Requests |->
                        IF q \in ended THEN OnBatchEnd(req[q], tokens(q)) ELSE req[q]]
        IN  /\ req' = after
            /\ times' = [q \in Requests |->
                    IF q \in ended THEN OnBatchEndTimes(times[q], e.time, req[q], after[q])
                                   ELSE times[q]]
            /\ token_times' = [q \in Requests |->
                    IF q \in ended /\ HasStartedDecode(after[q])
                    THEN token_times[q] + TokenTime(q, e.call.batch, e.time)
                    ELSE token_times[q]]
            /\ scheduler' = [scheduler EXCEPT ![r] =
                    OnBatchEndOrca(@, [i \in DOMAIN entries |-> entries[i].id],
                                   {q \in ended : after[q].completed})]
            /\ in_flight' = [in_flight EXCEPT ![r] = Without(@, {e.call.batch})]
            /\ Handled(e, <<At(e.time, [type |-> "replica_schedule", replica |-> r,
                                        cause |-> "batch_end"])>>)
            /\ UNCHANGED <<global, stage, last_batch_id, started_at>>

Next ==
    \/ RequestArrival
    \/ GlobalSchedule
    \/ ReplicaSchedule
    \/ BatchStageArrival
    \/ ReplicaStageSchedule
    \/ BatchStageEnd
    \/ BatchEnd

Spec == Init /\ [][Next]_vars

(* Simulator.run takes event after event as long as there is one. *)
FairSpec == Spec /\ WF_vars(Next)

-----------------------------------------------------------------------------
(* Properties. *)

Calls(type) == {e \in event_queue : e.call.type = type}
CallsOf(type, r) == {e \in Calls(type) : e.call.replica = r}
CallsAt(type, r, s) == {e \in CallsOf(type, r) : e.call.stage = s}
Now(events) == \E e \in events : e.time = now
Completed == {r \in Requests : req[r].completed}

(* The state of the simulator has the types the code gives it. *)
TypeOK ==
    /\ now \in Nat /\ terminate \in BOOLEAN /\ last_id \in Nat
    /\ \A e \in event_queue : e.time \in Nat /\ e.id \in 1 .. last_id
    /\ global_queue \in Seq(Requests) /\ request_counter \in 0 .. NumRequests
    /\ \A r \in Replicas :
        /\ scheduler[r].queue \in Seq(Requests)
        /\ scheduler[r].preempted \in Seq(Requests)
        /\ scheduler[r].allocated \subseteq Requests
        /\ scheduler[r].running \in 0 .. NumStages
    /\ \A r \in Replicas : \A s \in Stages :
        /\ stage[r][s].busy \in BOOLEAN
        /\ stage[r][s].batch_queue \in Seq(Range(in_flight[r]))

(* No event lies in the past; requests at the global scheduler, a replica   *)
(* that could form a batch and an idle stage with a batch have a schedule   *)
(* event at the present time.                                               *)
Punctual == \A e \in event_queue : e.time >= now
GlobalAwake == global_queue # <<>> => Now(Calls("global_schedule"))
ReplicaAwake(r) ==
    (scheduler[r].running < NumStages /\ NextBatch(scheduler[r]) # <<>>) =>
        Now(CallsOf("replica_schedule", r))
StageAwake(r, s) ==
    (stage[r][s].batch_queue # <<>> /\ ~stage[r][s].busy) =>
        Now(CallsAt("replica_stage_schedule", r, s))

(* Nobody waits without an event that will serve it, and a busy stage has   *)
(* the one event that ends its batch.                                       *)
NoLostWakeup ==
    /\ Punctual /\ GlobalAwake
    /\ \A r \in Replicas :
        /\ ReplicaAwake(r)
        /\ \A s \in Stages :
            /\ StageAwake(r, s)
            /\ Cardinality(CallsAt("batch_stage_end", r, s)) =
                    IF stage[r][s].busy THEN 1 ELSE 0

(* The places a batch of replica r can be in: events and stage queues. *)
BatchTypes == {"batch_stage_arrival", "batch_stage_end", "batch_end"}
BatchEvents(r) ==
    {e \in event_queue : e.call.type \in BatchTypes /\ e.call.replica = r}
Queued(r) == UNION {{s} \X DOMAIN stage[r][s].batch_queue : s \in Stages}
BatchPlaces(r, b) ==
    {e \in BatchEvents(r) : e.call.batch = b}
        \cup {p \in Queued(r) : stage[r][p[1]].batch_queue[p[2]] = b}

(* The places a request can be in. *)
RequestPlaces(q) ==
    {e \in Calls("request_arrival") : e.call.request = q}
    \cup {<<"global", k>> : k \in {k \in DOMAIN global_queue : global_queue[k] = q}}
    \cup UNION {{<<"queue", r, k>> : k \in {k \in DOMAIN scheduler[r].queue :
                                            scheduler[r].queue[k] = q}}
                \cup {<<"preempted", r, k>> : k \in {k \in DOMAIN scheduler[r].preempted :
                                                     scheduler[r].preempted[k] = q}}
                \cup {<<"batch", r, k>> : k \in {k \in DOMAIN in_flight[r] :
                                                 q \in Members(in_flight[r][k])}} :
                r \in Replicas}

(* Every request is in one place of the whole system until it is completed, *)
(* every batch is in one place of its pipeline, and a replica holds memory  *)
(* for the requests it has started and not completed.                       *)
NothingLost ==
    /\ \A q \in Requests :
        Cardinality(RequestPlaces(q)) = IF req[q].completed THEN 0 ELSE 1
    /\ \A r \in Replicas :
        /\ \A k \in DOMAIN in_flight[r] : Cardinality(BatchPlaces(r, in_flight[r][k])) = 1
        /\ scheduler[r].running = Len(in_flight[r])
        /\ scheduler[r].allocated = Range(scheduler[r].preempted)
                \cup UNION {Members(in_flight[r][k]) : k \in DOMAIN in_flight[r]}

(* The pipeline of a replica carries the batches that its scheduler counts  *)
(* as running, in events and in the queues of its stages, and a request that *)
(* has memory is in one of them or preempted.                               *)
Carried(r) ==
    {e.call.batch : e \in BatchEvents(r)}
        \cup UNION {Range(stage[r][s].batch_queue) : s \in Stages}

CarriedAt(r) ==
    /\ IsFiniteSet(BatchEvents(r)) /\ IsFiniteSet(Queued(r))
    /\ scheduler[r].running = Cardinality(BatchEvents(r)) + Cardinality(Queued(r))
    /\ \A q \in scheduler[r].allocated :
            q \in Range(scheduler[r].preempted) \/ \E b \in Carried(r) : q \in Members(b)

(* The ReplicaScheduleEvents of one cause, and the events that follow the   *)
(* end of the last stage.                                                   *)
Woken(r, cause) == {e \in CallsOf("replica_schedule", r) : e.call.cause = cause}
Ending(r) == CallsOf("batch_end", r) \cup Woken(r, "batch_end")

(* What the model of one replica (ReplicaScheduler) takes for granted: the  *)
(* batches of a replica end in the order they were dispatched, one at a     *)
(* time; at most one ReplicaScheduleEvent of each cause waits, it is        *)
(* handled before the next batch ends and before more requests come.        *)
PipelineIsFIFO ==
    \A r \in Replicas :
        /\ \A e \in CallsOf("batch_end", r) : e.call.batch = Head(in_flight[r])
        /\ Cardinality(Ending(r)) <= 1
        /\ Cardinality(Woken(r, "arrival")) <= 1
        /\ Woken(r, "arrival") # {} => /\ global_queue = <<>>
                                       /\ ~Now(Calls("request_arrival"))

-----------------------------------------------------------------------------
(* The inductive invariant of NoLostWakeup and EmptyAtEnd: types, without a  *)
(* word on which requests the queues hold, and the pipelines.               *)

IsSeq(q) == q \in Seq(Range(q))

StageTypes == {"batch_stage_arrival", "replica_stage_schedule", "batch_stage_end"}

(* What the handler of an event reads of it. *)
CallInv(c) ==
    /\ c.type \in BatchTypes \cup StageTypes \cup {"replica_schedule"} =>
            c.replica \in Replicas
    /\ c.type \in StageTypes => c.stage \in Stages
    /\ c.type \in BatchTypes => IsSeq(c.batch.entries)

HeapInv ==
    /\ now \in Nat /\ last_id \in Nat
    /\ \A e \in event_queue :
            e.time \in Nat /\ e.id \in 1 .. last_id /\ CallInv(e.call)

SchedulerInv(s) ==
    /\ s = [queue |-> s.queue, preempted |-> s.preempted,
            allocated |-> s.allocated, running |-> s.running]
    /\ IsSeq(s.queue) /\ IsSeq(s.preempted)
    /\ IsFiniteSet(s.allocated) /\ s.running \in Nat

StageInv(s) ==
    /\ s = [batch_queue |-> s.batch_queue, busy |-> s.busy]
    /\ s.busy \in BOOLEAN
    /\ IsSeq(s.batch_queue)
    /\ \A b \in Range(s.batch_queue) : IsSeq(b.entries)

PartsInv ==
    /\ IsSeq(global_queue) /\ request_counter \in Nat
    /\ policy \in Policies
    /\ DOMAIN scheduler = Replicas /\ \A r \in Replicas : SchedulerInv(scheduler[r])
    /\ DOMAIN stage = Replicas
    /\ \A r \in Replicas : DOMAIN stage[r] = Stages /\ \A s \in Stages : StageInv(stage[r][s])

(* A busy stage has the one event that ends its batch, an idle one none. *)
BusyAt(r, s) ==
    IF stage[r][s].busy THEN \E e \in event_queue : CallsAt("batch_stage_end", r, s) = {e}
    ELSE CallsAt("batch_stage_end", r, s) = {}

WakeInv ==
    /\ HeapInv /\ PartsInv /\ Punctual /\ GlobalAwake
    /\ \A r \in Replicas :
        /\ CarriedAt(r) /\ ReplicaAwake(r)
        /\ \A s \in Stages : StageAwake(r, s) /\ BusyAt(r, s)

(* The inductive invariant of PipelineIsFIFO. *)

(* Arrivals are numbered before all other events, no two events alike, and  *)
(* but arrivals and the ends of stages every event is due at once.          *)
DueInv ==
    /\ last_id >= NumRequests
    /\ \A e, f \in event_queue : e.id = f.id => e = f
    /\ \A e \in event_queue :
        /\ e.id <= NumRequests <=> e.call.type = "request_arrival"
        /\ e.call.type \in {"request_arrival", "batch_stage_end"} \/ e.time = now

(* The batches of replica r with the places they have in its pipeline: each *)
(* stage has three levels, for the batches that arrive, wait and execute.   *)
Level(c) ==
    CASE c.type = "batch_stage_arrival" -> 3 * c.stage
      [] c.type = "batch_stage_end" -> 3 * c.stage + 2
      [] c.type = "batch_end" -> 3 * NumStages
EventPlace(e) == [level |-> Level(e.call), number |-> e.id, batch |-> e.call.batch]
SlotPlace(r, s, k) ==
    [level |-> 3 * s + 1, number |-> k, batch |-> stage[r][s].batch_queue[k]]
Line(r) ==
    {EventPlace(e) : e \in BatchEvents(r)}
        \cup UNION {{SlotPlace(r, s, k) : k \in DOMAIN stage[r][s].batch_queue} :
                    s \in Stages}

(* Batches do not overtake each other: the one ahead was made first. *)
Ahead(x, y) == x.level > y.level \/ (x.level = y.level /\ x.number < y.number)
InOrder(line) == \A x, y \in line : Ahead(x, y) => x.batch.id < y.batch.id

LineInv(r) ==
    /\ IsSeq(in_flight[r]) /\ Range(in_flight[r]) = {x.batch : x \in Line(r)}
    /\ \A b \in Range(in_flight[r]) : b.id \in Nat /\ b.id <= last_batch_id
    /\ \A i, j \in DOMAIN in_flight[r] : i < j => in_flight[r][i].id < in_flight[r][j].id
    /\ InOrder(Line(r))

(* The last stage ends one batch at a time. *)
EndInv(r) ==
    /\ \A e, f \in Ending(r) : e = f
    /\ Ending(r) # {} =>
            \A e \in CallsAt("batch_stage_end", r, NumStages - 1) : e.time > now

(* The requests of one time are placed together. *)
PlacedInv(r) ==
    /\ \A e, f \in Woken(r, "arrival") : e = f
    /\ Woken(r, "arrival") # {} => /\ global_queue = <<>>
                                   /\ ~Now(Calls("request_arrival"))

FifoInv ==
    /\ WakeInv /\ DueInv
    /\ last_batch_id \in Nat \cup {-1} /\ DOMAIN in_flight = Replicas
    /\ \A r \in Replicas : LineInv(r) /\ EndInv(r) /\ PlacedInv(r)

(* The inductive invariant of NothingLost. *)

Live == {q \in Requests : ~req[q].completed}
Coming == {e.call.request : e \in Calls("request_arrival")}
Owned(r) == Range(scheduler[r].queue) \cup scheduler[r].allocated

(* Until it is completed a request is still to arrive, or it is at the      *)
(* global scheduler, or one replica owns it.                                *)
OwnerInv ==
    /\ \A e \in Calls("request_arrival") :
            e.call.request \in Requests /\ e.id = e.call.request
    /\ global_queue \in Seq(Requests) /\ IsInjective(global_queue)
    /\ Live = Coming \cup Range(global_queue) \cup UNION {Owned(r) : r \in Replicas}
    /\ Coming \cap Range(global_queue) = {}
    /\ \A r \in Replicas :
        /\ Owned(r) \cap (Coming \cup Range(global_queue)) = {}
        /\ \A s \in Replicas \ {r} : Owned(r) \cap Owned(s) = {}

(* A batch b of replica r shares no request with the others of the replica, *)
(* nor with those it has preempted, and has none twice.                     *)
BatchInv(r, b) ==
    /\ IsSeq(b.entries) /\ IsInjective([i \in DOMAIN b.entries |-> b.entries[i].id])
    /\ Members(b) \cap Range(scheduler[r].preempted) = {}
    /\ \A c \in Range(in_flight[r]) \ {b} : Members(b) \cap Members(c) = {}

(* What a replica owns waits for memory, or has memory and is preempted or  *)
(* in a batch of its pipeline.                                              *)
HeldInv(r) ==
    LET s == scheduler[r]
    IN  /\ s.queue \in Seq(Requests) /\ IsInjective(s.queue)
        /\ s.preempted \in Seq(Requests) /\ IsInjective(s.preempted)
        /\ Range(s.queue) \cap s.allocated = {}
        /\ s.allocated = Range(s.preempted) \cup UNION {Members(b) : b \in Range(in_flight[r])}
        /\ \A b \in Range(in_flight[r]) : BatchInv(r, b)
        /\ s.running = Len(in_flight[r]) /\ s.running <= NumStages

(* Each request is counted once on its way to the replicas.                 *)
CountInv ==
    /\ IsFiniteSet(Calls("request_arrival"))
    /\ request_counter + Len(global_queue) + Cardinality(Calls("request_arrival"))
            <= NumRequests

ConservedInv ==
    /\ FifoInv /\ OwnerInv /\ CountInv /\ terminate \in BOOLEAN
    /\ \A r \in Replicas : HeldInv(r)

(* The inductive invariant of MetricsAddUp. *)

RequestRecords ==
    [prefill : Nat \ {0}, decode : Nat \ {0}, processed : Nat,
     prefill_complete : BOOLEAN, completed : BOOLEAN]
TimesRecords ==
    [arrived_at : Int, scheduled : BOOLEAN, scheduled_at : Int, scheduling_delay : Int,
     execution_time : Int, preempted_time : Int, stage_completed_at : Int,
     iteration_completed_at : Int, iteration_delay : Int, prefill_completed_at : Int,
     completed_at : Int]

RecordInv(q) ==
    /\ req[q] \in RequestRecords /\ times[q] \in TimesRecords
    /\ started_at[q] \in Int /\ token_times[q] \in Int

(* A request has processed its prompt at once, with a token more, or nothing; *)
(* since then its tokens account for the time to the end of its last batch. *)
TokensInv(q) ==
    IF req[q].prefill_complete
    THEN /\ req[q].processed > req[q].prefill
         /\ token_times[q] = times[q].iteration_completed_at - times[q].prefill_completed_at
    ELSE /\ req[q].processed = 0 /\ ~req[q].completed
         /\ token_times[q] = 0 /\ times[q].prefill_completed_at = 0

(* Since the first stage took it until time t, request q has executed or    *)
(* been preempted.                                                          *)
AccountedTo(q, t) ==
    /\ started_at[q] # -1
    /\ times[q].execution_time + times[q].preempted_time = t - started_at[q]

DoneInv(q) ==
    /\ times[q].scheduled =>
        times[q].arrived_at + times[q].scheduling_delay = times[q].scheduled_at
    /\ req[q].completed =>
        /\ times[q].scheduled
        /\ times[q].completed_at = times[q].iteration_completed_at
        /\ AccountedTo(q, times[q].completed_at)

(* The execution of a batch in a stage is recorded when it ends.            *)
ExecutionInv(e) ==
    /\ e.call.type = "batch_stage_end" =>
        /\ e.time # 0 /\ e.call.execution_time \in Nat
        /\ \A q \in Members(e.call.batch) : AccountedTo(q, e.time - e.call.execution_time)
    /\ e.call.type = "batch_end" =>
        \A q \in Members(e.call.batch) :
            started_at[q] # -1 /\ times[q].stage_completed_at = e.time

Executing(q) == \E e \in Calls("batch_stage_end") : q \in Members(e.call.batch)

RestInv(q) ==
    ~Executing(q) =>
        IF started_at[q] = -1
        THEN /\ times[q].execution_time = 0 /\ times[q].preempted_time = 0
             /\ times[q].stage_completed_at = 0
        ELSE /\ times[q].stage_completed_at # 0
             /\ AccountedTo(q, times[q].stage_completed_at)

(* A batch has the tokens its requests have to process next, and its        *)
(* schedule time leads from the end of the last one of each.                *)
EntriesInv(b) ==
    /\ b.scheduled_at \in Int
    /\ \A x \in Range(b.entries) :
        /\ x = Entry(x.id) /\ times[x.id].scheduled
        /\ times[x.id].iteration_delay = b.scheduled_at - times[x.id].iteration_completed_at

TimesInv ==
    /\ ConservedInv
    /\ DOMAIN req = Requests /\ DOMAIN times = Requests
    /\ \A q \in Requests : RecordInv(q) /\ TokensInv(q) /\ DoneInv(q) /\ RestInv(q)
    /\ \A e \in event_queue : ExecutionInv(e)
    /\ \A r \in Replicas : \A b \in Range(in_flight[r]) : EntriesInv(b)

(* The types, the places of requests and batches, and the inductive         *)
(* invariant.                                                               *)
SimInv == TypeOK /\ NothingLost /\ TimesInv

-----------------------------------------------------------------------------

(* The metrics of a completed request (docs/metrics.md) fit together: the   *)
(* scheduling delay leads from its arrival to its schedule time (item 7),   *)
(* the times of its decode tokens (item 10) add up to the time from the end *)
(* of its prefill to its completion (item 16), and from the moment the      *)
(* first stage takes it, it either executes or is preempted (items 8, 9).   *)
MetricsAddUp ==
    \A r \in Completed :
        LET t == times[r]
        IN  /\ t.arrived_at + t.scheduling_delay = t.scheduled_at
            /\ token_times[r] = t.completed_at - t.prefill_completed_at
            /\ t.execution_time + t.preempted_time = t.completed_at - started_at[r]

(* The assertion that ends Simulator.run. *)
SchedulerEmpty ==
    /\ global_queue = <<>>
    /\ \A r \in Replicas :
        /\ scheduler[r].queue = <<>>
        /\ scheduler[r].allocated = {}
        /\ \A s \in Stages : stage[r][s].batch_queue = <<>>
EmptyAtEnd == ~Running => SchedulerEmpty \/ terminate

(* Every request is served to its last token unless the time limit ends the *)
(* simulation.                                                              *)
AllComplete == <>(Completed = Requests \/ terminate)
=============================================================================
