-------------------------- MODULE ReplicaScheduler --------------------------
(***************************************************************************)
(* What every replica scheduler inherits (base_replica_scheduler.py) and   *)
(* the events that call it: requests arrive, ReplicaScheduleEvents wait in *)
(* the event heap, batches are in flight in the pipeline and end in the    *)
(* order they were dispatched.                                             *)
(*                                                                         *)
(* A handler of the simulator runs to completion.  Its loops are taken     *)
(* one iteration per step: `pc' names the loop being executed and only a   *)
(* step of that loop is enabled until pc is "idle" again.                  *)
(***************************************************************************)
EXTENDS RequestEntity, FiniteSets, SequencesExt

CONSTANTS
    NumRequests,     \* requests sent to this replica
    ArrivedAt,       \* their arrival times
    PrefillLens,     \* prompt lengths the request generator may draw
    DecodeLens,      \* output lengths the request generator may draw
    NumStages,       \* pipeline stages
    BlockSize,       \* tokens per block
    NumBlocks,       \* blocks of the replica
    BatchSizeCap     \* batch_size_cap of the scheduler's configuration

(* Requests are numbered in the order they are created, which is the order  *)
(* of their arrival.                                                        *)
Requests == 1 .. NumRequests

ASSUME ReplicaAssumption ==
    /\ NumRequests \in Nat
    /\ ArrivedAt \in [Requests -> Nat]
    /\ \A r, q \in Requests : r <= q => ArrivedAt[r] <= ArrivedAt[q]
    /\ PrefillLens \subseteq Nat \ {0}
    /\ DecodeLens \subseteq Nat \ {0}
    /\ NumStages \in Nat \ {0}
    /\ BlockSize \in Nat \ {0}
    /\ NumBlocks \in Nat \ {0}
    /\ BatchSizeCap \in Nat

VARIABLES
    asked,                 \* history: [prefill, decode] as each request arrived
    req,                   \* the Request entities
    num_arrived,           \* requests 1 .. num_arrived have arrived
    request_queue,         \* _request_queue
    preempted_requests,    \* _preempted_requests
    allocation_map,        \* _allocation_map: request -> blocks
    num_allocated_blocks,  \* _num_allocated_blocks
    num_running_batches,   \* _num_running_batches
    running_batches,       \* batches in the pipeline, oldest first
    schedule_events,       \* ReplicaScheduleEvents in the heap, oldest first
    pc,                    \* the loop being executed, or "idle"
    batch                  \* the batch being built, or being ended

memory == <<allocation_map, num_allocated_blocks>>
pipeline == <<num_running_batches, running_batches>>
vars == <<asked, req, num_arrived, request_queue, preempted_requests, memory,
          pipeline, schedule_events, pc, batch>>

(* A batch is the sequence of its requests and their token counts. *)
BatchEntry == [id : Requests, tokens : Nat]
Ids(b) == {b[i].id : i \in DOMAIN b}
IdsIn(bs) == UNION {Ids(bs[k]) : k \in DOMAIN bs}
RunningIds == IdsIn(running_batches)

-----------------------------------------------------------------------------
(* Memory. *)

FreeBlocks == NumBlocks - num_allocated_blocks
BlocksOf(r) == IF r \in DOMAIN allocation_map THEN allocation_map[r] ELSE 0

Allocate(r, n) ==
    /\ num_allocated_blocks' = num_allocated_blocks + n
    /\ allocation_map' = [q \in DOMAIN allocation_map \cup {r} |->
                            IF q = r THEN BlocksOf(r) + n ELSE allocation_map[q]]

(* Seeded fault: freeing a request forgets the counter. *)
FreeMapOnly(r) ==
    /\ UNCHANGED num_allocated_blocks
    /\ allocation_map' = [q \in DOMAIN allocation_map \ {r} |-> allocation_map[q]]

Free(r) ==
    /\ num_allocated_blocks' = num_allocated_blocks - allocation_map[r]
    /\ allocation_map' = [q \in DOMAIN allocation_map \ {r} |-> allocation_map[q]]

(* The blocks themselves: block i of request r is <<r, i>>. *)
BlocksIn(m) == UNION {{r} \X (1 .. m[r]) : r \in DOMAIN m}
HeldBlocks == BlocksIn(allocation_map)

-----------------------------------------------------------------------------

Init ==
    /\ asked \in [Requests -> [prefill : PrefillLens, decode : DecodeLens]]
    /\ req = [r \in Requests |-> NewRequest(asked[r].prefill, asked[r].decode)]
    /\ num_arrived = 0
    /\ request_queue = <<>>
    /\ preempted_requests = <<>>
    /\ allocation_map = [r \in {} |-> 0]
    /\ num_allocated_blocks = 0
    /\ num_running_batches = 0
    /\ running_batches = <<>>
    /\ schedule_events = <<>>
    /\ pc = "idle"
    /\ batch = <<>>

(* Requests that arrive at one time are handled before the first            *)
(* GlobalScheduleEvent of that time, which hands them over together and     *)
(* leaves one ReplicaScheduleEvent; it is handled before time advances to   *)
(* the next arrivals.                                                       *)
AddRequests ==
    /\ pc = "idle"
    /\ "arrival" \notin Range(schedule_events)
    /\ \E last \in num_arrived + 1 .. NumRequests :
        /\ ArrivedAt[last] = ArrivedAt[num_arrived + 1]
        /\ last < NumRequests => ArrivedAt[last + 1] # ArrivedAt[last]
        /\ request_queue' = request_queue \o
                [i \in 1 .. last - num_arrived |-> num_arrived + i]
        /\ num_arrived' = last
    /\ schedule_events' = Append(schedule_events, "arrival")
    /\ UNCHANGED <<asked, req, preempted_requests, memory, pipeline, pc, batch>>

(* Seeded fault: one batch too many in the pipeline. *)
NextLoopOneMore(n) == IF n <= NumStages THEN "form" ELSE "idle"

(* The while condition of on_schedule: is another batch to be formed when   *)
(* n are running?                                                           *)
NextLoop(n) == IF n < NumStages THEN "form" ELSE "idle"

(* ReplicaScheduleEvent.handle_event calls on_schedule. *)
OnSchedule ==
    /\ pc = "idle"
    /\ schedule_events # <<>>
    /\ schedule_events' = Tail(schedule_events)
    /\ pc' = NextLoop(num_running_batches)
    /\ UNCHANGED <<asked, req, num_arrived, request_queue, preempted_requests,
                   memory, pipeline, batch>>

(* _get_next_batch returned: a batch enters the pipeline and on_schedule    *)
(* asks for the next one, an empty one ends the loop.                       *)
ReturnBatch ==
    IF batch # <<>>
    THEN /\ running_batches' = Append(running_batches, batch)
         /\ num_running_batches' = num_running_batches + 1
         /\ pc' = NextLoop(num_running_batches + 1)
         /\ batch' = <<>>
    ELSE /\ pc' = "idle"
         /\ UNCHANGED <<pipeline, batch>>

(* BatchEndEvent.handle_event: the oldest batch leaves the last stage.  One *)
(* stage ends its batches at increasing times, and time advances only when  *)
(* the events of the present time are handled: the ReplicaScheduleEvent of  *)
(* the previous batch end is never still waiting.                           *)
BatchEnd ==
    /\ pc = "idle"
    /\ running_batches # <<>>
    /\ "batch_end" \notin Range(schedule_events)
    /\ batch' = Head(running_batches)
    /\ running_batches' = Tail(running_batches)
    /\ num_running_batches' = num_running_batches - 1
    /\ pc' = "end"
    /\ UNCHANGED <<asked, req, num_arrived, request_queue, preempted_requests,
                   memory, schedule_events>>

(* batch.on_batch_end and the scheduler's on_batch_end, for one request of  *)
(* the batch.  The code runs the first for all requests and then the second *)
(* for all; the requests of a batch are distinct, so the order between      *)
(* different requests is immaterial.                                        *)
EndRequest ==
    /\ pc = "end"
    /\ batch # <<>>
    /\ LET r == Head(batch).id
           q == OnBatchEnd(req[r], Head(batch).tokens)
       IN  /\ req' = [req EXCEPT ![r] = q]
           /\ \/ /\ q.completed
                 /\ Free(r)
                 /\ UNCHANGED preempted_requests
              \/ /\ ~q.completed
                 /\ preempted_requests' = Append(preempted_requests, r)
                 /\ UNCHANGED memory
    /\ batch' = Tail(batch)
    /\ UNCHANGED <<asked, num_arrived, request_queue, pipeline, schedule_events, pc>>

(* Seeded fault: the end of a batch does not wake the scheduler up. *)
BatchEndedSilently ==
    /\ pc = "end"
    /\ batch = <<>>
    /\ pc' = "idle"
    /\ UNCHANGED <<asked, req, num_arrived, request_queue, preempted_requests,
                   memory, pipeline, schedule_events, batch>>

BatchEnded ==
    /\ pc = "end"
    /\ batch = <<>>
    /\ schedule_events' = Append(schedule_events, "batch_end")
    /\ pc' = "idle"
    /\ UNCHANGED <<asked, req, num_arrived, request_queue, preempted_requests,
                   memory, pipeline, batch>>

(* No event is left: Simulator.run leaves its loop. *)
Quiescent ==
    /\ pc = "idle"
    /\ num_arrived = NumRequests
    /\ schedule_events = <<>>
    /\ running_batches = <<>>

(* BaseReplicaScheduler.is_empty.  A stage scheduler is empty when no batch *)
(* is in the pipeline.                                                      *)
IsEmpty == request_queue = <<>> /\ DOMAIN allocation_map = {}

(* The assertion that ends Simulator.run (simulator.py:78): when no event   *)
(* is left the replica is empty.                                            *)
EmptyAtEnd == Quiescent => IsEmpty

(* Every request that arrives is served to its last token. *)
AllComplete == <>(\A r \in Requests : req[r].completed)

-----------------------------------------------------------------------------
(* Parts of the properties of the schedulers. *)

RequestRecord ==
    [prefill : Nat, decode : Int, processed : Nat,
     prefill_complete : BOOLEAN, completed : BOOLEAN]

(* The types that the code gives the variables of every scheduler. *)
ReplicaTypes ==
    /\ asked \in [Requests -> [prefill : PrefillLens, decode : DecodeLens]]
    /\ req \in [Requests -> RequestRecord]
    /\ num_arrived \in 0 .. NumRequests
    /\ request_queue \in Seq(Requests)
    /\ preempted_requests \in Seq(Requests)
    /\ DOMAIN allocation_map \subseteq Requests
    /\ allocation_map \in [DOMAIN allocation_map -> Nat]
    /\ num_allocated_blocks \in Int
    /\ num_running_batches \in 0 .. NumStages
    /\ running_batches \in Seq(Seq(BatchEntry))
    /\ schedule_events \in Seq({"arrival", "batch_end"})
    /\ batch \in Seq(BatchEntry)

(* The counter of running batches counts them, and a batch is only formed   *)
(* for a free stage.                                                        *)
PipelineCount ==
    /\ num_running_batches = Len(running_batches)
    /\ pc \notin {"idle", "end"} => num_running_batches < NumStages
    /\ pc = "idle" => batch = <<>>

(* The block counter of base_replica_scheduler.py:110-124, kept apart from  *)
(* the allocation map, always counts the blocks of the map, and neither the *)
(* assertion of allocate nor that of free fails.                            *)
MemoryAccounting ==
    /\ num_allocated_blocks = Cardinality(HeldBlocks)
    /\ num_allocated_blocks <= NumBlocks

(* Exactly the blocks that n tokens need. *)
ExactFor(n, blocks) ==
    n <= blocks * BlockSize /\ blocks * BlockSize < n + BlockSize

(* No more requests hold memory than the configuration allows: the code     *)
(* only tests for equality when it admits one.                              *)
WithinCap == Cardinality(DOMAIN allocation_map) <= BatchSizeCap

Arrived == 1 .. num_arrived
Live == {r \in Arrived : ~req[r].completed}

(* A request that has not arrived is as the generator made it. *)
NotArrived ==
    \A r \in Requests \ Arrived :
        req[r] = NewRequest(asked[r].prefill, asked[r].decode)

DistinctIds(b) == \A i, j \in DOMAIN b : b[i].id = b[j].id => i = j

(* No request is in two batches, or twice in one. *)
DisjointBatches(bs) ==
    /\ \A k \in DOMAIN bs : DistinctIds(bs[k])
    /\ \A k, l \in DOMAIN bs : k # l => Ids(bs[k]) \cap Ids(bs[l]) = {}

(* Each live request is in one place: in the queue, paused between two      *)
(* batches, in the batch of the loop being executed or in one of the        *)
(* pipeline; it holds blocks exactly when it is not in the queue.           *)
Conserved(paused) ==
    /\ IsInjective(request_queue)
    /\ IsInjective(paused)
    /\ DistinctIds(batch)
    /\ DisjointBatches(running_batches)
    /\ Range(paused) \cap Ids(batch) = {}
    /\ Range(paused) \cap RunningIds = {}
    /\ Ids(batch) \cap RunningIds = {}
    /\ Range(request_queue) \cap DOMAIN allocation_map = {}
    /\ DOMAIN allocation_map = Range(paused) \cup Ids(batch) \cup RunningIds
    /\ Range(request_queue) \cup DOMAIN allocation_map = Live

(* Output tokens a request has produced, counted over its restarts: each    *)
(* restart turns what was produced into prefill.                            *)
Emitted(r) ==
    (IF req[r].prefill_complete THEN req[r].processed ELSE req[r].prefill)
        - asked[r].prefill
=============================================================================
