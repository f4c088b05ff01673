---------------------------- MODULE RequestTimes ----------------------------
(***************************************************************************)
(* The times a request records (src/vidur/entities/request.py), from which *)
(* the metrics of docs/metrics.md are computed, as operators on records.   *)
(* Requests that are restarted are left out: `_num_restarts' is 0.         *)
(***************************************************************************)
EXTENDS Integers

(* Request.__init__ *)
NewTimes(arrived_at) ==
    [arrived_at |-> arrived_at, scheduled |-> FALSE, scheduled_at |-> 0,
     scheduling_delay |-> 0, execution_time |-> 0, preempted_time |-> 0,
     stage_completed_at |-> 0, iteration_completed_at |-> 0,
     iteration_delay |-> 0, prefill_completed_at |-> 0, completed_at |-> 0]

(* Request.on_batch_schedule: the first batch schedules the request, each   *)
(* batch starts an iteration.                                               *)
OnBatchSchedule(t, now) ==
    LET iteration == [t EXCEPT !.iteration_delay = now - t.iteration_completed_at]
    IN  IF t.scheduled
        THEN iteration
        ELSE [iteration EXCEPT !.scheduled = TRUE, !.scheduled_at = now,
                               !.scheduling_delay = now - t.arrived_at]

(* Seeded fault: what a request waited before is forgotten. *)
OnBatchStageScheduleRestartsClock(t, now) ==
    [t EXCEPT !.preempted_time =
                IF t.stage_completed_at = 0 THEN 0 ELSE now - t.stage_completed_at]

(* Request.on_batch_stage_schedule: the request was preempted since its     *)
(* last stage ended.                                                        *)
OnBatchStageSchedule(t, now) ==
    [t EXCEPT !.preempted_time =
                IF t.stage_completed_at = 0 THEN 0 ELSE @ + now - t.stage_completed_at]

(* Request.on_batch_stage_end *)
OnBatchStageEnd(t, now, execution_time) ==
    [t EXCEPT !.execution_time = @ + execution_time, !.stage_completed_at = now]

(* The times of Request.on_batch_end, which took the tokens of the request  *)
(* from `before' to `after'.                                                *)
OnBatchEndTimes(t, now, before, after) ==
    [t EXCEPT
        !.iteration_completed_at = now,
        !.prefill_completed_at =
            IF after.prefill_complete /\ ~before.prefill_complete /\ @ = 0
            THEN now ELSE @,
        !.completed_at = IF after.completed THEN now ELSE @]
=============================================================================
