--------------------------- MODULE RequestEntity ---------------------------
(***************************************************************************)
(* The token counters of a request (src/vidur/entities/request.py), as     *)
(* operators on records.  The fields that only record times are left to    *)
(* the timed modules.                                                      *)
(***************************************************************************)
EXTENDS Integers

(* A request as Request.__init__ makes it. *)
NewRequest(p, d) ==
    [prefill |-> p, decode |-> d, processed |-> 0,
     prefill_complete |-> FALSE, completed |-> FALSE]

TotalTokens(q) == q.prefill + q.decode

(* Seeded fault: the prefill does not yield the first token. *)
OnBatchEndNoToken(q, n) ==
    LET processed == q.processed + n
    IN  [q EXCEPT !.processed = processed,
                  !.prefill_complete = @ \/ processed = q.prefill,
                  !.completed = @ \/ processed = TotalTokens(q)]

(* Request.on_batch_end: a batch processed n of its tokens.  Completing the *)
(* prefill yields the first decode token in the same step.                  *)
OnBatchEnd(q, n) ==
    LET prefilled == q.processed + n = q.prefill
        processed == q.processed + n + (IF prefilled THEN 1 ELSE 0)
    IN  [q EXCEPT !.processed = processed,
                  !.prefill_complete = @ \/ prefilled,
                  !.completed = @ \/ processed = TotalTokens(q)]

(* The assertion of Request.on_batch_end. *)
OnBatchEndAsserts(q, n) == q.processed + n <= TotalTokens(q)

(* Seeded faults: a restart goes back to the prompt and drops the output;   *)
(* a restart does not reset the count of processed tokens.                  *)
RestartFromPrompt(q) == NewRequest(q.prefill, q.decode)
RestartKeepsProcessed(q) ==
    [NewRequest(q.processed, TotalTokens(q) - q.processed)
        EXCEPT !.processed = q.processed]

(* Request.restart: what was decoded so far is prefilled again. *)
Restart(q) == NewRequest(q.processed, TotalTokens(q) - q.processed)

CeilDiv(a, b) == (a + b - 1) \div b
=============================================================================
