------------------------------ MODULE Workload ------------------------------
(***************************************************************************)
(* The request generators (request_generator): how long the requests of a  *)
(* workload may be and how far apart they may arrive.  A factor is a       *)
(* fraction <<n, d>>, times are whole seconds, and where the program draws *)
(* a number an operator gives the set it is drawn from.                    *)
(***************************************************************************)
EXTENDS Integers, SequencesExt

Scaled(n, factor) == (n * factor[1]) \div factor[2]
AtLeast(low, n) == IF n < low THEN low ELSE n
CeilOf(a, b) == (a + b - 1) \div b

-----------------------------------------------------------------------------
(* Traces.  A row of a trace is [arrived_at, num_prefill_tokens,            *)
(* num_decode_tokens].                                                      *)

ScaledRow(row, w) ==
    [row EXCEPT !.num_prefill_tokens = Scaled(@, w.prefill_scale_factor),
                !.num_decode_tokens = Scaled(@, w.decode_scale_factor)]

(* Seeded fault: the tokens are raised to one after the excess is taken.    *)
ReplayRowRaisedLast(row, w) ==
    LET s == ScaledRow(row, w)
        excess == AtLeast(0, s.num_prefill_tokens + s.num_decode_tokens - w.max_tokens)
    IN  [arrived_at |-> Scaled(s.arrived_at, w.time_scale_factor),
         num_prefill_tokens |-> AtLeast(1, s.num_prefill_tokens - excess),
         num_decode_tokens |-> AtLeast(1, s.num_decode_tokens)]

(* TraceReplayRequestGenerator: at least one token of each kind, then what  *)
(* is over max_tokens is taken off the prompt.                              *)
ReplayRow(row, w) ==
    LET s == ScaledRow(row, w)
        prompt == AtLeast(1, s.num_prefill_tokens)
        output == AtLeast(1, s.num_decode_tokens)
    IN  [arrived_at |-> Scaled(s.arrived_at, w.time_scale_factor),
         num_prefill_tokens |-> prompt - AtLeast(0, prompt + output - w.max_tokens),
         num_decode_tokens |-> output]

(* TraceRequestLengthGenerator: what is over is taken off both parts, in    *)
(* proportion and rounded up, and then both are at least one.               *)
LengthRow(row, w) ==
    LET s == ScaledRow(row, w)
        total == s.num_prefill_tokens + s.num_decode_tokens
        over == AtLeast(0, total - w.max_tokens)
        Cut(n) == AtLeast(1, n - CeilOf(over * n, total))
    IN  [prompt |-> Cut(s.num_prefill_tokens), output |-> Cut(s.num_decode_tokens),
         legal |-> TRUE]

(* Its assertion.  A row of no tokens cannot be divided.                    *)
LengthRowsFit(trace, w) ==
    \A i \in DOMAIN trace :
        LET s == ScaledRow(trace[i], w)
            cut == LengthRow(trace[i], w)
        IN  s.num_prefill_tokens + s.num_decode_tokens > 0
                /\ cut.prompt + cut.output <= w.max_tokens

-----------------------------------------------------------------------------
(* Lengths.  Each operator gives the lengths [prompt, output] that int()     *)
(* makes of the generator's results; one that is not legal fails an          *)
(* assertion of its generator.                                               *)

LengthOf(prompt, output, legal) == [prompt |-> prompt, output |-> output, legal |-> legal]

(* Totals are the whole numbers from min_tokens to max_tokens, scrambled or  *)
(* not; the output is not rounded before int() takes the floor of both.      *)
ZipfLengths(w, totals) ==
    {LengthOf(t - CeilOf(t, 1 + w.ratio), t \div (1 + w.ratio), TRUE) : t \in totals}

(* Totals are any numbers of the range: whole ones and halves stand for them. *)
UniformLengths(w, totals) ==
    LET Length(halves) ==
            LET output == CeilOf(halves, 2 * (1 + w.ratio))
            IN  LengthOf(halves \div 2 - output, output, halves > 2 * output)
    IN  {Length(2 * t) : t \in totals} \cup {Length(2 * t + 1) : t \in totals \ {w.max_tokens}}

FixedLengths(w) == {LengthOf(w.prefill_tokens, w.decode_tokens, TRUE)}

(* The rows of a trace are shuffled; those of taken have been used.         *)
NextLengths(w, trace, totals, taken) ==
    CASE w.length = "zipf" -> ZipfLengths(w, totals)
      [] w.length = "uniform" -> UniformLengths(w, totals)
      [] w.length = "fixed" -> FixedLengths(w)
      [] w.length = "trace" -> {LengthRow(trace[i], w) : i \in DOMAIN trace \ taken}

-----------------------------------------------------------------------------
(* Intervals.                                                               *)

(* Three times the mean at most. *)
PoissonIntervals(w) == 1 .. 3 * w.mean

GammaIntervals(longest) == 1 .. longest

StaticIntervals == {0}

(* The arrival times of the window, from the first of them on.              *)
Arrivals(times, w) ==
    LET inside == SelectSeq(times, LAMBDA t : w.start_time < t /\ t < w.end_time)
        first == FoldSeq(LAMBDA t, least : IF t < least THEN t ELSE least, w.end_time, inside)
    IN  [i \in DOMAIN inside |-> Scaled(inside[i] - first, w.time_scale_factor)]

(* The i-th is the time between two rows: the first row itself makes none.  *)
TraceInterval(times, w, i) == Arrivals(times, w)[i + 1] - Arrivals(times, w)[i]

(* {} when the trace is exhausted. *)
NextIntervals(w, times, longest, i) ==
    CASE w.interval = "poisson" -> PoissonIntervals(w)
      [] w.interval = "gamma" -> GammaIntervals(longest)
      [] w.interval = "static" -> StaticIntervals
      [] w.interval = "trace" -> IF i >= Len(Arrivals(times, w)) THEN {}
                                 ELSE {TraceInterval(times, w, i)}

-----------------------------------------------------------------------------
(* SyntheticRequestGenerator.generate_requests: duration 0 stands for none. *)

Wanted(w, requests, now) ==
    IF w.duration > 0 THEN now < w.duration ELSE Len(requests) < w.num_requests

(* Seeded fault: the requests are not sorted and not cut. *)
FinishedAsGenerated(w, requests) == requests

Finished(w, requests) ==
    LET sorted == SortSeq(requests, LAMBDA a, b : a.arrived_at < b.arrived_at)
    IN  IF w.duration > 0
        THEN SelectSeq(sorted, LAMBDA r : r.arrived_at < w.duration)
        ELSE sorted
=============================================================================
