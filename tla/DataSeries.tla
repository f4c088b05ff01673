----------------------------- MODULE DataSeries -----------------------------
(***************************************************************************)
(* Where the metrics are kept until the simulation ends: series of points  *)
(* <<x, y>> (metrics/data_series.py), what is plotted of them and joined   *)
(* to tables, and the meter of a mean over time                            *)
(* (metrics/series_average_meter.py).                                      *)
(***************************************************************************)
EXTENDS Integers, SequencesExt, FiniteSetsExt

Put(series, x, y) == Append(series, <<x, y>>)

Xs(series) == {series[i][1] : i \in DOMAIN series}
PointsAt(series, x) == SelectSeq(series, LAMBDA point : point[1] = x)
Total(series) == FoldSeq(LAMBDA point, sum : point[2] + sum, 0, series)

Ascending(S) ==
    SortSeq(FoldSet(LAMBDA x, seq : Append(seq, x), <<>>, S), LAMBDA a, b : a < b)

(* Seeded fault: the points of an x are left as they are.                   *)
ConsolidatedNot(series) == [i \in DOMAIN series |-> <<series[i][1], <<series[i][2], 1>>>>]

(* consolidate: one point per x, with the mean of its values as a fraction. *)
Consolidated(series) ==
    LET xs == Ascending(Xs(series))
        of(x) == PointsAt(series, x)
    IN  [i \in DOMAIN xs |-> <<xs[i], <<Total(of(xs[i])), Len(of(xs[i]))>>>>]

Cumulated(series) ==
    [i \in DOMAIN series |-> <<series[i][1], Total(SubSeq(series, 1, i))>>]

(* plot_step: of more points than subsamples every so many are taken, from  *)
(* an offset on and round the end of the series; 0 stands for no subsamples. *)
Subsampled(series, subsamples, offset) ==
    LET n == Len(series)
        stride == n \div subsamples
        count == (n + stride - 1) \div stride
    IN  IF subsamples = 0 \/ n <= subsamples THEN series
        ELSE [i \in 1 .. count |-> series[(((i - 1) * stride + offset) % n) + 1]]

(* _save_as_csv: the outer join of series on x; a key that several series   *)
(* hold several times has a row for every combination.                      *)
JoinedRows(all) ==
    [x \in UNION {Xs(all[i]) : i \in DOMAIN all} |->
        FoldSeq(LAMBDA s, rows : rows * (IF PointsAt(s, x) = <<>> THEN 1 ELSE Len(PointsAt(s, x))),
                1, all)]

-----------------------------------------------------------------------------
(* SeriesAverageMeter. *)

NewMeter(weighted) ==
    [weighted |-> weighted, numer |-> 0, denom |-> 0, last_x |-> 0, last_y |-> 0]

(* Seeded fault: the new value is taken for the time that has passed.       *)
MeterPutNewValue(m, x, y) ==
    LET passed == IF m.last_x = 0 THEN 0 ELSE x - m.last_x
    IN  [m EXCEPT !.numer = @ + (IF m.weighted THEN y * passed ELSE y),
                  !.denom = @ + (IF m.weighted THEN passed ELSE 1),
                  !.last_x = x, !.last_y = y]

(* put: a last x of zero counts as none, so that the time up to the second  *)
(* point of a series that starts at zero is not in the mean.                *)
MeterPut(m, x, y) ==
    LET passed == IF m.last_x = 0 THEN 0 ELSE x - m.last_x
    IN  [m EXCEPT !.numer = @ + (IF m.weighted THEN m.last_y * passed ELSE y),
                  !.denom = @ + (IF m.weighted THEN passed ELSE 1),
                  !.last_x = x, !.last_y = y]

(* print_stats writes nothing for a meter without a denominator.            *)
HasMean(m) == m.denom # 0
=============================================================================
