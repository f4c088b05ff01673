SPECIFICATION Spec
CONSTANTS
  CommandLines <- MCCommandLines
  LengthTrace <- MCLengthTrace
  ReplayTrace <- MCReplayTrace
  IntervalTimes <- MCIntervalTimes
  Totals <- MCTotals
  LongestGap = 3
INVARIANTS
  ConfigAsDescribed
  WeightsAndCacheFit
  RequestsServable
  WorkloadAsAsked
