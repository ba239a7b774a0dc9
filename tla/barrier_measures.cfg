\* What the batches measure, and what can keep them from ending.
SPECIFICATION BarrierSpec
CONSTANTS
  first = first
  second = second
  NoBatch = NoBatch
  Workers <- TwoWorkers
  BatchCount = 3
  BatchSize = 2
INVARIANTS
  BarrierTypeOK
  MeasuredWhole
PROPERTY
  EndsUnlessReportLost
CHECK_DEADLOCK FALSE
