\* Does the benchmark end?
SPECIFICATION BarrierSpec
CONSTANTS
  first = first
  second = second
  NoBatch = NoBatch
  Workers <- TwoWorkers
  BatchCount = 3
  BatchSize = 2
PROPERTY
  BenchmarkEnds
CHECK_DEADLOCK FALSE
