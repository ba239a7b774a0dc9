\* Processes close, die and come back while the queue supports it; stale loads.
SPECIFICATION Spec
CONSTANTS
  short = short
  long = long
  None = None
  Torn = Torn
  Messages <- TwoMessages
  SizeOf <- Sizes
  PayloadSize = 2
  Capacity = 2
  Laps = 2
  Reattach = {}
  StaleReads = TRUE
INVARIANTS
  TypeOK
  ReportedSizeFits
  SizesInRange
PROPERTY
  FifoSpec
