\* Ten messages through four trivial slots whose indices wrap after eight.
SPECIFICATION RoundtripSpec
CONSTANTS
  None = None
  Capacity = 4
  Laps = 2
  MessageCount = 10
  Values <- Messages
  Trivial = TRUE
  MayThrow = FALSE
  StaleReads = TRUE
INVARIANT
  RoundtripAsserts
PROPERTIES
  FifoSpec
  RoundtripEnds
