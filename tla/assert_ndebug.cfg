\* Five operations through two slots, in a build with and one without NDEBUG.
SPECIFICATION BenchSpec
CONSTANTS
  None = None
  Capacity = 2
  Laps = 2
  Operations = 5
  Values <- Numbers
  Trivial = FALSE
  MayThrow = FALSE
  StaleReads = FALSE
INVARIANT
  PoppedHasValue
