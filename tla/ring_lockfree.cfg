\* Four slots, indices modulo 8, stale loads, objects with lifetimes, throwing
\* constructors.
SPECIFICATION Spec
CONSTANTS
  a = a
  b = b
  None = None
  Capacity = 4
  Laps = 2
  Values <- TwoValues
  Trivial = FALSE
  MayThrow = TRUE
  StaleReads = TRUE
INVARIANTS
  TypeOK
  NoDataRace
  SlotLifetimes
  IInv
SYMMETRY ValueSymmetry
PROPERTIES
  PromisesKept
  FifoSpec
