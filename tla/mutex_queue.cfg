\* Two threads, two slots, indices modulo 4, objects with lifetimes.
SPECIFICATION Spec
CONSTANTS
  a = a
  b = b
  t1 = t1
  t2 = t2
  None = None
  NoThread = NoThread
  Capacity = 2
  Laps = 2
  Values <- TwoValues
  Threads <- TwoThreads
  Trivial = FALSE
  MayThrow = TRUE
INVARIANTS
  TypeOK
  SizesInRange
PROPERTIES
  FifoSpec
  MutexReleased
