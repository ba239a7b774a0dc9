\* Three threads whose constructor may throw.
SPECIFICATION Spec
CONSTANTS
  t1 = t1
  t2 = t2
  t3 = t3
  Threads <- ThreeThreads
  Free = Free
  MayThrow = TRUE
INVARIANTS
  TypeOK
  ConstructsOnce
  ResultIsConstructed
PROPERTY
  CallsReturn
