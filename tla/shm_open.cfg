\* Four queues of three processes that may die, and system calls that may fail.
SPECIFICATION Spec
CONSTANTS
  a1 = a1
  a2 = a2
  b = b
  c = c
  p1 = p1
  p2 = p2
  p3 = p3
  small = small
  large = large
  None = None
  Queues <- FourQueues
  Process <- Owners
  Layout <- TwoLayouts
  SizeOf <- Sizes
  MayFail = TRUE
  MayCrash = TRUE
INVARIANTS
  TypeOK
  OpenIsReady
  NoHandleLeak
  WaitHasCreator
PROPERTY
  OpenReturns
