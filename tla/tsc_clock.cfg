\* Two threads, either build, a counter twice as fast as the clock.
SPECIFICATION Spec
CONSTANTS
  t1 = t1
  t2 = t2
  Threads <- TwoThreads
  Windows <- SomeWindows
  DefaultWindow = 2
  MinWindow = 1
  CyclesPerNs = 2
  IdleHorizon = 2
  MeasureHorizon = 8
  Horizon = 9
INVARIANTS
  TypeOK
  ReadsFinished
  MeasuredWholeWindow
  AccurateUnlessHeldUp
PROPERTIES
  NeverGoesBack
  CallsReturn
