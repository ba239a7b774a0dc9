\* Four writers, totals of 1 to 18 bytes modulo 16.
SPECIFICATION FilesSpec
CONSTANTS
  Writers <- FourWriters
  Arguments <- SomeArguments
  SizeWord = 16
INVARIANTS
  FilesTypeOK
  LeftByThrowOrRefusal
  FillsItsSpace
PROPERTIES
  MeasuresAllOnce
  MainEnds
