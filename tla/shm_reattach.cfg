\* Sides that open a section at any time, with every load up to date.
SPECIFICATION Spec
CONSTANTS
  short = short
  long = long
  None = None
  Torn = Torn
  Messages <- TwoMessages
  SizeOf <- Sizes
  PayloadSize = 2
  Capacity = 2
  Laps = 2
  Reattach = {"producer", "consumer"}
  StaleReads = FALSE
PROPERTY
  RefusesWhenFullOrEmpty
