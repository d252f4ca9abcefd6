SPECIFICATION FairSpec
CONSTANTS
  MsbFirst = TRUE
  MaxSample = 3
INVARIANTS Inv OneSample
PROPERTIES CallsReturn
