SPECIFICATION FairSpec
CONSTANTS
  MaxSize = 3
  ByteSteps = 2
INVARIANTS Inv
PROPERTIES CallsReturn
