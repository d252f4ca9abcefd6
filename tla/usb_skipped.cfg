SPECIFICATION Spec
CONSTANTS
  EP0_BUFSIZE = 2
  Lengths = {2, 7}
  FifoSize = 2
  Patient = TRUE
  Orderly = TRUE
  Errors = FALSE
INVARIANTS LastBufferSaved
