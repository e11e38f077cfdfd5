\* A buffer that just fits.
SPECIFICATION StackSpec
CONSTANTS
  Sizes <- MCSizes
  Beyond = Beyond
INVARIANTS
  ExactBufferFilled
CHECK_DEADLOCK FALSE
