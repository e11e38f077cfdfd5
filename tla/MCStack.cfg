\* The registers of a waiting thread, for both layouts of its frame.
SPECIFICATION StackSpec
CONSTANTS
  Sizes <- MCSizes
  Beyond = Beyond
INVARIANTS
  StackTypeOK
  TrueRegisters
  WithinBuffer
PROPERTIES
  AmpleBufferFilled
CHECK_DEADLOCK FALSE
