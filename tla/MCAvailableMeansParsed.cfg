\* The read of a field fails.
SPECIFICATION SessionSpec
CONSTANTS
  Headers <- MCHeaders
  HeaderFaults <- MCFieldFaults
  Block <- MCBlock
  Null = 0
  Reserved = 1
  MaxThreads = 2
INVARIANTS
  AvailableMeansParsed
CHECK_DEADLOCK FALSE
