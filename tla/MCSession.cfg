\* Sessions that begin, grow and end, with applications that are replaced.
SPECIFICATION SessionSpec
CONSTANTS
  Headers <- MCHeaders
  HeaderFaults <- MCNoFault
  Block <- MCBlock
  Null = 0
  Reserved = 1
  MaxThreads = 2
INVARIANTS
  MetadataTypeOK
  ExaminedOnce
  AvailableIsSupported
  HeapOwned
PROPERTIES
  ShutdownFrees
  EventuallyAvailable
CHECK_DEADLOCK FALSE
