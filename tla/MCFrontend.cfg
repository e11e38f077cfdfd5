\* The calls of a debugger, every read of the lists succeeding.
SPECIFICATION MCSpec
CONSTANTS
  AddrSpace = 64
  Thread <- MCThread
  TopThreadsList = 44
  ListNodeOffset = 4
  ChildrenNodeOffset = 8
  NextOffset = 1
  Name = {4, 16}
  NoName = NoName
  z = z
  a = a
  b = b
  Context = {z, a, b}
  NoContext = NoContext
  Zeros = z
  Forests <- MCForests
  Tcbs <- MCTcbs
  CurrentWords <- MCCurrentWords
  Stacks <- MCStacks
  TcbFaults <- MCNoFault
  LeftoverBytes <- MCZero
  LinkFaults = FALSE
  CurrentFaults = FALSE
  StartedFaults = TRUE
  ContextFaults = TRUE
  JunkWords <- MCNone
  JunkBody <- MCJunkBody
  MaxDepth = 3
  MaxObjects = 2
  Headers <- MCHeaders
  HeaderFaults <- MCHeaderFaults
  QueryIds <- MCQueryIds
INVARIANTS
  FrontendTypeOK
  RegistersFresh
  RunningFromCpu
  EnumerationFaithful
  NothingBeforeStart
PROPERTIES
  AvailabilityStays
  ImplementsDebugView
CHECK_DEADLOCK FALSE
