\* A thread with floating point registers.
SPECIFICATION FrontendSpec
CONSTANTS
  AddrSpace = 64
  Thread <- MCThread
  TopThreadsList = 44
  ListNodeOffset = 4
  ChildrenNodeOffset = 8
  NextOffset = 1
  Name = {4, 16}
  NoName = NoName
  z = z
  a = a
  b = b
  Context = {z, a, b}
  NoContext = NoContext
  Zeros = z
  Forests <- MCForests
  Tcbs <- MCTcbsFp
  CurrentWords <- MCCurrentWords
  Stacks <- MCStacks
  TcbFaults <- MCNoFault
  LeftoverBytes <- MCZero
  LinkFaults = FALSE
  CurrentFaults = FALSE
  StartedFaults = FALSE
  ContextFaults = FALSE
  JunkWords <- MCNone
  JunkBody <- MCJunkBody
  MaxDepth = 3
  MaxObjects = 2
  Headers <- MCHeaders
  HeaderFaults <- MCNone
  QueryIds <- MCQueryIds
INVARIANTS
  ContextFits
CHECK_DEADLOCK FALSE
