\* The whole walk, any read failing.
SPECIFICATION MCSpec
CONSTANTS
  AddrSpace = 64
  Thread <- MCThread2
  TopThreadsList = 44
  ListNodeOffset = 4
  ChildrenNodeOffset = 8
  NextOffset = 1
  Name = {4, 16, 28}
  NoName = NoName
  Context = {}
  NoContext = NoContext
  Forests <- MCForests
  Tcbs <- MCTwoTcbs
  CurrentWords <- MCCurrentWords
  TcbFaults <- MCFieldFaults
  LeftoverBytes <- MCLeftover
  LinkFaults = TRUE
  CurrentFaults = TRUE
  JunkWords <- MCJunkWords
  JunkBody <- MCJunkBody
  MaxDepth = 4
  MaxObjects = 3
INVARIANTS
  TypeOK
  SnapshotComplete
  NoForeignData
  NoOldCurrent
  Bounded
CHECK_DEADLOCK FALSE
