\* The whole walk, every read succeeding.
SPECIFICATION MCSpec
CONSTANTS
  AddrSpace = 64
  Thread <- MCThread3
  TopThreadsList = 44
  ListNodeOffset = 4
  ChildrenNodeOffset = 8
  NextOffset = 1
  Name = {4, 16, 28}
  NoName = NoName
  Context = {}
  NoContext = NoContext
  Forests <- MCForests
  Tcbs <- MCTwoTcbs
  CurrentWords <- MCCurrentWords
  TcbFaults <- MCNoFault
  LeftoverBytes <- MCZero
  LinkFaults = FALSE
  CurrentFaults = FALSE
  JunkWords <- MCNone
  JunkBody <- MCJunkBody
  MaxDepth = 4
  MaxObjects = 4
INVARIANTS
  TypeOK
  IteratorsOnList
  ListedOnce
  SnapshotComplete
  CurrentCorrect
  LookupFindsListed
  Bounded
  PoolBounded
PROPERTIES
  ImplementsSnapshot
  UpdateReturns
