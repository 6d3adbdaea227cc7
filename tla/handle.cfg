CONSTANTS
  list = list
  i1 = i1
  i2 = i2
  watcher = watcher
  Node = {list}
  List = list
  Item = {i1, i2}
  ValueSignal = {"summary"}
  Watcher = {}
  Watches <- MCWatches
  MaxUnneeded = 1
SPECIFICATION FairHandleSpec
INVARIANTS
  SignalsMirrorTheForm
  NobodyMissesAChange
PROPERTIES
  ClosureIsAlone
  PageCatchesUp
CHECK_DEADLOCK FALSE
