CONSTANTS
  list = list
  i1 = i1
  i2 = i2
  watcher = watcher
  Node = {list}
  List = list
  Item = {i1, i2}
  ValueSignal = {"summary"}
  Watcher = {watcher}
  Watches <- MCWatches
  MaxUnneeded = 1
SPECIFICATION HandleSpec
INVARIANTS
  WatchersMissNoChange
CHECK_DEADLOCK FALSE
