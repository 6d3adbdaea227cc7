CONSTANTS
  top = top
  field = field
  v1 = v1
  v2 = v2
  t1 = t1
  tx = tx
  ItemTemplate = ItemTemplate
  Null = Null
  Mismatch = Mismatch
  Absent = Absent
  Unparsable = Unparsable
  NoText = NoText
  NoDraft = NoDraft
  Control <- MCControl
  Grouped = {field}
  TextControl = {field, ItemTemplate}
  Nullable = {}
  Value = {v1, v2}
  Options <- MCNoOptions
  MinItems = 0
  MaxItems = 2
  Text = {t1, tx}
  Parse <- MCParse
  ItemSeed = v1
  ListSeed <- MCListSeed
  GroupSeed <- MCGroupSeed
  HostData <- MCHostData
  WriteSets = {}
  MaxRevision = 2
  MaxIdentity = 5
  MaxOperations = 2
SPECIFICATION WriteSpec
PROPERTIES
  RestoredListKeepsIdentities
CHECK_DEADLOCK FALSE
