CONSTANTS
  top = top
  field = field
  v1 = v1
  v2 = v2
  t1 = t1
  tx = tx
  ItemTemplate = ItemTemplate
  Null = Null
  Mismatch = Mismatch
  Absent = Absent
  Unparsable = Unparsable
  NoText = NoText
  Control <- MCControl
  Grouped = {field}
  TextControl = {field}
  Nullable = {field}
  Value = {v1, v2}
  Options <- MCOptions
  MinItems = 0
  MaxItems = 2
  Text = {tx}
  Parse <- MCBlockedParse
  ItemSeed = v1
  ListSeed <- MCListSeed
  GroupSeed <- MCGroupSeed
  HostData <- MCChoiceData
  WriteSets <- MCHostWrites
  MaxRevision = 3
  MaxIdentity = 6
  Source = {s1}
  Finding <- MCFinding
  Batches <- MCBatches
  MaxActiveFindings = 2
  MaxBuffers = 2
  Required = {}
  WriteOnly = {top}
  AnnotatedReadOnly = {}
  Policies <- MCImmediate
  ViolationsOf <- MCViolationsOf
SPECIFICATION FacadeSpec
PROPERTIES
  PresentersAreTold
CHECK_DEADLOCK FALSE
