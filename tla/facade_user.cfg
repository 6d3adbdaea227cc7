CONSTANTS
  top = top
  field = field
  v1 = v1
  v2 = v2
  t1 = t1
  tx = tx
  ItemTemplate = ItemTemplate
  Null = Null
  Mismatch = Mismatch
  Absent = Absent
  Unparsable = Unparsable
  NoText = NoText
  Control <- MCControl
  Grouped = {field}
  TextControl = {field, ItemTemplate}
  Nullable = {field}
  Value = {v1, v2}
  Options <- MCNoOptions
  MinItems = 0
  MaxItems = 2
  Text = {t1, tx}
  Parse <- MCParse
  ItemSeed = v1
  ListSeed <- MCListSeed
  GroupSeed <- MCGroupSeed
  HostData <- MCHostData
  WriteSets <- MCWriteSets
  MaxRevision = 4
  MaxIdentity = 6
  Source = {s1, s2}
  Finding <- MCFinding
  Batches <- MCUserBatches
  MaxActiveFindings = 2
  MaxBuffers = 2
  Required = {}
  WriteOnly = {top}
  AnnotatedReadOnly = {}
  Policies <- MCPolicies
  ViolationsOf <- MCViolationsOf
SPECIFICATION UserFacadeSpec
INVARIANTS
  FacadeTypeOK
  TopologyMatchesData
  ValidationDescribesData
  ExternalFindingsAreCurrent
  RetainedWithinLimits
PROPERTIES
  RevisionsTellChanges
  SurvivorsKeepTheirState
  ReadySubmitsWhatIsShown
CHECK_DEADLOCK FALSE
