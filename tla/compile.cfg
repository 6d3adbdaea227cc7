CONSTANTS
  Input <- MCInput
  BuiltIn <- MCBuiltIn
  BuiltInPlaces <- MCBuiltInPlaces
  MaxTraversal = 8
  MaxProjection = 10
  MaxExponent = 2
  MaxIndex = 9
  MaxIndexDigits = 1
  MaxNamespaces = 2
  MaxOccurrences = 2
  OutputLimits <- MCOutputLimits
  Configurations <- MCConfigurations
  MaxShown = 2
SPECIFICATION CompilationSpec
INVARIANTS
  BasesAreLexical
  ReferencesLeadWhereWritten
  SubschemasAreFollowed
  WhatAppliesIsExpanded
  CyclesAreReported
  EveryPropertyIsPlaced
  ControlsTakeWhatIsAdmitted
  SeedsAreAdmitted
  LengthsAreAdmitted
  ConditionsChangeNothing
  NumbersMeanWhatTheySpell
  DefinitionIsATree
  UiSchemaIsFollowed
  FindingsLeadToTheirNodes
CHECK_DEADLOCK FALSE
