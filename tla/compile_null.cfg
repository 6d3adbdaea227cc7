CONSTANTS
  Input <- MCNullInput
  BuiltIn <- MCBuiltIn
  BuiltInPlaces <- MCBuiltInPlaces
  MaxTraversal = 8
  MaxProjection = 10
  MaxExponent = 2
  MaxIndex = 9
  MaxIndexDigits = 1
  MaxNamespaces = 2
  MaxOccurrences = 2
  OutputLimits <- MCOutputLimits
  Configurations <- MCConfigurations
  MaxShown = 2
SPECIFICATION CompilationSpec
INVARIANT
  EmptyChoicesHaveASource
CHECK_DEADLOCK FALSE
