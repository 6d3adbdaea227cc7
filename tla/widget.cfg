SPECIFICATION WidgetSpec
CONSTANTS
  v1 = v1
  v2 = v2
  t1 = t1
  t1b = t1b
  t2 = t2
  tl = tl
  tx = tx
  Texts <- MCTexts
  TextValues <- MCTextValues
  Parse <- MCParse
  Spelled <- MCSpelled
  Unparsable = Unparsable
  TooLong <- MCTooLong
  Options <- MCOptions
  Unknown = Unknown
  Null = Null
  Absent = Absent
  Foreign = Foreign
  Blank = Blank
  Idle = Idle
  ScriptsFirst = TRUE
  MaxCalls = 5
PROPERTIES
  EarlierCompositionsAreDropped
  WidgetCatchesUp
CHECK_DEADLOCK FALSE
