SPECIFICATION ArrayViewSpec
CONSTANTS
  HostLists <- MCHostLists
  MaxItem = 4
  MaxCalls = 4
  None = None
PROPERTIES
  MessagesAreApart
  LastOperationIsAnnounced
  FocusFollows
CHECK_DEADLOCK FALSE
