CONSTANTS
  Uris = {"u1", "u2"}
  MaxInit = 2
  MaxQueue = 2
  MaxForeign = 1
  MaxOps = 2
SPECIFICATION PlSpec
PROPERTIES
  InsertAtStart
CHECK_DEADLOCK FALSE
