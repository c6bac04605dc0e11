CONSTANTS
  Clients = {curl}
  Workers = {conn}
  Conn = conn
  Curl = curl
  High = 0
  MaxRecycled = 1
  UIntMax = 5
  PutTimed = FALSE
  TakeTimed = TRUE
  Size = 5
  Offsets = {0, 1}
  HeadSize = 2
  MaxUnits = 3
  Lengths = {TRUE, FALSE}
  ErrorCodes = {"retry", "fatal"}
  MaxErrors = 2
  MayAbort = TRUE
SPECIFICATION Spec
INVARIANTS
  StreamInOrder
PROPERTY CalmRequestEnds
CHECK_DEADLOCK FALSE
