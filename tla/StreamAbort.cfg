CONSTANTS
  Clients = {curl}
  Workers = {conn}
  Conn = conn
  Curl = curl
  High = 0
  MaxRecycled = 1
  UIntMax = 5
  PutTimed = FALSE
  TakeTimed = FALSE
  Size = 3
  Offsets = {0}
  HeadSize = 2
  MaxUnits = 2
  Lengths = {TRUE}
  ErrorCodes = {}
  MaxErrors = 0
  MayAbort = TRUE
SPECIFICATION PFairSpec
CHECK_DEADLOCK FALSE
PROPERTY RequestEnds
