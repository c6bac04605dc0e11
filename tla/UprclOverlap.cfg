SPECIFICATION Spec
CONSTANTS
  Askers = {a}
  Updates = {u, v}
  MaxFiles = 2
  MaxAsks = 2
  Nobody = nobody
PROPERTIES
  MessageDuringUpdate
CHECK_DEADLOCK FALSE
