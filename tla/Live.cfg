SPECIFICATION SpecAll
CONSTANTS
  Askers = {a}
  Updates = {u, v}
  MaxFiles = 2
  MaxAsks = 1
  Nobody = nobody
  c1 = c1
  c2 = c2
  w1 = w1
  w2 = w2
INVARIANTS
  AnswersAreWhole
  EventsFollow
PROPERTIES
  CallsReturn
  TreesAreRecent
  ChangesEnd
CHECK_DEADLOCK FALSE
