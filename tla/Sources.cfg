SPECIFICATION Spec
CONSTANTS
  MaxEdits = 2
  MaxRestarts = 1
  StackSize = 4
INVARIANTS
  SelectionEnds
CHECK_DEADLOCK FALSE
