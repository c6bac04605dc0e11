SPECIFICATION Spec
INVARIANTS
  EntriesOpen
  ButtonsTell
  NextContinues
PROPERTY StoreFollows
CHECK_DEADLOCK FALSE
