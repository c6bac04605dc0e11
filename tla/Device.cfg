SPECIFICATION SpecAll
CONSTANTS
  Uris = {"u1", "u2"}
  MaxInit = 2
  MaxQueue = 2
  MaxForeign = 1
  MaxOps = 2
INVARIANTS
  DiskFollows
  SourcesAgree
  PlaylistComesBack
PROPERTIES
  InsertPlace
  SeekPlaysIt
  StoppedWhenInactive
  ConvergesPlaying
CHECK_DEADLOCK FALSE
