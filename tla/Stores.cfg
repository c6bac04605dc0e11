CONSTANTS
  Albums = {1, 2}
  Songs = {1, 2, 3}
  AlbumOf <- MCAlbumOf
  PageSize = 2
  MaxChanges = 1
  MaxStarts = 2
SPECIFICATION SpecAll
INVARIANTS
  StatsAgree
  StoreFollowsServer
PROPERTIES
  RowsKept
  CachingEnds
CHECK_DEADLOCK FALSE
