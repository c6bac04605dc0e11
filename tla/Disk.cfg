CONSTANTS
  Plugins <- MCPlugins
  Migrations <- MCMigrations
  Shape <- MCShape
  Clients = {player}
  Workers = {saver}
  High = 0
  Low = 1
  UIntMax = 5
  MaxTasks = 4
  MaxStarts = 3
  TimedTake = FALSE
  MayFail = FALSE
  Lines = 2
  MaxStops = 2
  DiskFails = FALSE
SPECIFICATION SpecAll
INVARIANTS
  VersionDescribesSchema
  ReadyIsComplete
  FailsOnlyWhenTorn
  ServesItsQueries
  FileAndQueue
PROPERTY Implements
