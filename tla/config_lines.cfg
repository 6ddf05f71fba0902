SPECIFICATION MainSpec
CONSTANTS
  Ports = {80, 81}
  Paths <- MCPaths
  Names <- MCNames
  Values = {"v"}
  NULL = NULL
  MaxServers = 2
  MaxDepth = 3
  MaxMisread = 1
  Inherited = {}
  LastFd = 3
INVARIANTS
  MainTypeOK
  PortsUnique
  LocationExists
  AcceptedFilesBalance
  DirectiveInItsBlockUntilClose
  EveryServerListens
  CleanUpIsExact
CHECK_DEADLOCK FALSE
