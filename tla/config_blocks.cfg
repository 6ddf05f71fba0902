SPECIFICATION Spec
CONSTANTS
  Ports = {80, 81}
  Paths <- MCPaths
  Names <- MCNames
  Values = {"v"}
  NULL = NULL
  MaxServers = 2
  MaxDepth = 3
  MaxMisread = 1
INVARIANTS
  DirectiveInItsBlock
CHECK_DEADLOCK FALSE
