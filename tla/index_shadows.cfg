SPECIFICATION Spec
CONSTANTS
  Filename <- MCFilename
  Kilo = 2
  LongMax = 24
  Servers <- MCServers
  Requests <- MCRequests
  Nodes <- MCNodes
  Start <- MCStart
  Denied <- MCDenied
  Contents <- MCContents
  MaxRequests = 1
  MaxChanges = 0
INVARIANT
  NamedFileServed
CHECK_DEADLOCK FALSE
