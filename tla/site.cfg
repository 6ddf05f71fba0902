SPECIFICATION Spec
CONSTANTS
  Filename <- MCFilename
  Kilo = 2
  LongMax = 24
  Servers <- MCServers
  Requests <- MCRequests
  Nodes <- MCNodes
  Start <- MCStart
  Denied <- MCDenied
  Contents <- MCContents
  MaxRequests = 2
  MaxChanges = 2
INVARIANTS
  SiteTypeOK
  LongestLocation
  StableSiteAnswer
  ListingComplete
  UploadStored
  FailureChangesNothing
  DeleteIsExact
  FormShown
  LimitAsWritten
CHECK_DEADLOCK FALSE
