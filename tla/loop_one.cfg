SPECIFICATION Spec
CONSTANTS
  Servers = {s1}
  Fds = {fd1}
  NoClient = NoClient
  Watched = fd1
  Requests <- MCRequests
  ErrorPages <- MCPages
  MaxBody = 1
  ReadMax = 2
  RcvMax = 2
  SndMax = 1
  BodyLen = 2
  timeout_seconds = 0
  MaxBacklog = 1
  MAX_EVENTS = 2
INVARIANTS
  TypeOK
  WriteInterestIffPending
  NoLostWriteWakeup
  NoUnparsedRequest
  HeaderMatchesFate
  ReadStopsOnlyToClose
  ErrorIsFinal
PROPERTIES
  ReplyNotCut
  ExitsHaveCause
  ConnectionKept
CHECK_DEADLOCK FALSE
