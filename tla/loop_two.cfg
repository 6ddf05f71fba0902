SPECIFICATION Spec
CONSTANTS
  Servers = {s1, s2}
  Fds = {fd1, fd2}
  NoClient = NoClient
  Watched = fd1
  Requests <- MCClosing
  ErrorPages <- MCPages
  MaxBody = 1
  ReadMax = 1
  RcvMax = 1
  SndMax = 1
  BodyLen = 1
  timeout_seconds = 0
  MaxBacklog = 1
  MAX_EVENTS = 3
INVARIANTS
  OneOwner
  PendingEventsHaveClients
SYMMETRY MCSymmetry
CONSTRAINT Quiet
CHECK_DEADLOCK FALSE
