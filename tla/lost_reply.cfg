SPECIFICATION Spec
CONSTANTS
  Servers = {s1}
  Fds = {fd1}
  NoClient = NoClient
  Watched = fd1
  Requests <- MCClosing
  ErrorPages <- MCPages
  MaxBody = 1
  ReadMax = 2
  RcvMax = 2
  SndMax = 1
  BodyLen = 2
  timeout_seconds = 1
  MaxBacklog = 1
  MAX_EVENTS = 2
INVARIANTS
  RequestGetsReply
CHECK_DEADLOCK FALSE
