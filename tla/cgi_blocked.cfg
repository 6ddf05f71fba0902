SPECIFICATION FairSpec
CONSTANTS
  Bodies <- MCNoBody
  Timeouts <- MCTimeouts
  PipeCap = 1
  MaxOutput = 1
  MayFork = TRUE
  Chunks = {"text", "nul"}
PROPERTIES
  EveryCallEnds
CHECK_DEADLOCK FALSE
