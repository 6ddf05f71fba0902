SPECIFICATION FairSpec
CONSTANTS
  Bodies <- MCBodies
  Timeouts <- MCTimeouts
  PipeCap = 2
  MaxOutput = 3
  MayFork = TRUE
  Chunks = {"text", "nul"}
INVARIANTS
  TypeOK
  CallLeavesNothing
  StdinEnds
  BodyArrivesWhole
  OutputComplete
  OutputBoundedByPipe
PROPERTIES
  CallEndsUnlessPipeBlocks
CHECK_DEADLOCK FALSE
