SPECIFICATION FairSpec
CONSTANTS
  Pids = {1, 2}
  Targets = {0, 1}
  GpuCount = 1
  ChanSize = 1
  Slices = {1, 2}
  MaxNs = 3
  MaxTokens = 3
INVARIANTS
  TimeConserved
  WindowInv
  TokensConserved
PROPERTIES
  TargetReported
  EverySliceCounted
