SPECIFICATION Spec
CONSTANTS
  Scripts = {"E0", "E3", "E4"}
  Runs = 2
  Powers = {3}
  MaxPower = 3
  CpuPower = 4
  CounterRange = 10
  CounterStarts = {0}
  Interval = 1
  MaxRun = 2
  JoinTimeout = 1
  Pause = 1
  IdleReadings = 1
  MinSamples = 2
  MaxFailures = 1
INVARIANTS
  OwnSamples
  WithinEnvelope
  NetWithinMeans
  AcceptedWasWatched
PROPERTY
  SeriesEnds
CHECK_DEADLOCK FALSE
