SPECIFICATION Spec
CONSTANTS
  Runs = 2
  Watts = {0, 20, 40}
  Baselines <- MCBaselines
  CpuJoules <- MCCpuJoules
  GpuJoules = {0, 20, 60}
  Counts = {20, 30}
  Gaps = {0, 2}
  MinSamples = 25
  PipeCapacity = 2
  TraceUnits = {4}
  MaxReadings = 4
  FlatAfter = 2
  MaxFaults = 0
PROPERTY
  AlwaysFinishes
CHECK_DEADLOCK FALSE
