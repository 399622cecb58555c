SPECIFICATION RateSpec
CONSTANTS
  Default = defaultAgent
  Empty = noId
  Streams = {s1, s2}
  NoCall = noCall
  AgentIds = {defaultAgent, agentA}
  Limit = 2
  Minute = 2
  MaxTime = 6
  MaxAdmitted = 5
  MaxRejected = 2
SYMMETRY Interchangeable
INVARIANTS
  WindowBounded
  AnyMinuteBounded
PROPERTY
  RecoversAfterWindow
CHECK_DEADLOCK FALSE
