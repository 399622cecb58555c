SPECIFICATION Spec
CONSTANTS
  N = 2
  Concurrency = 2
  Tokens = 2
  MaxPrompt = 2
  MaxLoads = 2
  MaxScrapes = 1
  MaxCrashes = 1
INVARIANTS
  CountsExact
  ScrapeCoherent
PROPERTIES
  ConsistentIsExact
  AlarmHasCause
  LoadEnds
CHECK_DEADLOCK FALSE
