SPECIFICATION TokenSpec
CONSTANTS
  MaxGenerated = 5
  MaxRestarts = 3
  MaxPhantom = 3
INVARIANTS
  PhantomsBounded
  FailuresLoseNothing
PROPERTY
  SpikesBounded
