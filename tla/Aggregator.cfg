SPECIFICATION Spec
CONSTANTS
  Events <- MCEvents
  Window = 2
  Price = 1
  Scale <- MCScale
  Grain = 10
  MaxEvents = 4
  MaxScrapes = 2
INVARIANTS
  TokensConserved
  AveragesBounded
  StatesInv
  PageOfOneInstant
PROPERTY
  CounterNeverFalls
CHECK_DEADLOCK FALSE
