SPECIFICATION Spec
CONSTANTS
  Size = 3
  e1 = e1
  e2 = e2
  e3 = e3
  Events = {e1, e2, e3}
  Nil = Nil
INVARIANTS
  WindowOccupied
PROPERTY
  ImplementsFifo
