SPECIFICATION Spec
CONSTANTS
  Workers = {w1, w2}
  Deliveries = {d1}
  Contents <- MCContents
  MaxAttempts = 3
  None = None
SYMMETRY Symmetry
CHECK_DEADLOCK FALSE
INVARIANTS
  OnlyGenuineEvents
  SettledIsHandled
