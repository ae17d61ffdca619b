SPECIFICATION FairSpec
CONSTANTS
  N = 3
  Grace = 2
  Denied = {2}
  Refused = {}
  Reaper = FALSE
INVARIANTS
  NoSurvivors
  GraceIsGiven
  AskedBeforeKilled
  WaitsForNobody
PROPERTIES
  ShutsDown
  ShutdownGoesOn
