SPECIFICATION FairSpec
CONSTANTS
  Proc = {p1, p2}
  Instants <- MCWindow
  Modes = {"automatic", "manual", "dry_run"}
  max_attempts = 2
  MaxDelay = 300
  Preemption = FALSE
PROPERTIES
  EveryRunEnds
  StepsRunOut
