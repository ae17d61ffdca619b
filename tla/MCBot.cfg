SPECIFICATION BotSpec
CONSTANTS
  Proc = {p1, p2, p3}
  Instants <- MCTwoDays
  Modes = {"automatic", "manual"}
  max_attempts = 1
  MaxDelay = 300
  Preemption = FALSE
  Settings <- MCTwoDaysSettings
  Attended <- MCAttended
  Healthy = TRUE
  Published <- MCPublished
SYMMETRY Symmetry
CHECK_DEADLOCK FALSE
INVARIANT BotTypeOK
PROPERTIES
  DayServed
  NeverBlockedByItself
