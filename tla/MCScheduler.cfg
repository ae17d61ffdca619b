SPECIFICATION ObservedSpec
CONSTANTS
  Instants <- MCInstants
  Settings <- MCSettings
INVARIANTS
  TypeOK
  NeverOverdue
PROPERTIES
  DailyTriggered
  EveryDayIsLaunched
