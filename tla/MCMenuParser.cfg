SPECIFICATION Spec
CONSTANTS
  Names = {"a", "b"}
  Menus <- MCMenus
  Targets = {0, 1, 2, 3}
  NoDate = 0
CHECK_DEADLOCK FALSE
INVARIANTS
  EveryItemOnceOnItsDate
  ListedByShift
  RefusedIfUnreadable
