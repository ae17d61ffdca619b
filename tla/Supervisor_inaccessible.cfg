SPECIFICATION Spec
CONSTANTS
  N = 2
  Grace = 2
  Denied = {1}
  Refused = {1}
  Reaper = FALSE
INVARIANT OthersAreAsked
