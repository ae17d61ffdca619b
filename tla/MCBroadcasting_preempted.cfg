SPECIFICATION Spec
CONSTANTS
  Proc = {p1, p2}
  Instants <- MCWindow
  Modes = {"automatic"}
  max_attempts = 2
  MaxDelay = 300
  Preemption = TRUE
SYMMETRY Symmetry
PROPERTY WindowedRequests
