SPECIFICATION Spec
CONSTANTS
  Proc = {p1, p2}
  Instants <- MCInstants
  Modes = {"automatic", "manual"}
  max_attempts = 2
  MaxDelay = 300
  Preemption = FALSE
SYMMETRY Symmetry
INVARIANTS
  TypeOK
  OneBroadcaster
  AtMostOneAutomaticDelivery
  SuccessMeansDelivered
  OwnKeyIsSent
  NoOversleeping
  WindowInvariant
  MessageInvariant
PROPERTIES
  WindowedRequests
  OutagesArePolledAway
  DailyPromise
  LockContract
