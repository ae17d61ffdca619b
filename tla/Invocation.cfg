SPECIFICATION Spec
CHECK_DEADLOCK FALSE
INVARIANTS
  WrongInputIsHarmless
  PreviewNeedsNoSecrets
  AcceptedAtStartAcceptedDaily
