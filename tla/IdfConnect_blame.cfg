CONSTANTS
  MaxAttempts = 2
  MaxWaits = 1
  MaxPolls = 1
SPECIFICATION Spec
INVARIANTS
  OldLinkNotBlamed
