\* The counter wraps at 8; the boots put the deadline before, at and after it.
CONSTANTS
  HalfRange = 4
  TimeoutMs = 3
  PollMs = 1
  MaxLate = 1
  BootTimes = {0, 3, 4, 5, 7}
  Rssis <- MCRssis
  MaxAps = 2
  MaxCalls = 3
  MaxTime = 12
SPECIFICATION FairSpec
INVARIANTS
  TimeoutKept FailedLinkGivenUp PinIsStrongest ListReleased
PROPERTIES
  SuccessGenuine ScanAnswered
\* The host may stop asking.
CHECK_DEADLOCK FALSE
