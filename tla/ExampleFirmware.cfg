\* The counter wraps at 8: the run sees the sketch's second window from 8 on, and
\* its end.
CONSTANTS
  HalfRange = 4
  WindowMs = 3
  MaxStep = 1
  ReadMax = 2
  RxSize = 3
  MaxBytes = 3
  MaxTime = 12
SPECIFICATION FairSpec
INVARIANTS
  NoDeafness ClosesInTime HostIsTold
PROPERTIES
  WindowBytesToCore EveryByteTaken
