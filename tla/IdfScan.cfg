CONSTANTS
  BaseInits = {"unbound", "bound", "ready"}
  MaxAps = 1
  MaxRequests = 3
  MaxAppScans = 2
SPECIFICATION FairSpec
INVARIANTS
  OnlyOwnScans RecordsStable
PROPERTIES
  ScanAnswered
