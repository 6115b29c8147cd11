CONSTANTS
  BaseInits = {"ready"}
  MaxAps = 1
  MaxRequests = 1
  MaxAppScans = 0
SPECIFICATION Spec
INVARIANTS
  TruthfulReport
