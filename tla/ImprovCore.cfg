\* The counter wraps at 6; a boot at 5 puts the deadline beyond the wrap.
CONSTANTS
  HalfRange = 3
  WindowMs = 2
  MaxGap = 1
  BootTimes = {5}
  MaxTime = 8
  MaxRequests = 3
  MaxAps = 1
  SsidLens <- MCSsidLens
  PwLens <- MCPwLens
  DeviceInfos <- MCDeviceInfos
  Ssids = {hidden, home, guest}
  Hidden = hidden
  Rssis <- MCRssis
  MaxRecords = 4
SPECIFICATION FairSpec
INVARIANTS
  RemainingHonest ScanReleased ScanAccounting AnsweredInOrder ScanReported
PROPERTIES
  ImplementsWindow LateFramesBounded WindowCloses
