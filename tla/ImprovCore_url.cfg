CONSTANTS
  HalfRange = 4
  WindowMs = 3
  MaxGap = 2
  BootTimes = {0}
  MaxTime = 7
  MaxRequests = 1
  MaxAps = 1
  SsidLens <- MCSsidLens
  PwLens <- MCPwLens
  DeviceInfos <- MCDeviceInfosUrl
  Ssids = {hidden, home}
  Hidden = hidden
  Rssis <- MCRssis
  MaxRecords = 1
SPECIFICATION Spec
INVARIANTS
  UrlHasIp
