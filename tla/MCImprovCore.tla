--------------------------- MODULE MCImprovCore ---------------------------
(* Small instances of ImprovCore and of the scan list for TLC. *)
EXTENDS ImprovCore, ScanReport

\* One legal value and the illegal ones next to each boundary.
MCSsidLens == {0, 1, 32, 33}
MCPwLens   == {0, 7, 8, 63, 64}

MCDeviceInfos == {[infoFits |-> TRUE,  url |-> "ip"],
                  [infoFits |-> FALSE, url |-> "oversize"]}
MCDeviceInfosUrl == {[infoFits |-> TRUE, url |-> "ip"],
                     [infoFits |-> TRUE, url |-> "fixed"]}

\* Three different strengths, all negative.
MCRssis == {-90, -60, -30}

ListsAreReports ==
  \A aps \in Scans :
    LET r == Reported(aps) IN
      /\ IsReport(r, aps)
      /\ [k \in DOMAIN r |-> ApFrame] \in ApFrames(Len(aps))

\* When a scan that the host awaits has found networks, whatever their records
\* and the order they come in, it is shown every name once, at its strongest,
\* best first, and hidden ones never (improv_wifi.cpp:260-292).
ScanReported == scanPhase = "Awaiting" /\ scanResult > 0 => ListsAreReports
=============================================================================
