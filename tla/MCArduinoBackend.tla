-------------------------- MODULE MCArduinoBackend --------------------------
(* Small instances of ArduinoBackend for TLC: records at the floor that        *)
(* tryConnect() starts from, and at two strengths above it.                    *)
EXTENDS ArduinoBackend

MCRssis == {-127, -80, -60}
=============================================================================
