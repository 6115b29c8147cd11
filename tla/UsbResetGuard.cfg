CONSTANTS
  Words = {magic, zero, noise}
  GUARD_MAGIC = magic
  NoMagic = zero
  MaxResets = 4
SPECIFICATION Spec
INVARIANTS
  WasUsbHonest HarmlessRestart ModemIsReset
PROPERTIES
  AppRuns
\* The resets may stop.
CHECK_DEADLOCK FALSE
