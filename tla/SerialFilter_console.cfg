CONSTANTS
  ByteMod = 2
  Magic <- MCMagic
  Wirings <- MCWirings
  MaxStream = 6
  MaxOps = 0
SPECIFICATION Spec
INVARIANTS
  ConsoleNeverSeesMagic
CHECK_DEADLOCK FALSE
