\* Two byte values and a magic of two bytes: a frame is 6 or 7 bytes, a stream holds
\* two of them, and the buffer one.
CONSTANTS
  ByteMod = 2
  Magic <- MCMagic
  Wirings <- MCWirings
  MaxStream = 12
  MaxOps = 1
  Version = 1
  RpcType = 1
  kBufferSize = 7
  Capacity = 6
  ReadMax = 6
SPECIFICATION LineSpec
INVARIANTS
  NothingLost RoutedByFrame InStep RequestsHeard NothingNested
\* The host may stop sending.
CHECK_DEADLOCK FALSE
