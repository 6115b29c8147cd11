\* Two byte values, so that every stream of up to 17 bytes is tried; payloads of
\* up to six bytes of five values.
CONSTANTS
  ByteMod = 2
  Magic <- MCMagic
  Version = 1
  RpcType = 1
  kBufferSize = 7
  MaxStream = 17
  MaxByte = 4
  WifiSettings = 1
  MaxPayload = 6
  Letters = {0, 1}
  MaxFields = 2
SPECIFICATION Spec
INVARIANTS
  NeverFull DispatchedAreFrames CleanFramesDispatched Resynchronises PayloadExact
\* The host may stop sending.
CHECK_DEADLOCK FALSE
