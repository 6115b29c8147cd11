---------------------------- MODULE FrameParser ----------------------------
(* The byte-level state machine of ImprovWiFi: parseByte_(), acceptByteAt_()  *)
(* and the part of onCompletePacket_() that decides which frames are acted    *)
(* upon.  The alphabet, the magic and the buffer are scaled by constants; the *)
(* code's are 256, "IMPROV" and 300.  buf stands for buf_[0..pos_).           *)
EXTENDS Integers, Sequences, SequencesExt

CONSTANTS
  ByteMod,       \* number of byte values
  Magic,         \* kHeader
  Version,       \* kImprovSerialVersion
  RpcType,       \* FrameType::Rpc
  kBufferSize,   \* size of buf_
  MaxStream      \* bound on the bytes fed

Byte == 0..(ByteMod - 1)

\* Positions count from 1: the version follows the magic, then type and length.
HeaderLen == Len(Magic) + 3
TotalLen(payloadLen) == HeaderLen + payloadLen + 1
MaxFrameLen == TotalLen(ByteMod - 1)

ASSUME ByteAssumption == ByteMod \in Nat /\ ByteMod > 1
ASSUME MagicAssumption == Magic \in Seq(Byte) /\ Len(Magic) > 0
ASSUME FieldAssumption == Version \in Byte /\ RpcType \in Byte
ASSUME BufferAssumption == kBufferSize \in Nat /\ kBufferSize >= MaxFrameLen
ASSUME StreamAssumption == MaxStream \in Nat

VARIABLES
  armed,       \* armed_
  buf,         \* buf_[0..pos_)
  stream,      \* every byte taken so far
  dispatched,  \* RPC frames handed to parsePayload_(), with where they ended
  idleAt       \* positions in stream at which the parser was at rest

vars == <<armed, buf, stream, dispatched, idleAt>>

-----------------------------------------------------------------------------
\* The running sum is a uint16_t, of which the low byte is compared.
Add16(b, sum) == (sum + b) % (ByteMod * ByteMod)
Checksum(s) == FoldSeq(Add16, 0, s) % ByteMod

BadAccepts(s, b) ==
  LET pos == Len(s) IN
    IF pos < Len(Magic) THEN b = Magic[pos + 1]
    ELSE IF pos = Len(Magic) THEN b = Version
    ELSE TRUE

BadAcceptsPayloadSum(s, b) ==
  LET pos == Len(s) IN
    \/ pos < Len(Magic) /\ b = Magic[pos + 1]
    \/ pos = Len(Magic) /\ b = Version
    \/ pos \in {HeaderLen - 2, HeaderLen - 1}
    \/ pos >= HeaderLen /\ pos < HeaderLen + s[HeaderLen]
    \/ /\ pos >= HeaderLen /\ pos = HeaderLen + s[HeaderLen]
       /\ b = Checksum(SubSeq(s, HeaderLen + 1, pos))

\* acceptByteAt_(), for the byte after s, which is what buf_ holds.
Accepts(s, b) ==
  LET pos == Len(s) IN
    \/ pos < Len(Magic) /\ b = Magic[pos + 1]
    \/ pos = Len(Magic) /\ b = Version
    \/ pos \in {HeaderLen - 2, HeaderLen - 1}
    \/ pos >= HeaderLen /\ pos < HeaderLen + s[HeaderLen]
    \/ pos >= HeaderLen /\ pos = HeaderLen + s[HeaderLen] /\ b = Checksum(s)

BadCompletes(s) == Len(s) >= HeaderLen /\ Len(s) = TotalLen(s[HeaderLen]) + 1

\* The test of parseByte_() after a byte was stored.
Completes(s) == Len(s) >= HeaderLen /\ Len(s) = TotalLen(s[HeaderLen])

BadNextBufOverlap(s, b) ==
  IF Len(s) >= kBufferSize \/ ~Accepts(s, b) \/ Completes(Append(s, b))
  THEN IF b = Magic[1] THEN <<b>> ELSE <<>>
  ELSE Append(s, b)

BadNextBuf(s, b) ==
  IF ~Accepts(s, b) THEN s
  ELSE IF Completes(Append(s, b)) THEN <<>>
  ELSE Append(s, b)

\* The bytes kept of s after b was fed: a full buffer and a rejected byte start over,
\* the byte that arrived included, and so does a complete frame.
NextBuf(s, b) ==
  IF Len(s) >= kBufferSize \/ ~Accepts(s, b) \/ Completes(Append(s, b)) THEN <<>>
  ELSE Append(s, b)

IsDispatched(s, b) ==
  /\ Len(s) < kBufferSize /\ Accepts(s, b) /\ Completes(Append(s, b))
  /\ Append(s, b)[HeaderLen - 1] = RpcType

-----------------------------------------------------------------------------
Init ==
  /\ armed = TRUE /\ buf = <<>> /\ stream = <<>>
  /\ dispatched = {} /\ idleAt = {0}

\* feedByte()
FeedByte(b) ==
  /\ armed /\ Len(stream) < MaxStream
  /\ stream' = Append(stream, b)
  /\ buf' = NextBuf(buf, b)
  /\ dispatched' = IF IsDispatched(buf, b)
                   THEN dispatched \cup {[end |-> Len(stream'), frame |-> Append(buf, b)]}
                   ELSE dispatched
  /\ idleAt' = IF buf' = <<>> THEN idleAt \cup {Len(stream')} ELSE idleAt
  /\ UNCHANGED armed

\* tick() closes the window: a partial frame is forgotten.
CloseWindow ==
  /\ armed /\ armed' = FALSE
  /\ buf' = <<>>
  /\ UNCHANGED <<stream, dispatched, idleAt>>

Next == (\E b \in Byte : FeedByte(b)) \/ CloseWindow

Spec == Init /\ [][Next]_vars

-----------------------------------------------------------------------------
(* Properties *)

TypeOK ==
  /\ armed \in BOOLEAN
  /\ buf \in Seq(Byte) /\ stream \in Seq(Byte)
  /\ dispatched \subseteq [end : Nat, frame : Seq(Byte)]
  /\ idleAt \subseteq Nat

\* buf_ is never written past a frame: the store at buf_[pos_++] stays below the
\* longest frame, and the reset of a full buffer never happens
\* (improv_wifi.cpp:51-62).
NeverFull == Len(buf) < MaxFrameLen /\ Len(buf) < kBufferSize

\* What a frame is, independently of the parser.
IsFrame(f) ==
  /\ Len(f) >= HeaderLen /\ Len(f) = TotalLen(f[HeaderLen])
  /\ \A i \in 1..Len(Magic) : f[i] = Magic[i]
  /\ f[Len(Magic) + 1] = Version
  /\ f[Len(f)] = Checksum(SubSeq(f, 1, Len(f) - 1))

DispatchedWhole ==
  \A d \in dispatched :
    /\ IsFrame(d.frame) /\ d.frame[HeaderLen - 1] = RpcType
    /\ d.end \in Len(d.frame)..Len(stream)
    /\ d.frame = SubSeq(stream, d.end - Len(d.frame) + 1, d.end)

NoOverlap ==
  \A d, e \in dispatched :
    d.end < e.end => d.end <= e.end - Len(e.frame)

\* Whatever noise, truncated or corrupted frames came before, only complete,
\* correct RPC frames are acted upon, as they stood in the stream, and no byte is
\* part of two of them (improv_wifi.cpp:50-104).
DispatchedAreFrames == DispatchedWhole /\ NoOverlap

\* A request that starts while the parser is at rest is acted upon, once and as
\* soon as its checksum is in (improv_wifi.cpp:50-68).
CleanFramesDispatched ==
  \A i \in idleAt :
    \A j \in (i + HeaderLen)..Len(stream) :
      LET f == SubSeq(stream, i + 1, j) IN
        IsFrame(f) /\ f[HeaderLen - 1] = RpcType => [end |-> j, frame |-> f] \in dispatched

\* Whatever came before, a truncated frame included, a request is heard when the
\* bytes before it are not 'I', as many as can follow an 'I' in the longest frame
\* (improv_wifi.cpp:50-88).
Resynchronises ==
  \A i \in (MaxFrameLen - 1)..Len(stream) :
    (\A k \in (i - MaxFrameLen + 2)..i : stream[k] # Magic[1]) =>
      \A j \in (i + HeaderLen)..Len(stream) :
        LET f == SubSeq(stream, i + 1, j) IN
          IsFrame(f) /\ f[HeaderLen - 1] = RpcType =>
            [end |-> j, frame |-> f] \in dispatched
=============================================================================
