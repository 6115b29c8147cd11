----------------------------- MODULE SharedLine -----------------------------
(* The receiving side put together as README.md:316-356 wires it: the task of *)
(* the transport feeds the filter, whose Improv sink writes to a stream buffer*)
(* without waiting; the Improv task reads the buffer in chunks and feeds the  *)
(* parser, whenever it is not held up in a handler.  Bytes in the buffer, in  *)
(* buf_ and in the frames acted upon are given as positions of the stream.    *)
EXTENDS SerialFilter, SequencesExt, FiniteSetsExt

CONSTANTS
  Version, RpcType, kBufferSize,   \* as in FrameParser
  Capacity,                        \* bytes the stream buffer holds
  ReadMax                          \* bytes taken from it at a time

ASSUME ParserAssumption ==
  /\ Version \in Byte /\ RpcType \in Byte
  /\ kBufferSize \in Nat /\ kBufferSize >= Len(Magic) + HeaderLen + ByteMod
ASSUME CapacityAssumption == Capacity \in Nat \ {0} /\ ReadMax \in Nat \ {0}

VARIABLES
  queue,       \* the stream buffer
  lost,        \* what did not fit it
  bufAt,       \* buf_[0..pos_)
  dispatched,  \* RPC frames handed to parsePayload_()
  room         \* for a frame found by the filter: the space there was for it

line == <<queue, lost, room>>
parser == <<bufAt, dispatched>>
lineVars == <<vars, line, parser>>

BytesAt(s) == [i \in DOMAIN s |-> stream[s[i]]]

Parser == INSTANCE FrameParser WITH buf <- BytesAt(bufAt), armed <- TRUE

-----------------------------------------------------------------------------
LineInit ==
  /\ Init /\ wired = Sinks
  /\ queue = <<>> /\ lost = {} /\ room = <<>>
  /\ bufAt = <<>> /\ dispatched = {}

BadSpace == Capacity - 1 - Len(queue)

Space == Capacity - Len(queue)

\* xStreamBufferSend() with no timeout: what does not fit is dropped.
Send(positions) ==
  LET fit == Min({Space, Len(positions)}) IN
    /\ queue' = queue \o SubSeq(positions, 1, fit)
    /\ lost' = lost \cup {positions[i] : i \in (fit + 1)..Len(positions)}

\* One byte through the filter, the Improv sink's call included.
RxByte(b) ==
  /\ Feed(b)
  /\ LET last == calls'[Len(calls')] IN
       IF calls' # calls /\ last.sink = "improv"
       THEN Send([i \in 1..(last.to - last.from + 1) |-> last.from + i - 1])
       ELSE UNCHANGED <<queue, lost>>
  /\ room' = IF phase = "Magic" /\ phase' = "Header"
             THEN Append(room, [start |-> Here - Len(Magic), space |-> Capacity - Len(queue)])
             ELSE room
  /\ UNCHANGED parser

\* feedBytes(), for one byte of the chunk.
FeedParser(p, i) ==
  LET b == stream[i] IN
    [bufAt |-> IF Parser!NextBuf(BytesAt(p.bufAt), b) = <<>> THEN <<>> ELSE Append(p.bufAt, i),
     dispatched |-> IF Parser!IsDispatched(BytesAt(p.bufAt), b)
                    THEN p.dispatched \cup {Append(p.bufAt, i)} ELSE p.dispatched]

\* xStreamBufferReceive() and feedBytes().
ImprovTask ==
  LET n == Min({ReadMax, Len(queue)})
      fed == FoldLeft(FeedParser, [bufAt |-> bufAt, dispatched |-> dispatched],
                      SubSeq(queue, 1, n))
  IN  /\ n > 0
      /\ queue' = SubSeq(queue, n + 1, Len(queue))
      /\ bufAt' = fed.bufAt /\ dispatched' = fed.dispatched
      /\ UNCHANGED <<vars, lost, room>>

Rewire == (SetSinks \/ Reset) /\ UNCHANGED <<line, parser>>

LineNext == (\E b \in Byte : RxByte(b)) \/ ImprovTask \/ Rewire

LineSpec == LineInit /\ [][LineNext]_lineVars

-----------------------------------------------------------------------------
(* Properties *)

\* The frame found after p is over by position n.
OverBy(p, n) ==
  n >= p + Len(Magic) + HeaderLen /\ n >= p + FrameLen(p)

BytesOf(p) ==
  {i \in (p + 1)..Len(stream) : i > p + Len(Magic) + HeaderLen => i <= p + FrameLen(p)}

\* No reset() cut the frame short, and the Improv sink was there for all of it.
Uncut(p) ==
  /\ \A r \in resetAt : r <= p \/ OverBy(p, r)
  /\ \A i \in BytesOf(p) : SinkOf(i) # "none"

\* The parser was given all of the frame, and it is of its version.
Whole(p) ==
  /\ Uncut(p)
  /\ BytesOf(p) \cap lost = {}
  /\ p + Len(Magic) < Len(stream) => stream[p + Len(Magic) + 1] = Version

WholeBefore(n) == \A q \in FrameStarts : q < n => Whole(q)

FramePositions(p) == [i \in 1..FrameLen(p) |-> p + i]

\* As long as nothing was cut, dropped or of another version, the two machines
\* agree on where frames begin and end: with the buffer drained, the parser holds
\* what the filter has routed of the frame it is in, and nothing between frames
\* (serial_filter.cpp:55-71, improv_wifi.cpp:50-88).
InStep ==
  queue = <<>> /\ WholeBefore(Len(stream) + 1) =>
    LET p == Max(FrameStarts) IN
      bufAt = IF phase \in {"Header", "Body"}
              THEN [i \in 1..(Len(stream) - p) |-> p + i]
              ELSE <<>>

\* A request is acted upon, however long the Improv task was held up, when the
\* buffer had room for it as it began and the parser was not upset before
\* (serial_filter.cpp:40, 59, 69; README.md:332-341).
RequestsHeard ==
  queue = <<>> =>
    \A k \in DOMAIN room :
      LET p == room[k].start IN
        /\ OverBy(p, Len(stream)) /\ FrameLen(p) <= room[k].space
        /\ Uncut(p) /\ WholeBefore(p)
        /\ Parser!IsFrame(BytesAt(FramePositions(p)))
        /\ stream[p + Len(Magic) + 2] = RpcType
        => FramePositions(p) \in dispatched

\* The payload of a frame, and the bytes where two frames meet, are never acted
\* upon as a frame: it takes a frame that was cut, dropped or of another version
\* (serial_filter.cpp:59, improv_wifi.cpp:70-88).
NothingNested ==
  \A d \in dispatched :
    \/ \E p \in FrameStarts : OverBy(p, Len(stream)) /\ d = FramePositions(p)
    \/ ~WholeBefore(Last(d))
=============================================================================
