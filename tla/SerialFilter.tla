---------------------------- MODULE SerialFilter ----------------------------
(* SerialFilter (serial_filter.cpp): one serial line shared by a console and  *)
(* by the Improv parser.  Bytes of a sink call are given as the positions     *)
(* from..to of the stream; a call that is skipped because the sink is not     *)
(* wired, and the bytes that reset() drops, have the sink "none".             *)
EXTENDS Integers, Sequences

CONSTANTS
  ByteMod,     \* number of byte values
  Magic,       \* kMagic
  Wirings,     \* what setSinks() may be given: the sinks that are not null
  MaxStream,   \* bound on the bytes fed
  MaxOps       \* bound on the calls of setSinks() and reset()

Byte == 0..(ByteMod - 1)
HeaderLen == 3      \* version, type, length

ASSUME ByteAssumption == ByteMod \in Nat /\ ByteMod > 1
ASSUME MagicAssumption == Magic \in Seq(Byte) /\ Len(Magic) > 1
Sinks == {"console", "improv"}
ASSUME WiringAssumption == Wirings \subseteq SUBSET Sinks
ASSUME BoundsAssumption == MaxStream \in Nat /\ MaxOps \in Nat

VARIABLES
  phase,      \* phase_
  holdN,      \* holdN_
  bodyLeft,   \* bodyLeft_
  wired,      \* the sinks that are not null
  stream,     \* every byte fed
  calls,      \* the sink calls, in order
  resetAt,    \* positions in stream at which reset() was called
  idleAt,     \* positions in stream at which the filter was idle
  ops         \* calls of setSinks() and reset() so far

machine == <<phase, holdN, bodyLeft>>
vars == <<machine, wired, stream, calls, resetAt, idleAt, ops>>

\* What the filter holds back: a prefix of the magic.
Held == IF phase = "Magic" THEN holdN ELSE 0

Call(sink, from, to) ==
  [sink |-> IF sink \in wired THEN sink ELSE "none", from |-> from, to |-> to]

\* The position of the byte being fed.
Here == Len(stream) + 1

-----------------------------------------------------------------------------
Init ==
  /\ phase = "Idle" /\ holdN = 0 /\ bodyLeft = 0
  /\ wired \in Wirings
  /\ stream = <<>> /\ calls = <<>> /\ resetAt = {} /\ idleAt = {0} /\ ops = 0

-----------------------------------------------------------------------------
(* feed(), one byte: an action per phase and outcome.  A definition whose name *)
(* begins with Bad is wrong on purpose: the runs must notice when it takes the *)
(* place of the one that follows it.                                          *)

Take(b) ==
  /\ Len(stream) < MaxStream
  /\ stream' = Append(stream, b)
  /\ idleAt' = IF phase' = "Idle" THEN idleAt \cup {Here} ELSE idleAt
  /\ UNCHANGED <<wired, resetAt, ops>>

IdleHolds(b) ==
  /\ phase = "Idle" /\ b = Magic[1]
  /\ phase' = "Magic" /\ holdN' = 1
  /\ Take(b)
  /\ UNCHANGED <<bodyLeft, calls>>

IdlePasses(b) ==
  /\ phase = "Idle" /\ b # Magic[1]
  /\ calls' = Append(calls, Call("console", Here, Here))
  /\ UNCHANGED machine
  /\ Take(b)

MagicGoesOn(b) ==
  /\ phase = "Magic" /\ b = Magic[holdN + 1] /\ holdN + 1 < Len(Magic)
  /\ holdN' = holdN + 1
  /\ UNCHANGED <<phase, bodyLeft, calls>>
  /\ Take(b)

BadMagicCompletes(b) ==
  /\ phase = "Magic" /\ b = Magic[holdN + 1] /\ holdN + 1 = Len(Magic)
  /\ calls' = Append(calls, Call("console", Here - holdN, Here))
  /\ phase' = "Header" /\ holdN' = 0
  /\ UNCHANGED bodyLeft
  /\ Take(b)

\* Full magic: the whole of it goes to the Improv sink.
MagicCompletes(b) ==
  /\ phase = "Magic" /\ b = Magic[holdN + 1] /\ holdN + 1 = Len(Magic)
  /\ calls' = Append(calls, Call("improv", Here - holdN, Here))
  /\ phase' = "Header" /\ holdN' = 0
  /\ UNCHANGED bodyLeft
  /\ Take(b)

BadMagicBreaks(b) ==
  /\ phase = "Magic" /\ b # Magic[holdN + 1]
  /\ calls' = Append(calls, Call("console", Here - holdN, Here - 1))
  /\ phase' = "Idle" /\ holdN' = 0
  /\ UNCHANGED bodyLeft
  /\ Take(b)

\* Mismatch: what was held and the byte itself go to the console, in two calls,
\* and the search starts after that byte.
MagicBreaks(b) ==
  /\ phase = "Magic" /\ b # Magic[holdN + 1]
  /\ calls' = Append(Append(calls, Call("console", Here - holdN, Here - 1)),
                     Call("console", Here, Here))
  /\ phase' = "Idle" /\ holdN' = 0
  /\ UNCHANGED bodyLeft
  /\ Take(b)

BadHeaderByte(b) ==
  /\ phase = "Header"
  /\ calls' = Append(calls, Call("improv", Here, Here))
  /\ IF holdN + 1 < HeaderLen
     THEN holdN' = holdN + 1 /\ UNCHANGED <<phase, bodyLeft>>
     ELSE holdN' = 0 /\ bodyLeft' = b /\ phase' = "Body"
  /\ Take(b)

\* The third byte says how many bytes, the checksum included, are left.
HeaderByte(b) ==
  /\ phase = "Header"
  /\ calls' = Append(calls, Call("improv", Here, Here))
  /\ IF holdN + 1 < HeaderLen
     THEN holdN' = holdN + 1 /\ UNCHANGED <<phase, bodyLeft>>
     ELSE holdN' = 0 /\ bodyLeft' = b + 1 /\ phase' = "Body"
  /\ Take(b)

BodyByte(b) ==
  /\ phase = "Body"
  /\ calls' = Append(calls, Call("improv", Here, Here))
  /\ bodyLeft' = bodyLeft - 1
  /\ phase' = IF bodyLeft' = 0 THEN "Idle" ELSE "Body"
  /\ UNCHANGED holdN
  /\ Take(b)

Feed(b) ==
  \/ IdleHolds(b) \/ IdlePasses(b)
  \/ MagicGoesOn(b) \/ MagicCompletes(b) \/ MagicBreaks(b)
  \/ HeaderByte(b) \/ BodyByte(b)

-----------------------------------------------------------------------------
SetSinks ==
  /\ ops < MaxOps /\ ops' = ops + 1
  /\ wired' \in Wirings \ {wired}
  /\ UNCHANGED <<machine, stream, calls, resetAt, idleAt>>

BadReset ==
  /\ ops < MaxOps /\ ops' = ops + 1
  /\ phase' = "Idle"
  /\ calls' = IF Held > 0
              THEN Append(calls, [sink |-> "none", from |-> Here - Held, to |-> Here - 1])
              ELSE calls
  /\ resetAt' = resetAt \cup {Len(stream)} /\ idleAt' = idleAt \cup {Len(stream)}
  /\ UNCHANGED <<holdN, bodyLeft, wired, stream>>

\* reset(): what was held is dropped.
Reset ==
  /\ ops < MaxOps /\ ops' = ops + 1
  /\ phase' = "Idle" /\ holdN' = 0 /\ bodyLeft' = 0
  /\ calls' = IF Held > 0
              THEN Append(calls, [sink |-> "none", from |-> Here - Held, to |-> Here - 1])
              ELSE calls
  /\ resetAt' = resetAt \cup {Len(stream)} /\ idleAt' = idleAt \cup {Len(stream)}
  /\ UNCHANGED <<wired, stream>>

Next == (\E b \in Byte : Feed(b)) \/ SetSinks \/ Reset

Spec == Init /\ [][Next]_vars

-----------------------------------------------------------------------------
(* Properties *)

CallType == [sink : Sinks \cup {"none"}, from : Nat, to : Nat]

TypeOK ==
  /\ phase \in {"Idle", "Magic", "Header", "Body"}
  /\ holdN \in 0..(Len(Magic) + HeaderLen) /\ bodyLeft \in 0..ByteMod
  /\ wired \subseteq Sinks
  /\ stream \in Seq(Byte)
  /\ calls \in Seq(CallType)
  /\ resetAt \subseteq Nat /\ idleAt \subseteq Nat /\ ops \in Nat

\* The calls cs cover the positions 1..Covered(cs), each once and in order.
Covered(cs) == IF cs = <<>> THEN 0 ELSE cs[Len(cs)].to
Tiles(cs) ==
  \A k \in 1..Len(cs) :
    /\ cs[k].from <= cs[k].to
    /\ cs[k].from = IF k = 1 THEN 1 ELSE cs[k - 1].to + 1

Tiling == Tiles(calls) /\ Len(stream) = Covered(calls) + Held

HoldIsMagic ==
  /\ phase = "Magic" =>
       /\ holdN \in 1..(Len(Magic) - 1) /\ holdN <= Len(stream)
       /\ \A i \in 1..holdN : stream[Len(stream) - holdN + i] = Magic[i]
  /\ phase = "Header" => holdN < HeaderLen
  /\ phase \in {"Idle", "Body"} => holdN = 0
  /\ phase = "Body" <=> bodyLeft > 0

\* Every byte is in exactly one call, in stream order; only the partial magic that
\* is held back is still to come.  That is a proper prefix of the magic, and fits
\* hold_: it can be sent as kMagic, or flushed, without loss
\* (serial_filter.cpp:21-74; hold_ has 8 elements).
NothingLost == Tiling /\ HoldIsMagic

\* The length of the frame that starts after position p, once it is known.
FrameLen(p) == Len(Magic) + HeaderLen + stream[p + Len(Magic) + HeaderLen] + 1

\* Where the filter found a frame: after p, it passed on the whole magic at once.
FrameStarts ==
  {calls[k].from - 1 : k \in {j \in DOMAIN calls :
                                calls[j].to - calls[j].from + 1 = Len(Magic)}}

\* No reset() came between position p and byte i.
Undisturbed(p, i) == \A r \in resetAt : r <= p \/ r >= i

\* Byte i belongs to a frame found after one of the positions in starts, by what
\* its length byte says.
InFrame(i, starts) ==
  \E p \in starts :
    /\ p < i /\ Undisturbed(p, i)
    /\ i > p + Len(Magic) + HeaderLen => i <= p + FrameLen(p)

SinkOf(i) ==
  calls[CHOOSE k \in DOMAIN calls : calls[k].from <= i /\ i <= calls[k].to].sink

FramesToImprov ==
  LET starts == FrameStarts IN
    \A k \in DOMAIN calls :
      \A i \in calls[k].from..calls[k].to :
        calls[k].sink # IF InFrame(i, starts) THEN "console" ELSE "improv"

IsMagicAfter(i) ==
  i + Len(Magic) <= Len(stream) /\ SubSeq(stream, i + 1, i + Len(Magic)) = Magic

CleanMagicRouted ==
  \A i \in idleAt :
    IsMagicAfter(i) /\ Undisturbed(i, i + Len(Magic)) =>
      \A j \in (i + 1)..(i + Len(Magic)) : SinkOf(j) # "console"

\* The frames found, and nothing else, go to the library: never a byte of a frame
\* to the console, never a byte too many or too few to the library; and a frame
\* that arrives while the filter is idle is found (serial_filter.cpp:25-71).
RoutedByFrame == FramesToImprov /\ CleanMagicRouted

\* What the documentation says, and the code does not do.

\* "Bytes that are part of a fully-matched Improv frame go to the lib"
\* (README.md:361); the console gets "bytes outside an IMPROV frame"
\* (serial_filter.h:30).
ConsoleNeverSeesMagic ==
  \A i \in 0..Len(stream) :
    IsMagicAfter(i) =>
      \E j \in (i + 1)..(i + Len(Magic)) : SinkOf(j) # "console"
=============================================================================
