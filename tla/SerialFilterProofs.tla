------------------------- MODULE SerialFilterProofs -------------------------
(* SerialFilter, for every alphabet and magic, whatever setSinks() and reset() *)
(* are called: no byte is lost, duplicated or reordered, and each goes to the  *)
(* sink of the frame it is in.  SharedLine, for every size of the buffer: the  *)
(* parser behind it acts upon the frames that the filter found.                *)
EXTENDS SharedLine, SequenceTheorems, WellFoundedInduction, TLAPS

IInv == TypeOK /\ Tiling /\ HoldIsMagic

\* Calls that cover a stream still do when the next positions are added.
LEMMA TilesAppend ==
  ASSUME NEW cs \in Seq(CallType), Tiles(cs), NEW c \in CallType,
         c.from = Covered(cs) + 1, c.from <= c.to
  PROVE  /\ Append(cs, c) \in Seq(CallType)
         /\ Tiles(Append(cs, c)) /\ Covered(Append(cs, c)) = c.to
<1> DEFINE ds == Append(cs, c)
<1>1. /\ ds \in Seq(CallType) /\ ds # <<>> /\ Len(ds) = Len(cs) + 1
      /\ \A i \in 1..Len(cs) : ds[i] = cs[i]
      /\ ds[Len(cs) + 1] = c
  BY AppendProperties
<1>2. Len(cs) \in Nat /\ (cs = <<>> <=> Len(cs) = 0)
  BY EmptySeq
<1> HIDE DEF ds
<1>3. Covered(ds) = c.to
  BY <1>1 DEF Covered
<1>4. ASSUME NEW k \in 1..Len(ds)
      PROVE  /\ ds[k].from <= ds[k].to
             /\ ds[k].from = IF k = 1 THEN 1 ELSE ds[k - 1].to + 1
  <2>1. CASE k <= Len(cs)
    <3>1. k \in 1..Len(cs) /\ (k # 1 => k - 1 \in 1..Len(cs))
      BY <1>2, <1>4, <2>1
    <3> QED
      BY <1>1, <3>1 DEF Tiles
  <2>2. CASE k = Len(cs) + 1
    <3>1. CASE k = 1
      BY <1>1, <1>2, <2>2, <3>1 DEF Covered
    <3>2. CASE k # 1
      <4>1. cs # <<>> /\ k - 1 = Len(cs) /\ Len(cs) \in 1..Len(cs)
        BY <1>2, <1>4, <2>2, <3>2
      <4> QED
        BY <1>1, <2>2, <3>2, <4>1 DEF Covered
    <3> QED
      BY <3>1, <3>2
  <2> QED
    BY <1>1, <1>2, <1>4, <2>1, <2>2
<1> QED
  BY <1>1, <1>3, <1>4 DEF Tiles, ds

LEMMA CoveredIsNat == ASSUME NEW cs \in Seq(CallType) PROVE Covered(cs) \in Nat
<1>1. CASE cs = <<>>
  BY <1>1 DEF Covered
<1>2. CASE cs # <<>>
  <2>1. Len(cs) \in 1..Len(cs)
    BY <1>2, EmptySeq
  <2>2. cs[Len(cs)] \in CallType
    BY <2>1, ElementOfSeq
  <2> QED
    BY <1>2, <2>2 DEF Covered, CallType
<1> QED
  BY <1>1, <1>2

LEMMA CallInType ==
  ASSUME NEW sink \in Sinks, NEW from \in Nat, NEW to \in Nat
  PROVE  /\ Call(sink, from, to) \in CallType
         /\ Call(sink, from, to).from = from /\ Call(sink, from, to).to = to
BY DEF Call, CallType, Sinks

LEMMA InitInv == Init => IInv
<1> SUFFICES ASSUME Init PROVE IInv
  OBVIOUS
<1>1. Len(Magic) \in Nat /\ Len(<<>>) = 0
  BY MagicAssumption
<1>2. TypeOK
  BY <1>1, EmptySeq, ByteAssumption, WiringAssumption DEF Init, TypeOK, HeaderLen
<1>3. Tiling
  BY <1>1 DEF Init, Tiling, Tiles, Covered, Held
<1>4. HoldIsMagic
  BY DEF Init, HoldIsMagic
<1> QED
  BY <1>2, <1>3, <1>4 DEF IInv

-----------------------------------------------------------------------------
(* One byte *)

LEMMA FeedInv == ASSUME IInv, NEW b \in Byte, Feed(b) PROVE IInv'
<1>1. /\ stream \in Seq(Byte) /\ Len(stream) \in Nat /\ calls \in Seq(CallType)
      /\ Tiles(calls) /\ Len(stream) = Covered(calls) + Held
      /\ Covered(calls) \in Nat /\ Held \in Nat /\ Here = Len(stream) + 1
      /\ holdN \in Nat /\ bodyLeft \in Nat /\ ByteMod \in Nat
      /\ Len(Magic) \in Nat /\ Len(Magic) > 1
  <2>1. Covered(calls) \in Nat
    BY CoveredIsNat DEF IInv, TypeOK
  <2>2. holdN \in Nat /\ bodyLeft \in Nat /\ ByteMod \in Nat /\ Len(Magic) \in Nat
    BY ByteAssumption, MagicAssumption DEF IInv, TypeOK, HeaderLen
  <2> QED
    BY <2>1, <2>2, MagicAssumption DEF IInv, TypeOK, Tiling, Held, Here
<1>2. /\ Append(stream, b) \in Seq(Byte) /\ Len(Append(stream, b)) = Len(stream) + 1
      /\ \A i \in 1..Len(stream) : Append(stream, b)[i] = stream[i]
      /\ Append(stream, b)[Len(stream) + 1] = b
  BY <1>1, AppendProperties
<1>3. /\ stream' = Append(stream, b) /\ wired' = wired /\ resetAt' = resetAt
      /\ ops' = ops /\ idleAt' \subseteq Nat
  <2>1. Take(b)
    BY DEF Feed, IdleHolds, IdlePasses, MagicGoesOn, MagicCompletes, MagicBreaks,
           HeaderByte, BodyByte
  <2>2. Here \in Nat /\ idleAt \subseteq Nat
    BY <1>1 DEF IInv, TypeOK
  <2> HIDE DEF Here
  <2> QED
    BY <2>1, <2>2 DEF Take
<1>4. SUFFICES /\ phase' \in {"Idle", "Magic", "Header", "Body"}
               /\ holdN' \in 0..(Len(Magic) + HeaderLen) /\ bodyLeft' \in 0..ByteMod
               /\ calls' \in Seq(CallType) /\ Tiles(calls')
               /\ Len(stream') = Covered(calls') + Held'
               /\ HoldIsMagic'
  BY <1>2, <1>3 DEF IInv, TypeOK, Tiling
<1>5. ASSUME NEW sink \in Sinks
      PROVE  LET c == Call(sink, Here, Here) IN
               Held = 0 => /\ Append(calls, c) \in Seq(CallType)
                           /\ Tiles(Append(calls, c)) /\ Covered(Append(calls, c)) = Here
  <2> DEFINE c == Call(sink, Here, Here)
  <2>1. Here \in Nat
    BY <1>1
  <2>2. c \in CallType /\ c.from = Here /\ c.to = Here
    BY <1>5, <2>1, CallInType
  <2> HIDE DEF c
  <2>3. Held = 0 => c.from = Covered(calls) + 1 /\ c.from <= c.to
    BY <1>1, <2>2
  <2>4. Held = 0 => /\ Append(calls, c) \in Seq(CallType)
                    /\ Tiles(Append(calls, c)) /\ Covered(Append(calls, c)) = Here
    BY <1>1, <2>2, <2>3, TilesAppend
  <2> QED
    BY <2>4 DEF c
<1>6. CASE IdleHolds(b)
  <2>1. HoldIsMagic'
    BY <1>1, <1>2, <1>3, <1>6 DEF IdleHolds, HoldIsMagic, IInv
  <2> QED
    BY <1>1, <1>2, <1>3, <1>6, <2>1 DEF IdleHolds, Held, IInv, TypeOK, HeaderLen
<1>7. CASE IdlePasses(b)
  <2>1. HoldIsMagic'
    BY <1>7 DEF IdlePasses, machine, HoldIsMagic, IInv
  <2>2. Held = 0 /\ Held' = 0 /\ "console" \in Sinks
    BY <1>7 DEF IdlePasses, machine, Held, Sinks
  <2> QED
    BY <1>1, <1>2, <1>3, <1>5, <1>7, <2>1, <2>2 DEF IdlePasses, machine, IInv, TypeOK
<1>8. CASE MagicGoesOn(b)
  <2>1. HoldIsMagic'
    <3>1. /\ phase = "Magic" /\ phase' = "Magic" /\ holdN' = holdN + 1
          /\ b = Magic[holdN + 1] /\ holdN + 1 < Len(Magic) /\ bodyLeft' = bodyLeft
      BY <1>8 DEF MagicGoesOn
    <3>2. /\ holdN \in 1..(Len(Magic) - 1) /\ holdN <= Len(stream)
          /\ \A i \in 1..holdN : stream[Len(stream) - holdN + i] = Magic[i]
          /\ ~(bodyLeft > 0)
      BY <3>1 DEF IInv, HoldIsMagic
    <3>3. ASSUME NEW i \in 1..holdN'
          PROVE  stream'[Len(stream') - holdN' + i] = Magic[i]
      <4>1. Len(stream') - holdN' + i = Len(stream) - holdN + i
        <5>1. Len(stream') = Len(stream) + 1
          BY <1>2, <1>3
        <5>2. i \in Nat /\ Len(stream) \in Nat /\ holdN \in Nat
          BY <1>1, <3>1
        <5> QED
          BY <3>1, <5>1, <5>2
      <4>2. CASE i <= holdN
        <5>1. i \in 1..holdN /\ Len(stream) - holdN + i \in 1..Len(stream)
          <6>1. i \in Nat /\ i > 0 /\ holdN \in Nat /\ Len(stream) \in Nat
            BY <1>1, <3>1
          <6> QED
            BY <3>2, <4>2, <6>1
        <5>2. stream[Len(stream) - holdN + i] = Magic[i]
          BY <3>2, <5>1
        <5>3. stream'[Len(stream) - holdN + i] = stream[Len(stream) - holdN + i]
          BY <1>2, <1>3, <5>1
        <5> QED
          BY <4>1, <5>2, <5>3
      <4>3. CASE i = holdN + 1
        <5>1. Len(stream') - holdN' + i = Len(stream) + 1
          BY <1>1, <4>1, <4>3
        <5>2. stream'[Len(stream) + 1] = b
          BY <1>2, <1>3
        <5> QED
          BY <3>1, <4>3, <5>1, <5>2
      <4>4. i <= holdN \/ i = holdN + 1
        BY <1>1, <3>1
      <4> QED
        BY <4>2, <4>3, <4>4
    <3>4. holdN' \in 1..(Len(Magic) - 1) /\ holdN' <= Len(stream')
      BY <1>1, <1>2, <1>3, <3>1, <3>2
    <3> QED
      BY <3>1, <3>2, <3>3, <3>4 DEF HoldIsMagic
  <2> QED
    BY <1>1, <1>2, <1>3, <1>8, <2>1 DEF MagicGoesOn, Held, IInv, TypeOK, HeaderLen
<1>9. CASE MagicCompletes(b)
  <2> DEFINE c == Call("improv", Here - holdN, Here)
  <2>1. /\ phase = "Magic" /\ phase' = "Header" /\ holdN' = 0 /\ bodyLeft' = bodyLeft
        /\ calls' = Append(calls, c)
    BY <1>9 DEF MagicCompletes
  <2>2. Held = holdN /\ Held' = 0 /\ holdN <= Len(stream) /\ ~(bodyLeft > 0)
    BY <2>1 DEF Held, IInv, HoldIsMagic
  <2>3. Here - holdN \in Nat /\ Here \in Nat /\ "improv" \in Sinks
    BY <1>1, <2>2 DEF Sinks
  <2>4. c \in CallType /\ c.from = Here - holdN /\ c.to = Here
    BY <2>3, CallInType
  <2> HIDE DEF c
  <2>5. c.from = Covered(calls) + 1 /\ c.from <= c.to
    BY <1>1, <2>2, <2>4
  <2>6. calls' \in Seq(CallType) /\ Tiles(calls') /\ Covered(calls') = Here
    BY <1>1, <2>1, <2>4, <2>5, TilesAppend
  <2>7. HoldIsMagic'
    BY <2>1, <2>2 DEF HoldIsMagic, HeaderLen
  <2> QED
    BY <1>1, <1>2, <1>3, <2>1, <2>2, <2>6, <2>7 DEF IInv, TypeOK, HeaderLen
<1>10. CASE MagicBreaks(b)
  <2> DEFINE c == Call("console", Here - holdN, Here - 1)
             d == Call("console", Here, Here)
  <2>1. /\ phase = "Magic" /\ phase' = "Idle" /\ holdN' = 0 /\ bodyLeft' = bodyLeft
        /\ calls' = Append(Append(calls, c), d)
    BY <1>10 DEF MagicBreaks
  <2>2. Held = holdN /\ Held' = 0 /\ holdN <= Len(stream) /\ holdN >= 1 /\ ~(bodyLeft > 0)
    BY <2>1 DEF Held, IInv, HoldIsMagic
  <2>3. Here - holdN \in Nat /\ Here \in Nat /\ Here - 1 \in Nat /\ "console" \in Sinks
    BY <1>1, <2>2 DEF Sinks
  <2>4. /\ c \in CallType /\ c.from = Here - holdN /\ c.to = Here - 1
        /\ d \in CallType /\ d.from = Here /\ d.to = Here
    BY <2>3, CallInType
  <2> HIDE DEF c, d
  <2>5. c.from = Covered(calls) + 1 /\ c.from <= c.to
    BY <1>1, <2>2, <2>4
  <2>6. /\ Append(calls, c) \in Seq(CallType) /\ Tiles(Append(calls, c))
        /\ Covered(Append(calls, c)) = Here - 1
    BY <1>1, <2>4, <2>5, TilesAppend
  <2>7. d.from = Covered(Append(calls, c)) + 1 /\ d.from <= d.to
    BY <1>1, <2>4, <2>6
  <2>8. calls' \in Seq(CallType) /\ Tiles(calls') /\ Covered(calls') = Here
    BY <2>1, <2>4, <2>6, <2>7, TilesAppend
  <2>9. HoldIsMagic'
    BY <2>1, <2>2 DEF HoldIsMagic
  <2> QED
    BY <1>1, <1>2, <1>3, <2>1, <2>2, <2>8, <2>9 DEF IInv, TypeOK, HeaderLen
<1>11. CASE HeaderByte(b)
  <2>1. /\ phase = "Header" /\ Held = 0 /\ holdN < HeaderLen /\ ~(bodyLeft > 0)
        /\ calls' = Append(calls, Call("improv", Here, Here)) /\ "improv" \in Sinks
    BY <1>11 DEF HeaderByte, Held, Sinks, IInv, HoldIsMagic
  <2>2. calls' \in Seq(CallType) /\ Tiles(calls') /\ Covered(calls') = Here
    BY <1>5, <2>1
  <2>3. CASE holdN + 1 < HeaderLen
    <3>1. phase' = "Header" /\ holdN' = holdN + 1 /\ bodyLeft' = bodyLeft
      BY <1>11, <2>3 DEF HeaderByte
    <3> QED
      BY <1>1, <1>2, <1>3, <2>1, <2>2, <2>3, <3>1
      DEF HoldIsMagic, Held, HeaderLen, IInv, TypeOK
  <2>4. CASE ~(holdN + 1 < HeaderLen)
    <3>1. phase' = "Body" /\ holdN' = 0 /\ bodyLeft' = b + 1
      BY <1>11, <2>4 DEF HeaderByte
    <3>2. bodyLeft' \in 0..ByteMod /\ bodyLeft' > 0
      BY <1>1, <3>1 DEF Byte
    <3> QED
      BY <1>1, <1>2, <1>3, <2>2, <3>1, <3>2 DEF HoldIsMagic, Held, HeaderLen
  <2> QED
    BY <2>3, <2>4
<1>12. CASE BodyByte(b)
  <2>1. /\ phase = "Body" /\ Held = 0 /\ bodyLeft > 0 /\ holdN = 0
        /\ calls' = Append(calls, Call("improv", Here, Here)) /\ "improv" \in Sinks
        /\ bodyLeft' = bodyLeft - 1 /\ holdN' = holdN
        /\ phase' = IF bodyLeft' = 0 THEN "Idle" ELSE "Body"
    BY <1>12 DEF BodyByte, Held, Sinks, IInv, HoldIsMagic
  <2>2. calls' \in Seq(CallType) /\ Tiles(calls') /\ Covered(calls') = Here
    BY <1>5, <2>1
  <2>3. bodyLeft' \in 0..ByteMod
    BY <1>1, <2>1 DEF IInv, TypeOK
  <2> QED
    BY <1>1, <1>2, <1>3, <2>1, <2>2, <2>3 DEF HoldIsMagic, Held, HeaderLen
<1> QED
  BY <1>6, <1>7, <1>8, <1>9, <1>10, <1>11, <1>12 DEF Feed

-----------------------------------------------------------------------------
LEMMA SetSinksInv == ASSUME IInv, SetSinks PROVE IInv'
<1>1. /\ wired' \in SUBSET Sinks /\ ops < MaxOps /\ ops' = ops + 1
      /\ UNCHANGED <<phase, holdN, bodyLeft, stream, calls, resetAt, idleAt>>
  BY WiringAssumption DEF SetSinks, machine
<1>2. TypeOK'
  BY <1>1, BoundsAssumption DEF IInv, TypeOK
<1>3. (Tiles(calls) /\ Len(stream) = Covered(calls) + Held)'
  BY <1>1 DEF IInv, Tiling, Tiles, Covered, Held
<1>4. HoldIsMagic'
  BY <1>1 DEF IInv, HoldIsMagic
<1> QED
  BY <1>2, <1>3, <1>4 DEF IInv, Tiling

LEMMA ResetInv == ASSUME IInv, Reset PROVE IInv'
<1> DEFINE c == [sink |-> "none", from |-> Here - Held, to |-> Here - 1]
<1>1. /\ Len(stream) \in Nat /\ calls \in Seq(CallType) /\ Tiles(calls)
      /\ Len(stream) = Covered(calls) + Held /\ Here = Len(stream) + 1
      /\ Held \in Nat /\ Held <= Len(stream) /\ Len(Magic) \in Nat /\ ByteMod \in Nat
      /\ Covered(calls) \in Nat
  BY MagicAssumption, ByteAssumption, CoveredIsNat
  DEF IInv, TypeOK, Tiling, Held, Here, HoldIsMagic, HeaderLen
<1>2. /\ phase' = "Idle" /\ holdN' = 0 /\ bodyLeft' = 0 /\ stream' = stream
      /\ wired' = wired /\ Held' = 0
      /\ calls' = IF Held > 0 THEN Append(calls, c) ELSE calls
      /\ resetAt' \subseteq Nat /\ idleAt' \subseteq Nat /\ ops' \in Nat
  <2>1. phase' = "Idle" /\ Len(stream) \in Nat
    BY <1>1 DEF Reset
  <2>2. Held' = 0
    BY <2>1 DEF Held
  <2>3. resetAt' \subseteq Nat /\ idleAt' \subseteq Nat /\ ops' \in Nat
    <3>1. /\ resetAt' = resetAt \cup {Len(stream)} /\ idleAt' = idleAt \cup {Len(stream)}
          /\ ops' = ops + 1
      BY DEF Reset
    <3>2. resetAt \subseteq Nat /\ idleAt \subseteq Nat /\ ops \in Nat
      BY DEF IInv, TypeOK
    <3>3. resetAt' \subseteq Nat /\ idleAt' \subseteq Nat
      BY <2>1, <3>1, <3>2, Zenon
    <3>4. ops' \in Nat
      BY <3>1, <3>2
    <3> QED
      BY <3>3, <3>4
  <2> QED
    BY <2>1, <2>2, <2>3 DEF Reset
<1>3. Held > 0 => /\ c \in CallType /\ c.from = Covered(calls) + 1
                  /\ c.from <= c.to /\ c.to = Len(stream)
  <2>1. SUFFICES ASSUME Held > 0
                 PROVE  /\ c \in CallType /\ c.from = Covered(calls) + 1
                        /\ c.from <= c.to /\ c.to = Len(stream)
    OBVIOUS
  <2>2. Here - Held \in Nat /\ Here - 1 \in Nat /\ Here - Held = Covered(calls) + 1
        /\ Here - Held <= Here - 1 /\ Here - 1 = Len(stream)
    BY <1>1, <2>1
  <2>3. c.from = Here - Held /\ c.to = Here - 1 /\ c \in CallType
    BY <2>2 DEF CallType
  <2> QED
    BY <2>2, <2>3
<1> HIDE DEF c
<1>4. calls' \in Seq(CallType) /\ Tiles(calls') /\ Covered(calls') = Len(stream)
  <2>1. CASE Held > 0
    BY <1>1, <1>2, <1>3, <2>1, TilesAppend
  <2>2. CASE ~(Held > 0)
    BY <1>1, <1>2, <2>2
  <2> QED
    BY <2>1, <2>2
<1>5. HoldIsMagic'
  BY <1>2 DEF HoldIsMagic
<1> QED
  BY <1>1, <1>2, <1>4, <1>5 DEF IInv, TypeOK, Tiling, HeaderLen

THEOREM Invariance == Spec => []IInv
<1>1. IInv /\ [Next]_vars => IInv'
  <2> SUFFICES ASSUME IInv, [Next]_vars PROVE IInv'
    OBVIOUS
  <2>1. CASE UNCHANGED vars
    BY <2>1 DEF vars, machine, IInv, TypeOK, Tiling, HoldIsMagic, Held
  <2> QED
    BY <2>1, FeedInv, SetSinksInv, ResetInv DEF Next
<1> QED
  BY InitInv, <1>1, PTL DEF Spec

-----------------------------------------------------------------------------
(* The theorems *)

\* The state stays in its type: hold_ and bodyLeft_ stay in range.
THEOREM TypeCorrect == Spec => []TypeOK
BY Invariance, PTL DEF IInv

\* Every byte of every stream is in exactly one sink call, in order, but for what
\* is held back, a proper prefix of the magic (serial_filter.cpp:21-74).
THEOREM NothingIsLost == Spec => []NothingLost
BY Invariance, PTL DEF IInv, NothingLost

-----------------------------------------------------------------------------
(* Which sink a byte goes to *)

\* The calls are in order: the one that covers a byte is the only one.
Ordered(cs) ==
  /\ \A k \in 1..Len(cs) : cs[k].to <= Covered(cs)
  /\ \A k \in 1..Len(cs) : \A m \in 1..Len(cs) : k < m => cs[k].to < cs[m].from

FrameHeaderEnd(p) == p + Len(Magic) + HeaderLen

\* FrameLen, FrameStarts, InFrame and FramesToImprov, with what they look at as
\* parameters.
LenIn(st, p) == Len(Magic) + HeaderLen + st[p + Len(Magic) + HeaderLen] + 1
StartsOf(cs) ==
  {cs[k].from - 1 : k \in {j \in 1..Len(cs) : cs[j].to - cs[j].from + 1 = Len(Magic)}}
Within(st, rs, i, starts) ==
  \E p \in starts :
    /\ p < i /\ \A r \in rs : r <= p \/ r >= i
    /\ i > FrameHeaderEnd(p) => i <= p + LenIn(st, p)
Routed(cs, st, rs) ==
  \A k \in 1..Len(cs) :
    \A i \in cs[k].from..cs[k].to :
      cs[k].sink # IF Within(st, rs, i, StartsOf(cs)) THEN "console" ELSE "improv"

\* By position q the frame found after p was cut by a reset(), or is over.
DoneBy(st, rs, p, q) ==
  \/ \E r \in rs : p < r /\ r <= q
  \/ FrameHeaderEnd(p) <= q /\ p + LenIn(st, p) <= q

\* The frame found after p is the one that the filter is in.
Under(p) ==
  /\ \A r \in resetAt : r <= p
  /\ \A q \in StartsOf(calls) : q = p \/ DoneBy(stream, resetAt, q, Len(stream))
  /\ phase = "Header" => Len(stream) = p + Len(Magic) + holdN
  /\ phase = "Body" => /\ FrameHeaderEnd(p) <= Len(stream)
                       /\ Len(stream) + bodyLeft = p + LenIn(stream, p)

FrameInv ==
  /\ \A r \in resetAt : r <= Len(stream) - Held
  /\ \A p \in StartsOf(calls) : p \in Nat
  /\ phase \in {"Idle", "Magic"} =>
       \A p \in StartsOf(calls) : DoneBy(stream, resetAt, p, Len(stream) - Held)
  /\ phase \in {"Header", "Body"} => \E p \in StartsOf(calls) : Under(p)

\* The first n bytes after i are those of the magic.
MagicAfter(st, i, n) == \A k \in 1..n : st[i + k] = Magic[k]

\* A magic that begins while the filter is idle is recognised byte by byte ...
SearchInv ==
  \A i \in idleAt :
    /\ i <= Len(stream)
    /\ /\ Len(stream) - i < Len(Magic)
       /\ \A r \in resetAt : r <= i
       /\ MagicAfter(stream, i, Len(stream) - i)
       => IF Len(stream) = i THEN phase = "Idle"
          ELSE phase = "Magic" /\ holdN = Len(stream) - i

\* ... and leaves in one call.
Passed(cs, from, to) ==
  \E k \in 1..Len(cs) : cs[k].from = from /\ cs[k].to = to /\ cs[k].sink # "console"
CleanCalls ==
  \A i \in idleAt :
    /\ i + Len(Magic) <= Len(stream)
    /\ \A r \in resetAt : r <= i \/ r >= i + Len(Magic)
    /\ MagicAfter(stream, i, Len(Magic))
    => Passed(calls, i + 1, i + Len(Magic))

RouteInv ==
  Ordered(calls) /\ FrameInv /\ Routed(calls, stream, resetAt) /\ SearchInv /\ CleanCalls

-----------------------------------------------------------------------------
(* Sequences of calls, one call later *)

LEMMA CallsAppend ==
  ASSUME NEW cs \in Seq(CallType), NEW c \in CallType
  PROVE  /\ Len(cs) \in Nat /\ Len(Append(cs, c)) = Len(cs) + 1
         /\ \A k \in 1..Len(cs) : Append(cs, c)[k] = cs[k]
         /\ Append(cs, c)[Len(cs) + 1] = c
         /\ \A k \in 1..Len(Append(cs, c)) : k \in 1..Len(cs) \/ k = Len(cs) + 1
         /\ \A k \in 1..Len(cs) : cs[k].from \in Nat /\ cs[k].to \in Nat
         /\ c.from \in Nat /\ c.to \in Nat
<1>1. /\ Len(cs) \in Nat /\ Len(Append(cs, c)) = Len(cs) + 1
      /\ \A k \in 1..Len(cs) : Append(cs, c)[k] = cs[k]
      /\ Append(cs, c)[Len(cs) + 1] = c
  BY AppendProperties
<1>2. \A k \in 1..(Len(cs) + 1) : k \in 1..Len(cs) \/ k = Len(cs) + 1
  BY <1>1
<1>3. \A k \in 1..Len(cs) : cs[k] \in CallType
  BY ElementOfSeq
<1>4. \A d \in CallType : d.from \in Nat /\ d.to \in Nat
  BY DEF CallType
<1> QED
  BY <1>1, <1>2, <1>3, <1>4

LEMMA OrderedAppend ==
  ASSUME NEW cs \in Seq(CallType), Tiles(cs), Ordered(cs), NEW c \in CallType,
         c.from = Covered(cs) + 1, c.from <= c.to
  PROVE  Ordered(Append(cs, c))
<1> DEFINE ds == Append(cs, c)
<1>1. Covered(ds) = c.to
  BY TilesAppend
<1>2. /\ Len(cs) \in Nat /\ Len(ds) = Len(cs) + 1
      /\ \A k \in 1..Len(cs) : ds[k] = cs[k]
      /\ ds[Len(cs) + 1] = c
      /\ \A k \in 1..Len(ds) : k \in 1..Len(cs) \/ k = Len(cs) + 1
      /\ \A k \in 1..Len(cs) : cs[k].from \in Nat /\ cs[k].to \in Nat
      /\ c.from \in Nat /\ c.to \in Nat
  BY CallsAppend
<1>3. Covered(cs) \in Nat
  BY CoveredIsNat
<1> HIDE DEF ds
<1>4. ASSUME NEW k \in 1..Len(cs) PROVE cs[k].to < c.from /\ cs[k].to <= c.to
  BY <1>2, <1>3 DEF Ordered
<1>5. \A k \in 1..Len(ds) : ds[k].to <= Covered(ds)
  BY <1>1, <1>2, <1>4
<1>6. ASSUME NEW k \in 1..Len(ds), NEW m \in 1..Len(ds), k < m
      PROVE  ds[k].to < ds[m].from
  <2>1. k \in 1..Len(cs)
    BY <1>2, <1>6
  <2>2. CASE m \in 1..Len(cs)
    BY <1>2, <1>6, <2>1, <2>2 DEF Ordered
  <2>3. CASE m = Len(cs) + 1
    BY <1>2, <1>4, <2>1, <2>3
  <2> QED
    BY <1>2, <2>2, <2>3
<1> QED
  BY <1>5, <1>6 DEF Ordered, ds

\* A call of the length of the magic is where a frame was found.
LEMMA StartsAppend ==
  ASSUME NEW cs \in Seq(CallType), NEW c \in CallType
  PROVE  \A p : p \in StartsOf(Append(cs, c)) <=>
           p \in StartsOf(cs) \/ (c.to - c.from + 1 = Len(Magic) /\ p = c.from - 1)
<1> DEFINE ds == Append(cs, c)
<1>1. /\ Len(cs) \in Nat /\ Len(ds) = Len(cs) + 1
      /\ \A k \in 1..Len(cs) : ds[k] = cs[k]
      /\ ds[Len(cs) + 1] = c
      /\ \A k \in 1..Len(ds) : k \in 1..Len(cs) \/ k = Len(cs) + 1
  BY CallsAppend
<1> HIDE DEF ds
<1>2. \A k \in 1..Len(cs) : k \in 1..Len(ds)
  BY <1>1
<1>3. Len(cs) + 1 \in 1..Len(ds)
  BY <1>1
<1>4. ASSUME NEW p, p \in StartsOf(ds)
      PROVE  p \in StartsOf(cs) \/ (c.to - c.from + 1 = Len(Magic) /\ p = c.from - 1)
  <2>1. PICK k \in 1..Len(ds) : ds[k].to - ds[k].from + 1 = Len(Magic) /\ p = ds[k].from - 1
    BY <1>4 DEF StartsOf
  <2>2. CASE k \in 1..Len(cs)
    BY <1>1, <2>1, <2>2 DEF StartsOf
  <2>3. CASE k = Len(cs) + 1
    BY <1>1, <2>1, <2>3
  <2> QED
    BY <1>1, <2>2, <2>3
<1>5. ASSUME NEW p, p \in StartsOf(cs) PROVE p \in StartsOf(ds)
  <2>1. PICK k \in 1..Len(cs) : cs[k].to - cs[k].from + 1 = Len(Magic) /\ p = cs[k].from - 1
    BY <1>5 DEF StartsOf
  <2> QED
    BY <1>1, <1>2, <2>1 DEF StartsOf
<1>6. ASSUME c.to - c.from + 1 = Len(Magic) PROVE c.from - 1 \in StartsOf(ds)
  BY <1>1, <1>3, <1>6 DEF StartsOf
<1> QED
  BY <1>4, <1>5, <1>6 DEF ds

\* A frame found now holds no byte of an earlier call.
LEMMA RoutedAppend ==
  ASSUME NEW cs \in Seq(CallType), Ordered(cs), NEW c \in CallType,
         c.from = Covered(cs) + 1,
         NEW st, NEW rs, Routed(cs, st, rs),
         \A i \in c.from..c.to :
           c.sink # IF Within(st, rs, i, StartsOf(Append(cs, c))) THEN "console" ELSE "improv"
  PROVE  Routed(Append(cs, c), st, rs)
<1> DEFINE ds == Append(cs, c)
<1>1. /\ Len(cs) \in Nat /\ Len(ds) = Len(cs) + 1
      /\ \A k \in 1..Len(cs) : ds[k] = cs[k]
      /\ ds[Len(cs) + 1] = c
      /\ \A k \in 1..Len(ds) : k \in 1..Len(cs) \/ k = Len(cs) + 1
      /\ \A k \in 1..Len(cs) : cs[k].from \in Nat /\ cs[k].to \in Nat
  BY CallsAppend
<1>2. \A p : p \in StartsOf(ds) <=>
        p \in StartsOf(cs) \/ (c.to - c.from + 1 = Len(Magic) /\ p = c.from - 1)
  BY StartsAppend
<1>3. \A i \in c.from..c.to :
        c.sink # IF Within(st, rs, i, StartsOf(ds)) THEN "console" ELSE "improv"
  OBVIOUS
<1>4. Covered(cs) \in Nat
  BY CoveredIsNat
<1> HIDE DEF ds
<1>5. ASSUME NEW k \in 1..Len(cs), NEW i \in cs[k].from..cs[k].to
      PROVE  Within(st, rs, i, StartsOf(ds)) <=> Within(st, rs, i, StartsOf(cs))
  <2>1. i <= Covered(cs) /\ i \in Nat
    BY <1>1, <1>4 DEF Ordered
  <2>2. \A p \in StartsOf(ds) : p < i => p \in StartsOf(cs)
    BY <1>2, <1>4, <2>1
  <2> QED
    BY <1>2, <2>2 DEF Within
<1>6. ASSUME NEW k \in 1..Len(ds), NEW i \in ds[k].from..ds[k].to
      PROVE  ds[k].sink # IF Within(st, rs, i, StartsOf(ds)) THEN "console" ELSE "improv"
  <2>1. CASE k \in 1..Len(cs)
    BY <1>1, <1>5, <2>1 DEF Routed
  <2>2. CASE k = Len(cs) + 1
    BY <1>1, <1>3, <2>2
  <2> QED
    BY <1>1, <2>1, <2>2
<1> QED
  BY <1>6 DEF Routed, ds

\* Nothing that comes later changes which frame a byte belongs to.
LEMMA RoutedStays ==
  ASSUME NEW cs \in Seq(CallType), Ordered(cs), NEW st \in Seq(Byte), NEW rs,
         Routed(cs, st, rs), \A p \in StartsOf(cs) : p \in Nat, Covered(cs) <= Len(st),
         NEW su, \A i \in 1..Len(st) : su[i] = st[i],
         NEW rt, rs \subseteq rt, \A r \in rt : r \in rs \/ r >= Covered(cs),
         rt \subseteq Nat
  PROVE  Routed(cs, su, rt)
<1>1. /\ Len(cs) \in Nat /\ Len(st) \in Nat /\ Covered(cs) \in Nat
      /\ \A k \in 1..Len(cs) : cs[k].from \in Nat /\ cs[k].to \in Nat
  <2>1. Len(cs) \in Nat
    BY LenProperties
  <2>2. Len(st) \in Nat
    BY LenProperties
  <2>3. \A k \in 1..Len(cs) : cs[k] \in CallType
    BY ElementOfSeq
  <2>4. \A c \in CallType : c.from \in Nat /\ c.to \in Nat
    BY DEF CallType
  <2> QED
    BY <2>1, <2>2, <2>3, <2>4, CoveredIsNat
<1>2. ASSUME NEW k \in 1..Len(cs), NEW i \in cs[k].from..cs[k].to
      PROVE  Within(su, rt, i, StartsOf(cs)) <=> Within(st, rs, i, StartsOf(cs))
  <2>1. i <= Covered(cs) /\ i \in Nat
    BY <1>1 DEF Ordered
  <2>2. \A p : (\A r \in rt : r <= p \/ r >= i) <=> (\A r \in rs : r <= p \/ r >= i)
    <3>1. \A r \in rt : r \notin rs => r >= i
      BY <1>1, <2>1
    <3> QED
      BY <3>1
  <2>3. ASSUME NEW p \in StartsOf(cs), i > FrameHeaderEnd(p) PROVE LenIn(su, p) = LenIn(st, p)
    <3>1. p \in Nat /\ Len(Magic) \in Nat
      BY MagicAssumption
    <3>2. p + Len(Magic) + HeaderLen \in 1..Len(st)
      BY <1>1, <2>1, <2>3, <3>1 DEF FrameHeaderEnd, HeaderLen
    <3> QED
      BY <3>2 DEF LenIn
  <2> QED
    BY <2>2, <2>3 DEF Within
<1> QED
  BY <1>2 DEF Routed

\* A frame that is over stays over.
LEMMA DoneStays ==
  ASSUME NEW st \in Seq(Byte), NEW su, \A i \in 1..Len(st) : su[i] = st[i],
         NEW rs, NEW rt, rs \subseteq rt, rs \subseteq Nat,
         NEW p \in Nat, NEW q \in Nat, q <= Len(st), NEW u \in Nat, q <= u,
         DoneBy(st, rs, p, q)
  PROVE  DoneBy(su, rt, p, u)
<1>1. CASE \E r \in rs : p < r /\ r <= q
  <2>1. PICK r \in rs : p < r /\ r <= q
    BY <1>1
  <2>2. r \in rt /\ p < r /\ r <= u
    BY <2>1
  <2> QED
    BY <2>2 DEF DoneBy
<1>2. CASE FrameHeaderEnd(p) <= q /\ p + LenIn(st, p) <= q
  <2>1. Len(st) \in Nat /\ Len(Magic) \in Nat
    BY LenProperties, MagicAssumption
  <2>2. p + Len(Magic) + HeaderLen \in 1..Len(st)
    BY <1>2, <2>1 DEF FrameHeaderEnd, HeaderLen
  <2>3. LenIn(su, p) = LenIn(st, p) /\ LenIn(st, p) \in Nat /\ FrameHeaderEnd(p) \in Nat
    <3>1. st[p + Len(Magic) + HeaderLen] \in Nat
      BY <2>2, ElementOfSeq, ByteAssumption DEF Byte
    <3> QED
      BY <2>1, <2>2, <3>1 DEF LenIn, FrameHeaderEnd, HeaderLen
  <2> QED
    BY <1>2, <2>3 DEF DoneBy
<1> QED
  BY <1>1, <1>2 DEF DoneBy

\* A byte after the end of every frame belongs to none.
LEMMA NotWithin ==
  ASSUME NEW st \in Seq(Byte), NEW rs, rs \subseteq Nat, NEW starts, NEW q \in Nat, q <= Len(st),
         \A p \in starts : p \in Nat /\ DoneBy(st, rs, p, q),
         NEW i \in Nat, i > q
  PROVE  ~Within(st, rs, i, starts)
<1> SUFFICES ASSUME NEW p \in starts, p < i, \A r \in rs : r <= p \/ r >= i,
                    i > FrameHeaderEnd(p) => i <= p + LenIn(st, p)
             PROVE  FALSE
  BY DEF Within
<1>1. DoneBy(st, rs, p, q) /\ p \in Nat
  OBVIOUS
<1>2. ~\E r \in rs : p < r /\ r <= q
  OBVIOUS
<1>3. FrameHeaderEnd(p) <= q /\ p + LenIn(st, p) <= q
  BY <1>1, <1>2 DEF DoneBy
<1>4. Len(st) \in Nat /\ Len(Magic) \in Nat
  BY LenProperties, MagicAssumption
<1>5. p + Len(Magic) + HeaderLen \in 1..Len(st)
  BY <1>1, <1>3, <1>4 DEF FrameHeaderEnd, HeaderLen
<1>6. LenIn(st, p) \in Nat /\ FrameHeaderEnd(p) \in Nat
  <2>1. st[p + Len(Magic) + HeaderLen] \in Nat
    BY <1>5, ElementOfSeq, ByteAssumption DEF Byte
  <2> QED
    BY <1>1, <1>4, <2>1 DEF LenIn, FrameHeaderEnd, HeaderLen
<1> QED
  BY <1>1, <1>3, <1>6

-----------------------------------------------------------------------------
(* One byte, and what it does to frames and calls *)

\* What every outcome of feed() has in common.
Fed(b) ==
  /\ stream \in Seq(Byte) /\ Len(stream) \in Nat
  /\ stream' \in Seq(Byte) /\ Len(stream') = Len(stream) + 1
  /\ \A i \in 1..Len(stream) : stream'[i] = stream[i]
  /\ stream'[Len(stream) + 1] = b
  /\ resetAt' = resetAt /\ resetAt \subseteq Nat /\ idleAt \subseteq Nat
  /\ idleAt' = IF phase' = "Idle" THEN idleAt \cup {Len(stream) + 1} ELSE idleAt
  /\ calls \in Seq(CallType) /\ Tiles(calls) /\ Covered(calls) \in Nat
  /\ Held \in Nat /\ Len(stream) = Covered(calls) + Held
  /\ Here = Len(stream) + 1 /\ Len(Magic) \in Nat /\ Len(Magic) > 1

LEMMA FeedIsFed == ASSUME IInv, NEW b \in Byte, Feed(b) PROVE Fed(b)
<1>1. stream \in Seq(Byte) /\ Len(stream) \in Nat /\ resetAt \subseteq Nat /\ idleAt \subseteq Nat
  BY DEF IInv, TypeOK
<1>2. Take(b)
  BY DEF Feed, IdleHolds, IdlePasses, MagicGoesOn, MagicCompletes, MagicBreaks,
         HeaderByte, BodyByte
<1>3. stream' = Append(stream, b) /\ resetAt' = resetAt
  BY <1>2 DEF Take
<1>4. idleAt' = IF phase' = "Idle" THEN idleAt \cup {Len(stream) + 1} ELSE idleAt
  BY <1>2 DEF Take, Here
<1>5. /\ stream' \in Seq(Byte) /\ Len(stream') = Len(stream) + 1
      /\ \A i \in 1..Len(stream) : stream'[i] = stream[i]
      /\ stream'[Len(stream) + 1] = b
  BY <1>1, <1>3, AppendProperties
<1>6. calls \in Seq(CallType) /\ Tiles(calls) /\ Covered(calls) \in Nat
  BY CoveredIsNat DEF IInv, TypeOK, Tiling
<1>7. Held \in Nat /\ Len(stream) = Covered(calls) + Held
  BY DEF IInv, TypeOK, Tiling, Held
<1> QED
  BY <1>1, <1>3, <1>4, <1>5, <1>6, <1>7, MagicAssumption DEF Fed, Here

LEMMA CallSinks ==
  \A from, to : /\ Call("console", from, to).sink # "improv"
                /\ Call("improv", from, to).sink # "console"
BY DEF Call

\* The search for the magic keeps up with the stream.
LEMMA SearchNext ==
  ASSUME SearchInv, NEW b, Fed(b),
         phase = "Idle" /\ b = Magic[1] => phase' = "Magic" /\ holdN' = 1,
         phase = "Magic" /\ b = Magic[holdN + 1] /\ holdN + 1 < Len(Magic) =>
           phase' = "Magic" /\ holdN' = holdN + 1
  PROVE  SearchInv'
<1>1. ASSUME NEW i \in idleAt'
      PROVE  i \in Nat /\ (i \in idleAt \/ (i = Len(stream) + 1 /\ phase' = "Idle"))
  <2>1. idleAt \subseteq Nat /\ Len(stream) + 1 \in Nat
    BY DEF Fed
  <2>2. CASE phase' = "Idle"
    <3>1. idleAt' = idleAt \cup {Len(stream) + 1}
      BY <2>2 DEF Fed
    <3>2. i \in idleAt \/ i = Len(stream) + 1
      BY <3>1
    <3> QED
      BY <2>1, <2>2, <3>2
  <2>3. CASE phase' # "Idle"
    <3>1. idleAt' = idleAt
      BY <2>3 DEF Fed
    <3> QED
      BY <2>1, <3>1
  <2> QED
    BY <2>2, <2>3
<1>2. Len(stream) \in Nat /\ Len(stream') = Len(stream) + 1
  BY DEF Fed
<1> SUFFICES ASSUME NEW i \in idleAt'
             PROVE  /\ i <= Len(stream')
                    /\ /\ Len(stream') - i < Len(Magic)
                       /\ \A r \in resetAt' : r <= i
                       /\ MagicAfter(stream', i, Len(stream') - i)
                       => IF Len(stream') = i THEN phase' = "Idle"
                          ELSE phase' = "Magic" /\ holdN' = Len(stream') - i
  BY DEF SearchInv
<1>3. CASE i \notin idleAt
  BY <1>1, <1>2, <1>3
<1>4. CASE i \in idleAt
  <2>1. i <= Len(stream) /\ i \in Nat
    BY <1>1, <1>4 DEF SearchInv
  <2>2. SUFFICES ASSUME Len(stream') - i < Len(Magic),
                        \A r \in resetAt' : r <= i,
                        MagicAfter(stream', i, Len(stream') - i)
                 PROVE  phase' = "Magic" /\ holdN' = Len(stream') - i
    BY <1>2, <2>1
  <2> DEFINE n == Len(stream) - i
  <2>3. n \in Nat /\ Len(stream') - i = n + 1 /\ Len(Magic) \in Nat
    BY <1>2, <2>1 DEF Fed
  <2>4. MagicAfter(stream, i, n)
    <3>1. \A k \in 1..n : k \in 1..(n + 1) /\ i + k \in 1..Len(stream)
      BY <1>2, <2>1
    <3> QED
      BY <2>2, <2>3, <3>1 DEF MagicAfter, Fed
  <2>5. b = Magic[n + 1]
    <3>1. n + 1 \in 1..(n + 1) /\ i + (n + 1) = Len(stream) + 1
      BY <1>2, <2>1
    <3>2. stream'[i + (n + 1)] = Magic[n + 1]
      BY <2>2, <2>3, <3>1 DEF MagicAfter
    <3> QED
      BY <3>1, <3>2 DEF Fed
  <2>6. IF Len(stream) = i THEN phase = "Idle" ELSE phase = "Magic" /\ holdN = n
    <3>1. Len(stream) - i < Len(Magic)
      BY <2>2, <2>3
    <3>2. resetAt' = resetAt
      BY DEF Fed
    <3>3. \A r \in resetAt : r <= i
      BY <2>2, <3>2
    <3> QED
      BY <1>4, <2>4, <3>1, <3>3 DEF SearchInv
  <2> HIDE DEF n
  <2>7. CASE Len(stream) = i
    <3>1. n = 0 /\ phase = "Idle" /\ b = Magic[1]
      BY <1>2, <2>5, <2>6, <2>7 DEF n
    <3> QED
      BY <2>3, <3>1
  <2>8. CASE Len(stream) # i
    <3>1. phase = "Magic" /\ holdN = n /\ b = Magic[holdN + 1] /\ holdN + 1 < Len(Magic)
      BY <2>2, <2>3, <2>5, <2>6, <2>8
    <3> QED
      BY <2>3, <3>1
  <2> QED
    BY <2>7, <2>8
<1> QED
  BY <1>3, <1>4

LEMMA PassedStays ==
  ASSUME NEW cs \in Seq(CallType), NEW c \in CallType
  PROVE  \A from, to : Passed(cs, from, to) => Passed(Append(cs, c), from, to)
<1> DEFINE ds == Append(cs, c)
<1>1. /\ Len(cs) \in Nat /\ Len(ds) = Len(cs) + 1 /\ \A k \in 1..Len(cs) : ds[k] = cs[k]
  BY CallsAppend
<1> HIDE DEF ds
<1>2. \A k \in 1..Len(cs) : k \in 1..Len(ds)
  BY <1>1
<1>3. \A from, to : Passed(cs, from, to) => Passed(ds, from, to)
  BY <1>1, <1>2 DEF Passed
<1> QED
  BY <1>3 DEF ds

\* A magic that is complete has been recognised, and passed on in one call.
LEMMA CleanNext ==
  ASSUME SearchInv, CleanCalls, FrameInv, NEW b, Fed(b),
         \A from, to : Passed(calls, from, to) => Passed(calls', from, to),
         phase = "Magic" /\ b = Magic[holdN + 1] /\ holdN + 1 = Len(Magic) =>
           Passed(calls', Here - holdN, Here)
  PROVE  CleanCalls'
<1> SUFFICES ASSUME NEW i \in idleAt',
                    i + Len(Magic) <= Len(stream'),
                    \A r \in resetAt' : r <= i \/ r >= i + Len(Magic),
                    MagicAfter(stream', i, Len(Magic))
             PROVE  Passed(calls', i + 1, i + Len(Magic))
  BY DEF CleanCalls
<1>1. /\ Len(stream) \in Nat /\ Len(stream') = Len(stream) + 1
      /\ Len(Magic) \in Nat /\ Len(Magic) > 1 /\ Here = Len(stream) + 1
  BY DEF Fed
<1>2. i \in idleAt /\ i \in Nat
  BY <1>1 DEF Fed
<1>3. CASE i + Len(Magic) <= Len(stream)
  <2>1. MagicAfter(stream, i, Len(Magic))
    <3>1. \A k \in 1..Len(Magic) : i + k \in 1..Len(stream)
      BY <1>1, <1>2, <1>3
    <3> QED
      BY <3>1 DEF MagicAfter, Fed
  <2>2. \A r \in resetAt : r <= i \/ r >= i + Len(Magic)
    BY DEF Fed
  <2> QED
    BY <1>2, <1>3, <2>1, <2>2 DEF CleanCalls
<1>4. CASE i + Len(Magic) = Len(stream) + 1
  <2> DEFINE n == Len(stream) - i
  <2>1. n \in Nat /\ n + 1 = Len(Magic) /\ n < Len(Magic) /\ n # 0 /\ Len(stream) # i
    BY <1>1, <1>2, <1>4
  <2>2. MagicAfter(stream, i, n)
    <3>1. \A k \in 1..n : k \in 1..Len(Magic) /\ i + k \in 1..Len(stream)
      BY <1>1, <1>2, <1>4
    <3> QED
      BY <3>1 DEF MagicAfter, Fed
  <2>3. \A r \in resetAt : r <= i
    <3>1. \A r \in resetAt : r \in Nat /\ r <= Len(stream) - Held /\ Held \in Nat
      BY DEF FrameInv, Fed
    <3>2. \A r \in resetAt : r <= i \/ r >= i + Len(Magic)
      BY DEF Fed
    <3> QED
      BY <1>1, <1>4, <3>1, <3>2
  <2>4. phase = "Magic" /\ holdN = n
    BY <1>2, <2>1, <2>2, <2>3 DEF SearchInv
  <2>5. b = Magic[n + 1]
    <3>1. Len(Magic) \in 1..Len(Magic)
      BY <1>1
    <3>2. stream'[i + Len(Magic)] = Magic[Len(Magic)]
      BY <3>1 DEF MagicAfter
    <3> QED
      BY <1>4, <2>1, <3>2 DEF Fed
  <2>6. Here - n = i + 1 /\ Here = i + Len(Magic)
    BY <1>1, <1>2, <1>4
  <2> HIDE DEF n
  <2> QED
    BY <2>1, <2>4, <2>5, <2>6
<1> QED
  BY <1>1, <1>2, <1>3, <1>4

-----------------------------------------------------------------------------
(* One call later: frames stay where they were found, and the bytes go to the *)
(* sink of the frame they are in.                                             *)

\* A call that is no part of a frame, when every frame is over.
LEMMA PassOutside ==
  ASSUME NEW cs \in Seq(CallType), Tiles(cs), Ordered(cs), NEW st \in Seq(Byte),
         NEW rs, rs \subseteq Nat, Routed(cs, st, rs),
         NEW c \in CallType, c.from = Covered(cs) + 1, c.from <= c.to, c.to <= Len(st),
         c.to - c.from + 1 # Len(Magic), c.sink # "improv",
         \A p \in StartsOf(cs) : p \in Nat /\ DoneBy(st, rs, p, Covered(cs))
  PROVE  /\ Append(cs, c) \in Seq(CallType) /\ Tiles(Append(cs, c))
         /\ Covered(Append(cs, c)) = c.to
         /\ Ordered(Append(cs, c)) /\ Routed(Append(cs, c), st, rs)
         /\ \A p \in StartsOf(Append(cs, c)) : p \in Nat /\ DoneBy(st, rs, p, c.to)
<1>1. /\ Append(cs, c) \in Seq(CallType) /\ Tiles(Append(cs, c))
      /\ Covered(Append(cs, c)) = c.to /\ Ordered(Append(cs, c))
  BY TilesAppend, OrderedAppend
<1>2. \A p \in StartsOf(Append(cs, c)) : p \in StartsOf(cs)
  BY StartsAppend
<1>3. Covered(cs) \in Nat /\ c.from \in Nat /\ c.to \in Nat /\ Covered(cs) <= c.to
  <2>1. Covered(cs) \in Nat
    BY CoveredIsNat
  <2> QED
    BY <2>1 DEF CallType
<1>4. Len(st) \in Nat /\ Covered(cs) <= Len(st)
  <2>1. Len(st) \in Nat
    BY LenProperties
  <2> QED
    BY <1>3, <2>1
<1>5. \A p \in StartsOf(Append(cs, c)) : p \in Nat /\ DoneBy(st, rs, p, Covered(cs))
  BY <1>2
<1>6. \A p \in StartsOf(Append(cs, c)) : p \in Nat /\ DoneBy(st, rs, p, c.to)
  BY <1>3, <1>4, <1>5, DoneStays
<1>7. ASSUME NEW i \in c.from..c.to
      PROVE  ~Within(st, rs, i, StartsOf(Append(cs, c)))
  <2>1. i \in Nat /\ i > Covered(cs)
    BY <1>3
  <2> QED
    BY <1>3, <1>4, <1>5, <2>1, NotWithin
<1>8. Routed(Append(cs, c), st, rs)
  BY <1>7, RoutedAppend
<1> QED
  BY <1>1, <1>6, <1>8

\* A call whose bytes are all inside a frame, one of those found or the one that
\* this call opens.
LEMMA PassInside ==
  ASSUME NEW cs \in Seq(CallType), Tiles(cs), Ordered(cs), NEW st \in Seq(Byte),
         NEW rs, Routed(cs, st, rs),
         NEW c \in CallType, c.from = Covered(cs) + 1, c.from <= c.to,
         c.sink # "console",
         NEW p \in StartsOf(Append(cs, c)), p \in Nat, p < c.from,
         \A r \in rs : r \in Nat /\ r <= p,
         c.to > FrameHeaderEnd(p) => c.to <= p + LenIn(st, p) /\ LenIn(st, p) \in Nat
  PROVE  /\ Append(cs, c) \in Seq(CallType) /\ Tiles(Append(cs, c))
         /\ Covered(Append(cs, c)) = c.to
         /\ Ordered(Append(cs, c)) /\ Routed(Append(cs, c), st, rs)
<1>1. /\ Append(cs, c) \in Seq(CallType) /\ Tiles(Append(cs, c))
      /\ Covered(Append(cs, c)) = c.to /\ Ordered(Append(cs, c))
  BY TilesAppend, OrderedAppend
<1>2. c.from \in Nat /\ c.to \in Nat /\ FrameHeaderEnd(p) \in Nat
  BY MagicAssumption DEF CallType, FrameHeaderEnd, HeaderLen
<1>3. ASSUME NEW i \in c.from..c.to
      PROVE  Within(st, rs, i, StartsOf(Append(cs, c)))
  <2>1. p < i /\ i \in Nat /\ i <= c.to
    BY <1>2
  <2>2. i > FrameHeaderEnd(p) => i <= p + LenIn(st, p)
    BY <1>2, <2>1
  <2> QED
    BY <2>1, <2>2 DEF Within
<1>4. Routed(Append(cs, c), st, rs)
  BY <1>3, RoutedAppend
<1> QED
  BY <1>1, <1>4

\* The part of the invariant about frames.
Frames == Ordered(calls) /\ FrameInv /\ Routed(calls, stream, resetAt)

\* What is known of frames before a byte is acted on, in terms of the new stream.
LEMMA FramesBefore ==
  ASSUME Frames, NEW b, Fed(b)
  PROVE  /\ Routed(calls, stream', resetAt')
         /\ \A p \in StartsOf(calls) : p \in Nat
         /\ \A r \in resetAt' : r \in Nat /\ r <= Covered(calls)
         /\ phase \in {"Idle", "Magic"} =>
              \A p \in StartsOf(calls) : DoneBy(stream', resetAt', p, Covered(calls))
         /\ \A p \in StartsOf(calls) :
              DoneBy(stream, resetAt, p, Len(stream)) =>
                DoneBy(stream', resetAt', p, Len(stream'))
<1>1. /\ stream \in Seq(Byte) /\ Len(stream) \in Nat /\ Len(stream') = Len(stream) + 1
      /\ \A i \in 1..Len(stream) : stream'[i] = stream[i]
      /\ resetAt' = resetAt /\ resetAt \subseteq Nat
      /\ calls \in Seq(CallType) /\ Covered(calls) \in Nat
      /\ Covered(calls) <= Len(stream) /\ Len(stream) - Held = Covered(calls)
  BY DEF Fed
<1>2. \A p \in StartsOf(calls) : p \in Nat
  BY DEF Frames, FrameInv
<1>3. Routed(calls, stream', resetAt')
  BY <1>1, <1>2, RoutedStays DEF Frames
<1>4. \A r \in resetAt' : r \in Nat /\ r <= Covered(calls)
  BY <1>1 DEF Frames, FrameInv
<1>5. ASSUME phase \in {"Idle", "Magic"}, NEW p \in StartsOf(calls)
      PROVE  DoneBy(stream', resetAt', p, Covered(calls))
  <2>1. DoneBy(stream, resetAt, p, Covered(calls))
    BY <1>1, <1>5 DEF Frames, FrameInv
  <2>2. p \in Nat /\ resetAt \subseteq resetAt' /\ Covered(calls) <= Covered(calls)
    BY <1>1, <1>2
  <2> QED
    BY <1>1, <2>1, <2>2, DoneStays
<1>6. ASSUME NEW p \in StartsOf(calls), DoneBy(stream, resetAt, p, Len(stream))
      PROVE  DoneBy(stream', resetAt', p, Len(stream'))
  <2>1. Len(stream') \in Nat /\ Len(stream) <= Len(stream') /\ Len(stream) <= Len(stream)
    BY <1>1
  <2>2. p \in Nat /\ resetAt \subseteq resetAt'
    BY <1>1, <1>2
  <2> HIDE DEF DoneBy
  <2> QED
    BY <1>1, <1>6, <2>1, <2>2, DoneStays
<1> QED
  BY <1>2, <1>3, <1>4, <1>5, <1>6

\* A byte that is held: nothing is passed on, and the boundary does not move.
LEMMA HeldFrames ==
  ASSUME IInv, Frames, NEW b \in Byte, Fed(b), IdleHolds(b) \/ MagicGoesOn(b)
  PROVE  Frames'
<1>1. phase \in {"Idle", "Magic"} /\ phase' = "Magic" /\ calls' = calls
  BY DEF IdleHolds, MagicGoesOn
<1>2. Len(stream') - Held' = Covered(calls)
  <2>1. holdN' = Held + 1
    <3>1. CASE IdleHolds(b)
      BY <3>1 DEF IdleHolds, Held
    <3>2. CASE MagicGoesOn(b)
      BY <3>2 DEF MagicGoesOn, Held
    <3> QED
      BY <3>1, <3>2
  <2>2. Held' = Held + 1
    BY <1>1, <2>1 DEF Held
  <2> QED
    BY <2>2 DEF Fed
<1>3. FrameInv'
  BY <1>1, <1>2, FramesBefore DEF FrameInv
<1>4. Ordered(calls') /\ Routed(calls', stream', resetAt')
  BY <1>1, FramesBefore DEF Frames
<1> QED
  BY <1>3, <1>4 DEF Frames

\* Outside a frame, a byte goes to the console, after what was held.
LEMMA PassedFrames ==
  ASSUME IInv, Frames, NEW b \in Byte, Fed(b), IdlePasses(b) \/ MagicBreaks(b)
  PROVE  Frames'
<1>1. /\ stream' \in Seq(Byte) /\ Len(stream') = Len(stream) + 1 /\ Len(stream) \in Nat
      /\ calls \in Seq(CallType) /\ Tiles(calls) /\ Covered(calls) \in Nat
      /\ Held \in Nat /\ Len(stream) = Covered(calls) + Held /\ Here = Len(stream) + 1
      /\ Len(Magic) \in Nat /\ Len(Magic) > 1 /\ resetAt' \subseteq Nat
      /\ "console" \in Sinks
  BY DEF Fed, Sinks
<1>2. /\ Ordered(calls) /\ Routed(calls, stream', resetAt')
      /\ \A r \in resetAt' : r \in Nat /\ r <= Covered(calls)
      /\ \A p \in StartsOf(calls) : p \in Nat /\ DoneBy(stream', resetAt', p, Covered(calls))
  <2>1. phase \in {"Idle", "Magic"}
    BY DEF IdlePasses, MagicBreaks
  <2> QED
    BY <2>1, FramesBefore DEF Frames
<1>3. SUFFICES /\ phase' = "Idle"
               /\ Ordered(calls') /\ Routed(calls', stream', resetAt')
               /\ \A p \in StartsOf(calls') :
                    p \in Nat /\ DoneBy(stream', resetAt', p, Len(stream'))
  <2>1. ASSUME phase' = "Idle" PROVE Held' = 0
    BY <2>1 DEF Held
  <2> QED
    BY <1>1, <1>2, <2>1 DEF Frames, FrameInv
<1> DEFINE d == Call("console", Here, Here)
<1>4. d \in CallType /\ d.from = Here /\ d.to = Here /\ d.sink # "improv"
  BY <1>1, CallInType, CallSinks
<1>5. CASE IdlePasses(b)
  <2>1. Held = 0 /\ phase' = "Idle" /\ calls' = Append(calls, d)
    BY <1>5 DEF IdlePasses, machine, Held
  <2> HIDE DEF d
  <2>2. /\ d.from = Covered(calls) + 1 /\ d.from <= d.to /\ d.to <= Len(stream')
        /\ d.to - d.from + 1 # Len(Magic) /\ d.to = Len(stream')
    BY <1>1, <1>4, <2>1
  <2>3. /\ Ordered(Append(calls, d)) /\ Routed(Append(calls, d), stream', resetAt')
        /\ \A p \in StartsOf(Append(calls, d)) :
             p \in Nat /\ DoneBy(stream', resetAt', p, d.to)
    BY <1>1, <1>2, <1>4, <2>2, PassOutside
  <2> QED
    BY <2>1, <2>2, <2>3
<1>6. CASE MagicBreaks(b)
  <2> DEFINE c == Call("console", Here - holdN, Here - 1)
  <2>1. /\ phase = "Magic" /\ phase' = "Idle" /\ calls' = Append(Append(calls, c), d)
    BY <1>6 DEF MagicBreaks
  <2>2. Held = holdN /\ holdN \in 1..(Len(Magic) - 1) /\ holdN <= Len(stream)
    BY <2>1 DEF Held, IInv, HoldIsMagic
  <2>3. Here - holdN \in Nat /\ Here - 1 \in Nat
    BY <1>1, <2>2
  <2>4. c \in CallType /\ c.from = Here - holdN /\ c.to = Here - 1 /\ c.sink # "improv"
    BY <1>1, <2>3, CallInType, CallSinks
  <2> HIDE DEF c, d
  <2>5. /\ c.from = Covered(calls) + 1 /\ c.from <= c.to /\ c.to <= Len(stream')
        /\ c.to - c.from + 1 # Len(Magic)
    <3>1. c.from = Covered(calls) + 1 /\ c.to = Len(stream)
      <4>1. /\ Covered(calls) \in Nat /\ holdN \in Nat /\ Len(stream) = Covered(calls) + holdN
            /\ Here = Len(stream) + 1
        BY <1>1, <2>2
      <4> QED
        BY <2>4, <4>1
    <3>2. Len(stream) = Covered(calls) + holdN /\ holdN \in Nat /\ holdN # Len(Magic) /\ holdN >= 1
      BY <1>1, <2>2
    <3>3. Covered(calls) \in Nat /\ Len(stream') = Len(stream) + 1
      BY <1>1
    <3>4. c.from <= c.to /\ c.to <= Len(stream')
      BY <3>1, <3>2, <3>3
    <3>5. c.to - c.from + 1 # Len(Magic)
      BY <3>1, <3>2, <3>3
    <3> QED
      BY <3>1, <3>4, <3>5
  <2> DEFINE ds == Append(calls, c)
  <2>6. /\ ds \in Seq(CallType) /\ Tiles(ds) /\ Covered(ds) = c.to
        /\ Ordered(ds) /\ Routed(ds, stream', resetAt')
        /\ \A p \in StartsOf(ds) : p \in Nat /\ DoneBy(stream', resetAt', p, Covered(ds))
    BY <1>1, <1>2, <2>4, <2>5, PassOutside
  <2>7. calls' = Append(ds, d)
    BY <2>1
  <2> HIDE DEF ds
  <2>8. /\ d.from = Covered(ds) + 1 /\ d.from <= d.to /\ d.to <= Len(stream')
        /\ d.to - d.from + 1 # Len(Magic) /\ d.to = Len(stream')
    BY <1>1, <1>4, <2>4, <2>6
  <2>9. /\ Ordered(Append(ds, d)) /\ Routed(Append(ds, d), stream', resetAt')
        /\ \A p \in StartsOf(Append(ds, d)) :
             p \in Nat /\ DoneBy(stream', resetAt', p, d.to)
    BY <1>1, <1>4, <2>6, <2>8, PassOutside
  <2> QED
    BY <2>1, <2>7, <2>8, <2>9
<1> QED
  BY <1>5, <1>6

\* The whole magic: a frame begins where the search began.
LEMMA FoundFrames ==
  ASSUME IInv, Frames, NEW b \in Byte, Fed(b), MagicCompletes(b)
  PROVE  Frames'
<1> PICK q : q = Covered(calls)
  OBVIOUS
<1> DEFINE c == Call("improv", Here - holdN, Here)
<1>1. /\ stream' \in Seq(Byte) /\ Len(stream') = Len(stream) + 1 /\ Len(stream) \in Nat
      /\ calls \in Seq(CallType) /\ Tiles(calls) /\ q \in Nat
      /\ Held \in Nat /\ Len(stream) = q + Held /\ Here = Len(stream) + 1
      /\ Len(Magic) \in Nat /\ Len(Magic) > 1 /\ resetAt' \subseteq Nat
      /\ "improv" \in Sinks
  BY DEF Fed, Sinks
<1>2. /\ phase = "Magic" /\ phase' = "Header" /\ holdN' = 0 /\ calls' = Append(calls, c)
      /\ holdN + 1 = Len(Magic)
  BY DEF MagicCompletes
<1>3. /\ Ordered(calls) /\ Routed(calls, stream', resetAt')
      /\ \A r \in resetAt' : r \in Nat /\ r <= q
      /\ \A p \in StartsOf(calls) : p \in Nat /\ DoneBy(stream', resetAt', p, q)
  BY <1>2, FramesBefore DEF Frames
<1>4. Held = holdN /\ Held' = 0 /\ holdN <= Len(stream) /\ holdN \in Nat
  BY <1>1, <1>2 DEF Held, IInv, HoldIsMagic
<1>5. c \in CallType /\ c.from = Here - holdN /\ c.to = Here /\ c.sink # "console"
  <2>1. Here - holdN \in Nat /\ Here \in Nat
    BY <1>1, <1>4
  <2>2. "improv" \in Sinks
    BY <1>1
  <2> HIDE DEF Here
  <2> QED
    BY <2>1, <2>2, CallInType, CallSinks
<1> HIDE DEF c
<1>6. /\ c.from = q + 1 /\ c.from <= c.to /\ c.to - c.from + 1 = Len(Magic)
      /\ c.from - 1 = q /\ c.to = q + Len(Magic) /\ c.to = Len(stream')
  <2>1. /\ q \in Nat /\ holdN \in Nat /\ Len(Magic) = holdN + 1
        /\ Len(stream) = q + holdN /\ Len(stream') = Len(stream) + 1 /\ Here = Len(stream) + 1
    BY <1>1, <1>2, <1>4
  <2>2. c.from = q + 1 /\ c.to = q + holdN + 1
    BY <1>5, <2>1
  <2>3. c.from <= c.to /\ c.from - 1 = q
    BY <2>1, <2>2
  <2>4. c.to = q + Len(Magic) /\ c.to = Len(stream')
    BY <2>1, <2>2
  <2>5. c.to - c.from + 1 = Len(Magic)
    BY <2>1, <2>2
  <2> QED
    BY <2>2, <2>3, <2>4, <2>5
<1>7. \A p : p \in StartsOf(calls') <=> p \in StartsOf(calls) \/ p = q
  BY <1>1, <1>2, <1>5, <1>6, StartsAppend
<1>8. ~(c.to > FrameHeaderEnd(q)) /\ q < c.from /\ q <= Len(stream')
  <2>1. c.to = q + Len(Magic) /\ c.from = q + 1 /\ q \in Nat /\ Len(Magic) \in Nat
    BY <1>1, <1>6
  <2>2. Len(stream') = q + Len(Magic)
    BY <1>6
  <2> QED
    BY <2>1, <2>2 DEF FrameHeaderEnd, HeaderLen
<1>9. Ordered(calls') /\ Routed(calls', stream', resetAt')
  BY <1>1, <1>2, <1>3, <1>5, <1>6, <1>7, <1>8, PassInside
<1>10. \A p \in StartsOf(calls) : DoneBy(stream', resetAt', p, Len(stream'))
  <2>1. /\ \A i \in 1..Len(stream') : stream'[i] = stream'[i]
        /\ resetAt' \subseteq resetAt' /\ Len(stream') \in Nat
    BY <1>1
  <2> QED
    BY <1>1, <1>3, <1>8, <2>1, DoneStays
<1>11. Under(q)'
  <2>1. Len(stream') = q + Len(Magic) + holdN'
    BY <1>1, <1>2, <1>6
  <2> QED
    BY <1>2, <1>3, <1>7, <1>10, <2>1 DEF Under
<1>12. FrameInv'
  <2>1. Len(stream') - Held' = q + Len(Magic) /\ q \in Nat /\ Len(Magic) \in Nat
    BY <1>1, <1>4, <1>6
  <2>2. \A r \in resetAt' : r <= Len(stream') - Held'
    BY <1>3, <2>1
  <2>3. (\A p \in StartsOf(calls') : p \in Nat) /\ q \in StartsOf(calls')
    BY <1>3, <1>7, <2>1
  <2> QED
    BY <1>2, <1>11, <2>2, <2>3 DEF FrameInv
<1> QED
  BY <1>9, <1>12 DEF Frames

\* A byte of the frame that the filter is in.
LEMMA FrameByteFrames ==
  ASSUME IInv, Frames, NEW b \in Byte, Fed(b), HeaderByte(b) \/ BodyByte(b)
  PROVE  Frames'
<1> DEFINE c == Call("improv", Here, Here)
<1>1. /\ stream \in Seq(Byte) /\ stream' \in Seq(Byte)
      /\ Len(stream') = Len(stream) + 1 /\ Len(stream) \in Nat
      /\ \A i \in 1..Len(stream) : stream'[i] = stream[i]
      /\ stream'[Len(stream) + 1] = b
      /\ calls \in Seq(CallType) /\ Tiles(calls) /\ Covered(calls) \in Nat
      /\ Len(stream) = Covered(calls) + Held /\ Here = Len(stream) + 1
      /\ Len(Magic) \in Nat /\ Len(Magic) > 1 /\ resetAt' = resetAt
      /\ "improv" \in Sinks
  BY DEF Fed, Sinks
<1>0. /\ Len(stream) \in Nat /\ Len(stream') = Len(stream) + 1 /\ Len(Magic) \in Nat
      /\ Len(Magic) > 1 /\ Here = Len(stream) + 1 /\ Here \in Nat
  <2> HIDE DEF Here
  <2> QED
    BY DEF Fed
<1>2. phase \in {"Header", "Body"} /\ calls' = Append(calls, c) /\ Held = 0
  BY DEF HeaderByte, BodyByte, Held
<1>3. PICK p \in StartsOf(calls) : Under(p)
  BY <1>2 DEF Frames, FrameInv
<1>4. /\ Ordered(calls) /\ Routed(calls, stream', resetAt')
      /\ \A q \in StartsOf(calls) : q \in Nat
      /\ \A r \in resetAt' : r \in Nat /\ r <= p
      /\ \A r \in resetAt' : r <= Covered(calls)
      /\ \A q \in StartsOf(calls) : q = p \/ DoneBy(stream', resetAt', q, Len(stream'))
  BY <1>1, <1>3, FramesBefore DEF Frames, Under
<1>5. c \in CallType /\ c.from = Here /\ c.to = Here /\ c.sink # "console"
  <2>1. Here \in Nat
    BY <1>0
  <2> QED
    BY <1>1, <2>1, CallInType, CallSinks
<1>6. p \in Nat /\ holdN \in Nat /\ bodyLeft \in Nat /\ b \in Nat
  BY <1>1, <1>4, ByteAssumption DEF IInv, TypeOK, HeaderLen, Byte
<1> HIDE DEF c
<1>7. c.from = Covered(calls) + 1 /\ c.from <= c.to /\ c.to - c.from + 1 # Len(Magic)
  <2>1. c.from = Len(stream) + 1 /\ c.to = Len(stream) + 1 /\ Len(stream) = Covered(calls)
    BY <1>1, <1>2, <1>5
  <2>2. c.from = Covered(calls) + 1 /\ c.from <= c.to
    BY <1>0, <2>1
  <2>3. c.to - c.from + 1 = 1
    BY <1>0, <2>1
  <2>4. c.to - c.from + 1 < Len(Magic)
    BY <1>0, <2>3
  <2> QED
    BY <1>0, <2>1, <2>2, <2>4
<1>8. \A q : q \in StartsOf(calls') <=> q \in StartsOf(calls)
  BY <1>1, <1>2, <1>5, <1>7, StartsAppend
<1>9. Held' = 0 => \A r \in resetAt' : r <= Len(stream') - Held'
  <2>1. \A r \in resetAt' : r \in Nat /\ r <= Len(stream)
    BY <1>1, <1>2, <1>4
  <2> QED
    BY <1>1, <2>1
<1>10. SUFFICES /\ phase' # "Magic" /\ p < Here
                /\ Here > FrameHeaderEnd(p) =>
                     Here <= p + LenIn(stream', p) /\ LenIn(stream', p) \in Nat
                /\ phase' = "Idle" => DoneBy(stream', resetAt', p, Len(stream'))
                /\ phase' = "Header" => Len(stream') = p + Len(Magic) + holdN'
                /\ phase' = "Body" =>
                     /\ FrameHeaderEnd(p) <= Len(stream')
                     /\ Len(stream') + bodyLeft' = p + LenIn(stream', p)
  <2>1. p \in StartsOf(Append(calls, c)) /\ p < c.from
    BY <1>2, <1>5, <1>8, <1>10
  <2>2. c.to > FrameHeaderEnd(p) => c.to <= p + LenIn(stream', p) /\ LenIn(stream', p) \in Nat
    BY <1>5, <1>10
  <2>3. Ordered(calls') /\ Routed(calls', stream', resetAt')
    BY <1>1, <1>2, <1>4, <1>5, <1>6, <1>7, <2>1, <2>2, PassInside
  <2>4. Held' = 0
    BY <1>10 DEF Held
  <2>5. phase' # "Idle" => Under(p)'
    BY <1>4, <1>8, <1>10 DEF Under
  <2>6. phase' = "Idle" => \A q \in StartsOf(calls') :
                             DoneBy(stream', resetAt', q, Len(stream') - Held')
    <3>1. Len(stream') - Held' = Len(stream')
      BY <1>1, <2>4
    <3> QED
      BY <1>4, <1>8, <1>10, <3>1
  <2>7. FrameInv'
    BY <1>4, <1>8, <1>9, <1>10, <2>4, <2>5, <2>6 DEF FrameInv
  <2> QED
    BY <2>3, <2>7 DEF Frames
<1>11. FrameHeaderEnd(p) = p + Len(Magic) + 3 /\ FrameHeaderEnd(p) \in Nat
  BY <1>1, <1>6 DEF FrameHeaderEnd, HeaderLen
<1>12. CASE HeaderByte(b)
  <2>1. phase = "Header" /\ holdN < 3 /\ Len(stream) = p + Len(Magic) + holdN
    BY <1>3, <1>12 DEF HeaderByte, IInv, HoldIsMagic, HeaderLen, Under
  <2>2. p < Here /\ ~(Here > FrameHeaderEnd(p))
    BY <1>1, <1>6, <1>11, <2>1
  <2>3. CASE holdN + 1 < 3
    <3>1. phase' = "Header" /\ holdN' = holdN + 1
      BY <1>12, <2>1, <2>3 DEF HeaderByte, HeaderLen
    <3>2. Len(stream') = p + Len(Magic) + holdN'
      BY <1>0, <1>6, <2>1, <3>1
    <3> QED
      BY <2>2, <3>1, <3>2
  <2>4. CASE ~(holdN + 1 < 3)
    <3>1. phase' = "Body" /\ bodyLeft' = b + 1
      BY <1>12, <2>4 DEF HeaderByte, HeaderLen
    <3>2. holdN = 2 /\ Len(stream') = p + Len(Magic) + 3
      BY <1>0, <1>6, <2>1, <2>4
    <3>3. LenIn(stream', p) = Len(Magic) + 3 + b + 1
      BY <1>1, <3>2 DEF LenIn, HeaderLen
    <3>4. FrameHeaderEnd(p) <= Len(stream') /\ Len(stream') + bodyLeft' = p + LenIn(stream', p)
      BY <1>0, <1>6, <1>11, <3>1, <3>2, <3>3
    <3> QED
      BY <2>2, <3>1, <3>4
  <2> QED
    BY <2>3, <2>4
<1>13. CASE BodyByte(b)
  <2>1. /\ phase = "Body" /\ bodyLeft > 0 /\ bodyLeft' = bodyLeft - 1
        /\ phase' = IF bodyLeft' = 0 THEN "Idle" ELSE "Body"
        /\ FrameHeaderEnd(p) <= Len(stream)
        /\ Len(stream) + bodyLeft = p + LenIn(stream, p)
    BY <1>3, <1>13 DEF BodyByte, IInv, HoldIsMagic, Under
  <2>2. p + Len(Magic) + HeaderLen \in 1..Len(stream)
    BY <1>1, <1>6, <1>11, <2>1 DEF HeaderLen
  <2>3. LenIn(stream', p) = LenIn(stream, p) /\ LenIn(stream, p) \in Nat
    <3>1. stream[p + Len(Magic) + HeaderLen] \in Nat
      <4>1. stream[p + Len(Magic) + HeaderLen] \in Byte
        BY <1>1, <2>2, ElementOfSeq
      <4> QED
        BY <4>1, ByteAssumption DEF Byte
    <3> QED
      BY <1>1, <2>2, <3>1 DEF LenIn, HeaderLen
  <2>4. /\ p < Here /\ Here <= p + LenIn(stream', p) /\ FrameHeaderEnd(p) <= Len(stream')
        /\ Len(stream') + bodyLeft' = p + LenIn(stream', p)
    BY <1>1, <1>6, <1>11, <2>1, <2>3
  <2>5. bodyLeft' = 0 => DoneBy(stream', resetAt', p, Len(stream'))
    BY <1>1, <1>6, <2>3, <2>4 DEF DoneBy
  <2> QED
    BY <2>1, <2>3, <2>4, <2>5
<1> QED
  BY <1>12, <1>13

LEMMA FeedFrames == ASSUME IInv, Frames, NEW b \in Byte, Feed(b) PROVE Frames'
<1>1. Fed(b)
  BY FeedIsFed
<1>2. CASE IdleHolds(b) \/ MagicGoesOn(b)
  BY <1>1, <1>2, HeldFrames
<1>3. CASE IdlePasses(b) \/ MagicBreaks(b)
  BY <1>1, <1>3, PassedFrames
<1>4. CASE MagicCompletes(b)
  BY <1>1, <1>4, FoundFrames
<1>5. CASE HeaderByte(b) \/ BodyByte(b)
  BY <1>1, <1>5, FrameByteFrames
<1> QED
  BY <1>2, <1>3, <1>4, <1>5 DEF Feed

\* A byte does not undo a call, and the last byte of a magic passes it on.
LEMMA FeedPasses ==
  ASSUME IInv, NEW b \in Byte, Feed(b)
  PROVE  /\ \A from, to : Passed(calls, from, to) => Passed(calls', from, to)
         /\ phase = "Magic" /\ b = Magic[holdN + 1] /\ holdN + 1 = Len(Magic) =>
              Passed(calls', Here - holdN, Here)
         /\ phase = "Idle" /\ b = Magic[1] => phase' = "Magic" /\ holdN' = 1
         /\ phase = "Magic" /\ b = Magic[holdN + 1] /\ holdN + 1 < Len(Magic) =>
              phase' = "Magic" /\ holdN' = holdN + 1
<1>1. /\ calls \in Seq(CallType) /\ Here \in Nat /\ Here - 1 \in Nat
      /\ "console" \in Sinks /\ "improv" \in Sinks
      /\ phase = "Magic" => Here - holdN \in Nat
  BY DEF IInv, TypeOK, HoldIsMagic, Here, Sinks
<1>2. CASE IdleHolds(b) \/ MagicGoesOn(b)
  <2>1. calls' = calls /\ ~(phase = "Magic" /\ holdN + 1 = Len(Magic))
    BY <1>2, MagicAssumption DEF IdleHolds, MagicGoesOn
  <2> QED
    BY <1>2, <2>1 DEF IdleHolds, MagicGoesOn
<1>3. CASE IdlePasses(b) \/ HeaderByte(b) \/ BodyByte(b)
  <2>1. PICK sink \in Sinks : calls' = Append(calls, Call(sink, Here, Here))
    BY <1>1, <1>3 DEF IdlePasses, HeaderByte, BodyByte
  <2>2. phase # "Magic" /\ ~(phase = "Idle" /\ b = Magic[1])
    BY <1>3 DEF IdlePasses, HeaderByte, BodyByte
  <2>3. Call(sink, Here, Here) \in CallType
    BY <1>1, CallInType
  <2>4. \A from, to : Passed(calls, from, to) => Passed(calls', from, to)
    BY <1>1, <2>1, <2>3, PassedStays
  <2> QED
    BY <2>2, <2>4
<1>4. CASE MagicBreaks(b)
  <2> DEFINE c == Call("console", Here - holdN, Here - 1)
             d == Call("console", Here, Here)
  <2>1. calls' = Append(Append(calls, c), d) /\ phase = "Magic" /\ b # Magic[holdN + 1]
    BY <1>4 DEF MagicBreaks
  <2>2. c \in CallType /\ d \in CallType
    BY <1>1, <2>1, CallInType
  <2> HIDE DEF c, d
  <2>3. Append(calls, c) \in Seq(CallType)
    BY <1>1, <2>2, AppendProperties
  <2>4. \A from, to : Passed(calls, from, to) => Passed(Append(calls, c), from, to)
    BY <1>1, <2>2, PassedStays
  <2>5. \A from, to : Passed(Append(calls, c), from, to) => Passed(calls', from, to)
    BY <2>1, <2>2, <2>3, PassedStays
  <2> QED
    BY <2>1, <2>4, <2>5
<1>5. CASE MagicCompletes(b)
  <2> DEFINE c == Call("improv", Here - holdN, Here)
  <2>1. /\ calls' = Append(calls, c) /\ phase = "Magic" /\ holdN + 1 = Len(Magic)
    BY <1>5 DEF MagicCompletes
  <2>2. c \in CallType /\ c.from = Here - holdN /\ c.to = Here /\ c.sink # "console"
    BY <1>1, <2>1, CallInType, CallSinks
  <2> HIDE DEF c
  <2>3. \A from, to : Passed(calls, from, to) => Passed(calls', from, to)
    BY <1>1, <2>1, <2>2, PassedStays
  <2>4. /\ Len(calls) \in Nat /\ Len(calls') = Len(calls) + 1
        /\ calls'[Len(calls) + 1] = c
    BY <1>1, <2>1, <2>2, CallsAppend
  <2>5. Len(calls) + 1 \in 1..Len(calls')
    BY <2>4
  <2>6. Passed(calls', Here - holdN, Here)
    BY <2>2, <2>4, <2>5 DEF Passed
  <2>7. ~(holdN + 1 < Len(Magic))
    BY <2>1, MagicAssumption
  <2> QED
    BY <2>1, <2>3, <2>6, <2>7
<1> QED
  BY <1>2, <1>3, <1>4, <1>5 DEF Feed

LEMMA FeedRoute == ASSUME IInv, RouteInv, NEW b \in Byte, Feed(b) PROVE RouteInv'
<1>1. Frames /\ Fed(b)
  BY FeedIsFed DEF RouteInv, Frames
<1>2. Frames'
  BY <1>1, FeedFrames
<1>3. SearchInv'
  BY <1>1, FeedPasses, SearchNext DEF RouteInv
<1>4. CleanCalls'
  BY <1>1, FeedPasses, CleanNext DEF RouteInv
<1> QED
  BY <1>2, <1>3, <1>4 DEF RouteInv, Frames

\* reset(): what was held goes nowhere, and no frame or search outlives it.
LEMMA ResetRoute == ASSUME IInv, RouteInv, Reset PROVE RouteInv'
<1> DEFINE c == [sink |-> "none", from |-> Here - Held, to |-> Here - 1]
           n == Len(stream)
<1>1. /\ stream \in Seq(Byte) /\ n \in Nat /\ stream' = stream
      /\ calls \in Seq(CallType) /\ Tiles(calls) /\ Covered(calls) \in Nat
      /\ Held \in Nat /\ n = Covered(calls) + Held /\ Here = n + 1
      /\ resetAt \subseteq Nat /\ idleAt \subseteq Nat
      /\ Len(Magic) \in Nat /\ Len(Magic) > 1 /\ Held < Len(Magic)
  <2>1. /\ stream \in Seq(Byte) /\ n \in Nat /\ stream' = stream
        /\ calls \in Seq(CallType) /\ Tiles(calls)
        /\ resetAt \subseteq Nat /\ idleAt \subseteq Nat
        /\ n = Covered(calls) + Held /\ Here = n + 1
    BY DEF Reset, IInv, TypeOK, Tiling, Here
  <2>2. Len(Magic) \in Nat /\ Len(Magic) > 1
    BY MagicAssumption
  <2>3. Covered(calls) \in Nat
    BY <2>1, CoveredIsNat
  <2>4. Held \in Nat /\ Held < Len(Magic)
    BY <2>2 DEF IInv, HoldIsMagic, Held
  <2> QED
    BY <2>1, <2>2, <2>3, <2>4
<1>2. /\ phase' = "Idle" /\ resetAt' = resetAt \cup {n} /\ idleAt' = idleAt \cup {n}
      /\ calls' = IF Held > 0 THEN Append(calls, c) ELSE calls
  BY DEF Reset
<1>3. Held' = 0
  BY <1>2 DEF Held
<1>4. /\ \A p \in StartsOf(calls) : p \in Nat
      /\ \A r \in resetAt : r <= Covered(calls)
  BY <1>1 DEF RouteInv, FrameInv
<1> HIDE DEF n
<1>5. /\ resetAt' \subseteq Nat /\ resetAt \subseteq resetAt' /\ n \in resetAt'
      /\ \A r \in resetAt' : r \in resetAt \/ r >= Covered(calls)
      /\ \A r \in resetAt' : r <= n
  <2>1. \A r \in resetAt : r \in Nat /\ r <= n
    BY <1>1, <1>4
  <2>2. \A r \in resetAt' : r \in resetAt \/ r = n
    BY <1>2
  <2>3. resetAt \subseteq resetAt' /\ n \in resetAt'
    BY <1>2
  <2>4. n >= Covered(calls)
    BY <1>1
  <2> QED
    BY <1>1, <2>1, <2>2, <2>3, <2>4
<1>6. Routed(calls, stream, resetAt')
  <2>1. Covered(calls) <= Len(stream)
    BY <1>1 DEF n
  <2> QED
    BY <1>1, <1>4, <1>5, <2>1, RoutedStays DEF RouteInv
<1>7. \A p \in StartsOf(calls) : p \in Nat /\ p < n
  <2>1. ASSUME NEW p \in StartsOf(calls) PROVE p < Covered(calls)
    <3>1. PICK k \in 1..Len(calls) : p = calls[k].from - 1
      BY DEF StartsOf
    <3>2. calls[k] \in CallType /\ calls[k].from <= calls[k].to /\ calls[k].to <= Covered(calls)
      BY <1>1, ElementOfSeq DEF RouteInv, Ordered, Tiles
    <3>3. calls[k].from \in Nat /\ calls[k].to \in Nat
      BY <3>2 DEF CallType
    <3>4. Covered(calls) \in Nat
      BY <1>1
    <3> QED
      BY <3>1, <3>2, <3>3, <3>4
  <2>2. Covered(calls) <= n /\ Covered(calls) \in Nat /\ n \in Nat
    BY <1>1
  <2> QED
    BY <1>4, <2>1, <2>2
<1>8. /\ Ordered(calls') /\ Routed(calls', stream, resetAt')
      /\ \A p \in StartsOf(calls') : p \in Nat /\ DoneBy(stream, resetAt', p, n)
      /\ \A from, to : Passed(calls, from, to) => Passed(calls', from, to)
  <2>1. CASE Held = 0
    <3>1. calls' = calls
      BY <1>2, <2>1
    <3>2. \A p \in StartsOf(calls) : DoneBy(stream, resetAt', p, n)
      BY <1>1, <1>5, <1>7 DEF DoneBy
    <3> QED
      BY <1>6, <1>7, <3>1, <3>2 DEF RouteInv
  <2>2. CASE Held > 0
    <3>1. calls' = Append(calls, c) /\ phase = "Magic"
      BY <1>2, <2>2 DEF Held
    <3>2. c \in CallType /\ c.from = Covered(calls) + 1 /\ c.to = n /\ c.sink # "improv"
      <4>1. Here - Held = Covered(calls) + 1 /\ Here - 1 = n
        BY <1>1
      <4>2. Covered(calls) + 1 \in Nat /\ n \in Nat
        BY <1>1
      <4> HIDE DEF Here
      <4> QED
        BY <4>1, <4>2 DEF CallType
    <3> HIDE DEF c
    <3>3. c.from <= c.to /\ c.to <= Len(stream) /\ c.to - c.from + 1 # Len(Magic)
      <4>1. c.to - c.from + 1 = Held /\ Held # Len(Magic)
        <5>1. /\ Covered(calls) \in Nat /\ Held \in Nat /\ n = Covered(calls) + Held
              /\ Held < Len(Magic) /\ Len(Magic) \in Nat
          BY <1>1
        <5> QED
          BY <3>2, <5>1
      <4>2. c.to <= Len(stream)
        BY <1>1, <3>2 DEF n
      <4>3. c.from <= c.to
        BY <1>1, <2>2, <3>2
      <4> QED
        BY <4>1, <4>2, <4>3
    <3>4. ASSUME NEW p \in StartsOf(calls)
          PROVE  p \in Nat /\ DoneBy(stream, resetAt', p, Covered(calls))
      <4>1. DoneBy(stream, resetAt, p, Covered(calls))
        <5>1. Len(stream) - Held = Covered(calls)
          BY <1>1 DEF n
        <5> QED
          BY <3>1, <5>1 DEF RouteInv, FrameInv
      <4>2. /\ p \in Nat /\ Covered(calls) <= Covered(calls) /\ Covered(calls) <= Len(stream)
            /\ \A i \in 1..Len(stream) : stream[i] = stream[i]
        BY <1>1, <1>7 DEF n
      <4> QED
        BY <1>1, <1>5, <4>1, <4>2, DoneStays
    <3>5. /\ Ordered(calls') /\ Routed(calls', stream, resetAt')
          /\ \A p \in StartsOf(calls') : p \in Nat /\ DoneBy(stream, resetAt', p, c.to)
      BY <1>1, <1>5, <1>6, <3>1, <3>2, <3>3, <3>4, PassOutside DEF RouteInv
    <3>6. \A from, to : Passed(calls, from, to) => Passed(calls', from, to)
      BY <1>1, <3>1, <3>2, PassedStays
    <3> QED
      BY <3>2, <3>5, <3>6
  <2> QED
    BY <1>1, <2>1, <2>2
<1>9. FrameInv'
  <2>1. Len(stream') - Held' = n
    BY <1>1, <1>3 DEF n
  <2> QED
    BY <1>1, <1>2, <1>5, <1>8, <2>1 DEF FrameInv
<1>10. SearchInv'
  <2>1. \A i \in idleAt : i \in Nat /\ i <= n
    BY <1>1 DEF RouteInv, SearchInv, n
  <2>2. \A i \in idleAt' : i \in Nat /\ i <= n
    <3>1. n \in Nat
      BY <1>1
    <3> QED
      BY <1>2, <2>1, <3>1
  <2>3. \A i \in idleAt' : (\A r \in resetAt' : r <= i) => i = n
    BY <1>1, <1>5, <2>2
  <2>4. Len(stream') = n
    BY <1>1 DEF n
  <2> QED
    BY <1>2, <2>2, <2>3, <2>4 DEF SearchInv
<1>11. CleanCalls'
  <2> SUFFICES ASSUME NEW i \in idleAt',
                      i + Len(Magic) <= Len(stream'),
                      \A r \in resetAt' : r <= i \/ r >= i + Len(Magic),
                      MagicAfter(stream', i, Len(Magic))
               PROVE  Passed(calls', i + 1, i + Len(Magic))
    BY DEF CleanCalls
  <2>1. i \in idleAt \/ i = n
    BY <1>2
  <2>2. i # n
    BY <1>1 DEF n
  <2>3. /\ i + Len(Magic) <= Len(stream) /\ MagicAfter(stream, i, Len(Magic))
        /\ \A r \in resetAt : r <= i \/ r >= i + Len(Magic)
    BY <1>1, <1>5
  <2>4. Passed(calls, i + 1, i + Len(Magic))
    BY <2>1, <2>2, <2>3 DEF RouteInv, CleanCalls
  <2> QED
    BY <1>8, <2>4
<1> QED
  BY <1>1, <1>8, <1>9, <1>10, <1>11 DEF RouteInv

LEMMA InitRoute == Init => RouteInv
<1> SUFFICES ASSUME Init PROVE RouteInv
  OBVIOUS
<1>1. /\ phase = "Idle" /\ Held = 0 /\ calls = <<>> /\ stream = <<>>
      /\ resetAt = {} /\ idleAt = {0}
      /\ Len(stream) = 0 /\ Len(calls) = 0 /\ Len(Magic) \in Nat /\ Len(Magic) > 1
  BY MagicAssumption, EmptySeq DEF Init, Held
<1>2. \A k : k \notin 1..0
  OBVIOUS
<1>3. Ordered(calls) /\ Routed(calls, stream, resetAt)
  BY <1>1, <1>2 DEF Ordered, Routed
<1>4. \A p : p \notin StartsOf(calls)
  BY <1>1, <1>2 DEF StartsOf
<1>5. FrameInv
  BY <1>1, <1>4 DEF FrameInv
<1>6. SearchInv
  BY <1>1 DEF SearchInv
<1>7. CleanCalls
  BY <1>1 DEF CleanCalls
<1> QED
  BY <1>3, <1>5, <1>6, <1>7 DEF RouteInv

\* setSinks() leaves all of it alone.
LEMMA RouteStays ==
  ASSUME IInv, RouteInv, SetSinks \/ UNCHANGED vars
  PROVE  IInv' /\ RouteInv'
<1>1. UNCHANGED <<phase, holdN, bodyLeft, stream, calls, resetAt, idleAt>>
  BY DEF SetSinks, vars, machine
<1>2. Held' = Held
  BY <1>1 DEF Held
<1>3. FrameInv'
  BY <1>1, <1>2 DEF RouteInv, FrameInv, Under
<1>4. SearchInv' /\ CleanCalls'
  BY <1>1 DEF RouteInv, SearchInv, CleanCalls
<1>5. (Ordered(calls) /\ Routed(calls, stream, resetAt))'
  BY <1>1 DEF RouteInv
<1>6. IInv'
  <2>1. CASE SetSinks
    BY <2>1, SetSinksInv
  <2>2. CASE UNCHANGED vars
    BY <2>2 DEF vars, machine, IInv, TypeOK, Tiling, HoldIsMagic, Held
  <2> QED
    BY <2>1, <2>2
<1> QED
  BY <1>3, <1>4, <1>5, <1>6 DEF RouteInv

LEMMA RouteInvariance == Spec => [](IInv /\ RouteInv)
<1>1. Init => IInv /\ RouteInv
  BY InitInv, InitRoute
<1>2. IInv /\ RouteInv /\ [Next]_vars => IInv' /\ RouteInv'
  <2> SUFFICES ASSUME IInv, RouteInv, [Next]_vars PROVE IInv' /\ RouteInv'
    OBVIOUS
  <2>1. CASE \E b \in Byte : Feed(b)
    BY <2>1, FeedInv, FeedRoute
  <2>2. CASE Reset
    BY <2>2, ResetInv, ResetRoute
  <2>3. CASE SetSinks \/ UNCHANGED vars
    BY <2>3, RouteStays
  <2> QED
    BY <2>1, <2>2, <2>3 DEF Next
<1> QED
  BY <1>1, <1>2, PTL DEF Spec

-----------------------------------------------------------------------------
(* What the invariant says of the filter *)

LEMMA FramesAreRouted == ASSUME IInv, RouteInv PROVE FramesToImprov
<1>1. calls \in Seq(CallType) /\ DOMAIN calls = 1..Len(calls)
  BY LenProperties DEF IInv, TypeOK
<1>2. FrameStarts = StartsOf(calls)
  BY <1>1 DEF FrameStarts, StartsOf
<1>3. ASSUME NEW i, NEW starts PROVE InFrame(i, starts) <=> Within(stream, resetAt, i, starts)
  BY DEF InFrame, Within, Undisturbed, FrameLen, LenIn, FrameHeaderEnd
<1> QED
  BY <1>1, <1>2, <1>3 DEF FramesToImprov, RouteInv, Routed

LEMMA SinkIsOf ==
  ASSUME calls \in Seq(CallType), Ordered(calls),
         NEW k \in 1..Len(calls), NEW j \in Nat, calls[k].from <= j, j <= calls[k].to
  PROVE  SinkOf(j) = calls[k].sink
<1>1. DOMAIN calls = 1..Len(calls) /\ Len(calls) \in Nat
  BY LenProperties
<1>2. \A m \in 1..Len(calls) : calls[m].from \in Nat /\ calls[m].to \in Nat
  <2>1. \A m \in 1..Len(calls) : calls[m] \in CallType
    BY ElementOfSeq
  <2> QED
    BY <2>1 DEF CallType
<1>3. ASSUME NEW m \in 1..Len(calls), calls[m].from <= j, j <= calls[m].to PROVE m = k
  <2>1. CASE m < k
    <3>1. calls[m].to < calls[k].from
      BY <2>1 DEF Ordered
    <3> QED
      BY <1>2, <1>3, <3>1
  <2>2. CASE k < m
    <3>1. calls[k].to < calls[m].from
      BY <2>2 DEF Ordered
    <3> QED
      BY <1>2, <1>3, <3>1
  <2> QED
    BY <1>1, <2>1, <2>2
<1>4. (CHOOSE m \in DOMAIN calls : calls[m].from <= j /\ j <= calls[m].to) = k
  BY <1>1, <1>3
<1> QED
  BY <1>4 DEF SinkOf

LEMMA CleanMagicIsRouted == ASSUME IInv, RouteInv PROVE CleanMagicRouted
<1> SUFFICES ASSUME NEW i \in idleAt, IsMagicAfter(i), Undisturbed(i, i + Len(Magic)),
                    NEW j \in (i + 1)..(i + Len(Magic))
             PROVE  SinkOf(j) # "console"
  BY DEF CleanMagicRouted
<1>1. /\ i \in Nat /\ stream \in Seq(Byte) /\ calls \in Seq(CallType)
      /\ Len(Magic) \in Nat /\ Len(Magic) > 1
  BY MagicAssumption DEF IInv, TypeOK
<1>2. j \in Nat /\ i + 1 <= j /\ j <= i + Len(Magic)
  BY <1>1
<1>3. i + Len(Magic) <= Len(stream) /\ SubSeq(stream, i + 1, i + Len(Magic)) = Magic
  BY DEF IsMagicAfter
<1>4. MagicAfter(stream, i, Len(Magic))
  <2> SUFFICES ASSUME NEW k \in 1..Len(Magic) PROVE stream[i + k] = Magic[k]
    BY DEF MagicAfter
  <2>1. Len(stream) \in Nat
    BY <1>1, LenProperties
  <2>2. /\ i + 1 \in 1..(Len(stream) + 1) /\ i + Len(Magic) \in (i + 1 - 1)..Len(stream)
        /\ k \in 1..((i + Len(Magic)) - (i + 1) + 1) /\ (i + 1) + k - 1 = i + k
    BY <1>1, <1>3, <2>1
  <2>3. SubSeq(stream, i + 1, i + Len(Magic))[k] = stream[(i + 1) + k - 1]
    BY <1>1, <2>2, SubSeqProperties
  <2> QED
    BY <1>3, <2>2, <2>3
<1>5. Passed(calls, i + 1, i + Len(Magic))
  BY <1>3, <1>4 DEF Undisturbed, RouteInv, CleanCalls
<1>6. PICK k \in 1..Len(calls) :
        calls[k].from = i + 1 /\ calls[k].to = i + Len(Magic) /\ calls[k].sink # "console"
  BY <1>5 DEF Passed
<1>7. SinkOf(j) = calls[k].sink
  BY <1>1, <1>2, <1>6, SinkIsOf DEF RouteInv
<1> QED
  BY <1>6, <1>7

\* For every stream, every magic and whatever setSinks() and reset() are called: the
\* bytes of the frames found go to the library and never to the console, no byte
\* outside a frame goes to the library, and a frame that arrives while the filter is
\* idle is found (serial_filter.cpp:25-71).
THEOREM BytesAreRouted == Spec => []RoutedByFrame
<1>1. IInv /\ RouteInv => RoutedByFrame
  BY FramesAreRouted, CleanMagicIsRouted DEF RoutedByFrame
<1> QED
  BY <1>1, RouteInvariance, PTL

-----------------------------------------------------------------------------
(* What a fold computes.  Induction is over a set: the library's theorems take *)
(* an operator, which the provers cannot instantiate.                          *)

\* Every non-empty set of naturals has a least element.
LEMMA LeastNat ==
  ASSUME NEW T \in SUBSET Nat, T # {}
  PROVE  \E m \in T : \A k \in T : m <= k
<1>1. IsWellFoundedOn(OpToRel(<, Nat), Nat)
  BY NatLessThanWellFounded
<1>2. PICK m \in T : \A k \in T : ~ (<<k, m>> \in OpToRel(<, Nat))
  <2>. HIDE DEF OpToRel
  <2> QED BY <1>1, WFMin
<1>3. \A k \in T : k \in Nat /\ (k < m => <<k, m>> \in OpToRel(<, Nat))
  BY DEF OpToRel
<1>4. m \in Nat /\ \A k \in T : k \in Nat /\ ~ (k < m)
  BY <1>2, <1>3
<1>5. \A k \in T : m <= k
  BY <1>4
<1> QED BY <1>5

\* What holds at 0, and at every place behind one where it holds, holds up to n.
LEMMA Induction ==
  ASSUME NEW n \in Nat, NEW S, 0 \in S, \A k \in 1..n : k - 1 \in S => k \in S
  PROVE  \A k \in 0..n : k \in S
<1> DEFINE T == {k \in 0..n : k \notin S}
<1> SUFFICES ASSUME T # {} PROVE FALSE
  OBVIOUS
<1>1. T \in SUBSET Nat
  OBVIOUS
<1>2. PICK m \in T : \A k \in T : m <= k
  <2> HIDE DEF T
  <2> QED BY <1>1, LeastNat
<1>3. m \in 1..n /\ m \notin S
  OBVIOUS
<1>4. m - 1 \in 0..n /\ ~(m <= m - 1)
  BY <1>3
<1>5. m - 1 \in S
  BY <1>2, <1>4
<1> QED BY <1>3, <1>5

\* The folds take the greatest index first.
LEMMA MaxInSet ==
  ASSUME NEW n \in Nat, NEW s \in SUBSET (1..n), s # {}
  PROVE  Max(s) \in s /\ \A y \in s : y <= Max(s)
<1> DEFINE Bounds == {m \in Nat : \A y \in s : y <= m}
<1>1. PICK m \in Bounds : \A k \in Bounds : m <= k
  <2>1. n \in Bounds
    OBVIOUS
  <2>2. Bounds \in SUBSET Nat
    OBVIOUS
  <2> HIDE DEF Bounds
  <2> QED BY <2>1, <2>2, LeastNat
<1>2. m \in s
  <2> SUFFICES ASSUME m \notin s PROVE FALSE
    OBVIOUS
  <2>1. PICK z \in s : TRUE
    OBVIOUS
  <2>2. m \in Nat /\ m > 0 /\ \A y \in s : y \in Nat /\ y <= m /\ y # m
    BY <2>1
  <2>3. m - 1 \in Bounds
    BY <2>2
  <2>4. m <= m - 1
    BY <1>1, <2>3
  <2> QED BY <2>2, <2>4
<1>3. \E x \in s : \A y \in s : x >= y
  BY <1>2
<1>4. Max(s) \in s /\ \A y \in s : Max(s) >= y
  BY <1>3 DEF Max
<1> QED BY <1>4

\* What is left when it is taken.
LEMMA LessMax ==
  ASSUME NEW n \in Nat, NEW k \in 1..n, NEW s \in SUBSET (1..k), s # {}
  PROVE  Max(s) \in 1..k /\ s \ {Max(s)} \in SUBSET (1..(k - 1))
<1>1. PICK x \in s : x = Max(s) /\ \A y \in s : y <= x
  BY MaxInSet, k \in Nat
<1>2. \A y \in s \ {x} : y \in 1..(k - 1)
  BY <1>1, k \in Nat
<1> QED BY <1>1, <1>2

\* One round of a loop over 1..n, as a function.
Steps(F, n, B) == F \in [B \X (1..n) -> B]

\* MapThenFoldSet recurs over the sets of places.
Recurs(g, n, base, F) ==
  \A s \in SUBSET (1..n) : g[s] = IF s = {} THEN base ELSE F[<<g[s \ {Max(s)}], Max(s)>>]

\* A fold over sets of indices is a function: the one that CHOOSE finds.
LEMMA FoldExists ==
  ASSUME NEW n \in Nat, NEW B, NEW base \in B, NEW F \in [B \X (1..n) -> B]
  PROVE  \E g \in [SUBSET (1..n) -> B] : Recurs(g, n, base, F)
<1> DEFINE S == {k \in 0..n : \E g \in [SUBSET (1..k) -> B] : Recurs(g, k, base, F)}
<1>1. 0 \in S
  <2> DEFINE g == [s \in SUBSET (1..0) |-> base]
  <2>1. \A s \in SUBSET (1..0) : s = {}
    OBVIOUS
  <2>2. g \in [SUBSET (1..0) -> B] /\ Recurs(g, 0, base, F)
    BY <2>1 DEF Recurs
  <2> HIDE DEF g
  <2>3. \E f \in [SUBSET (1..0) -> B] : Recurs(f, 0, base, F)
    BY <2>2
  <2>4. 0 \in 0..n
    OBVIOUS
  <2> QED BY <2>3, <2>4
<1>2. ASSUME NEW k \in 1..n, k - 1 \in S PROVE k \in S
  <2>1. PICK g \in [SUBSET (1..(k - 1)) -> B] : Recurs(g, k - 1, base, F)
    BY <1>2
  <2> DEFINE Value(s) == IF s = {} THEN base ELSE F[<<g[s \ {Max(s)}], Max(s)>>]
             h == [s \in SUBSET (1..k) |-> Value(s)]
  <2>2. ASSUME NEW s \in SUBSET (1..k)
        PROVE  Value(s) \in B /\ Value(s) = IF s = {} THEN base ELSE F[<<h[s \ {Max(s)}], Max(s)>>]
    <3>1. CASE s = {}
      BY <3>1
    <3>2. CASE s # {}
      <4> DEFINE t == s \ {Max(s)}
      <4>1. Max(s) \in 1..k /\ t \in SUBSET (1..(k - 1))
        BY <3>2, LessMax
      <4>2. t \in SUBSET (1..k) /\ Max(s) \in 1..n
        BY <4>1
      <4>3. h[t] = Value(t)
        BY <4>2
      <4>4. Value(t) = g[t]
        BY <2>1, <4>1 DEF Recurs
      <4>5. g[t] \in B
        BY <4>1
      <4>6. F[<<g[t], Max(s)>>] \in B
        BY <4>2, <4>5
      <4>7. Value(s) = F[<<g[t], Max(s)>>]
        BY <3>2
      <4> HIDE DEF t, h, Value
      <4>8. F[<<h[t], Max(s)>>] = F[<<g[t], Max(s)>>]
        BY <4>3, <4>4
      <4> QED BY <3>2, <4>6, <4>7, <4>8 DEF t
    <3> QED BY <3>1, <3>2
  <2>3. h \in [SUBSET (1..k) -> B]
    <3> HIDE DEF Value
    <3> QED BY <2>2
  <2>4. Recurs(h, k, base, F)
    <3>1. ASSUME NEW s \in SUBSET (1..k)
          PROVE  h[s] = IF s = {} THEN base ELSE F[<<h[s \ {Max(s)}], Max(s)>>]
      <4>1. h[s] = Value(s)
        OBVIOUS
      <4> HIDE DEF h, Value
      <4> QED BY <4>1, <2>2
    <3> HIDE DEF h
    <3> QED BY <3>1 DEF Recurs
  <2> HIDE DEF h
  <2> QED BY <2>3, <2>4
<1> HIDE DEF S
<1>3. n \in S
  BY <1>1, <1>2, Induction
<1> QED BY <1>3 DEF S

\* The sets it passes through on its way are those of the first places.
LEMMA Initial ==
  ASSUME NEW n \in Nat, NEW k \in 1..n
  PROVE  /\ 1..k \in SUBSET (1..n) /\ 1..k # {} /\ Max(1..k) = k
         /\ (1..k) \ {k} = 1..(k - 1) /\ 1..(k - 1) \in SUBSET (1..n)
<1>1. k \in Nat /\ k >= 1 /\ k <= n
  OBVIOUS
<1>2. k \in 1..k
  BY <1>1
<1>3. Max(1..k) = k
  <2>1. Max(1..k) \in 1..k /\ \A y \in 1..k : y <= Max(1..k)
    BY <1>1, <1>2, MaxInSet
  <2> QED BY <2>1, <1>2
<1>4. \A y : y \in (1..k) \ {k} <=> y \in 1..(k - 1)
  BY <1>1
<1>5. \A y \in 1..k : y \in 1..n
  BY <1>1
<1> QED BY <1>2, <1>3, <1>4, <1>5

LEMMA None == 1..0 = {} /\ \A n \in Nat : 1..0 \in SUBSET (1..n)
OBVIOUS

\* As far as its values are known to be in B.
RecursIn(g, n, B, base, F) ==
  /\ g[{}] = base
  /\ \A s \in SUBSET (1..n) : s # {} /\ g[s \ {Max(s)}] \in B =>
       g[s] = F[<<g[s \ {Max(s)}], Max(s)>>]

Loops(v, n, base, F) == v[0] = base /\ \A k \in 1..n : v[k] = F[<<v[k - 1], k>>]

\* Whatever else it is, a function that recurs so on the values in B passes
\* through the values of a loop over 1..n.
LEMMA FoldIsLoop ==
  ASSUME NEW n \in Nat, NEW B, NEW base \in B, NEW F, NEW g, Steps(F, n, B),
         RecursIn(g, n, B, base, F)
  PROVE  \E v : v \in [0..n -> B] /\ Loops(v, n, base, F) /\ v[n] = g[1..n]
<1> USE DEF Steps
<1> DEFINE v == [k \in 0..n |-> g[1..k]]
           S == {k \in 0..n : v[k] \in B}
<1>1. v[0] = base /\ 0 \in 0..n
  BY None DEF RecursIn
<1>2. ASSUME NEW k \in 1..n, v[k - 1] \in B PROVE v[k] \in B /\ v[k] = F[<<v[k - 1], k>>]
  <2>1. v[k - 1] = g[1..(k - 1)] /\ v[k] = g[1..k]
    OBVIOUS
  <2>2. g[1..k] = F[<<g[1..(k - 1)], k>>]
    <3>1. PICK s \in SUBSET (1..n) : s = 1..k
      BY Initial
    <3>2. s # {} /\ Max(s) = k /\ s \ {Max(s)} = 1..(k - 1)
      BY <3>1, Initial
    <3>3. g[s \ {Max(s)}] \in B
      BY <1>2, <2>1, <3>2
    <3> QED BY <3>1, <3>2, <3>3 DEF RecursIn
  <2> HIDE DEF v
  <2>3. v[k] = F[<<v[k - 1], k>>]
    BY <2>1, <2>2
  <2> QED BY <1>2, <2>3
<1>3. \A k \in 0..n : k \in S
  <2>1. 0 \in S
    BY <1>1
  <2>2. ASSUME NEW k \in 1..n, k - 1 \in S PROVE k \in S
    <3> HIDE DEF v
    <3>1. v[k - 1] \in B
      BY <2>2
    <3>2. k \in 0..n
      OBVIOUS
    <3> QED BY <1>2, <3>1, <3>2
  <2> HIDE DEF S
  <2> QED BY <2>1, <2>2, Induction
<1>4. \A k \in 0..n : v[k] \in B
  BY <1>3
<1>5. v \in [0..n -> B] /\ v[n] = g[1..n]
  BY <1>4
<1>6. ASSUME NEW k \in 1..n PROVE v[k] = F[<<v[k - 1], k>>]
  <2>1. k - 1 \in 0..n
    OBVIOUS
  <2> HIDE DEF v
  <2> QED BY <1>2, <1>4, <2>1
<1> HIDE DEF v
<1> QED BY <1>1, <1>5, <1>6 DEF Loops

-----------------------------------------------------------------------------
(* The filter, the stream buffer and the parser together *)

\* As in the properties, with what they look at as parameters.
Over(st, p, n) == n >= FrameHeaderEnd(p) /\ n >= p + LenIn(st, p)
InBytes(st, p, j) == p < j /\ (j > FrameHeaderEnd(p) => j <= p + LenIn(st, p))
Kept(st, rs, p) == \A r \in rs : r <= p \/ Over(st, p, r)
Sunk(cs, j) == \A k \in 1..Len(cs) : cs[k].from <= j /\ j <= cs[k].to => cs[k].sink # "none"
Improv(cs, j) == \E k \in 1..Len(cs) : cs[k].from <= j /\ j <= cs[k].to /\ cs[k].sink = "improv"
OfVersion(st, p) == p + Len(Magic) < Len(st) => st[p + Len(Magic) + 1] = Version

\* The parser can follow the frame after p.
Sound(cs, st, rs, ls, p) ==
  /\ Kept(st, rs, p) /\ OfVersion(st, p)
  /\ \A j \in 1..Len(st) : InBytes(st, p, j) => j \notin ls /\ Sunk(cs, j)
SoundBefore(cs, st, rs, ls, n) == \A p \in StartsOf(cs) : p < n => Sound(cs, st, rs, ls, p)

Seg(p, n) == [i \in 1..n |-> p + i]
BytesIn(st, s) == [i \in DOMAIN s |-> st[s[i]]]

\* A request for the parser.
Good(st, p) ==
  /\ Parser!IsFrame(BytesIn(st, Seg(p, LenIn(st, p))))
  /\ st[p + Len(Magic) + 2] = RpcType

\* Frames begin with a magic, and one after the other.
StartInv(cs, st, rs) ==
  /\ \A p \in StartsOf(cs) :
       p \in Nat /\ p + Len(Magic) <= Covered(cs) /\ MagicAfter(st, p, Len(Magic))
  /\ \A p \in StartsOf(cs) : \A q \in StartsOf(cs) : p < q => DoneBy(st, rs, p, q)

\* From place k on q is what was routed to the library behind h, but for what was lost.
QueueInv(q, k, h, cs, ls) ==
  /\ h \in 0..Covered(cs) /\ q \in Seq(Nat)
  /\ \A m \in (k + 1)..Len(q) : h < q[m] /\ q[m] <= Covered(cs) /\ Improv(cs, q[m])
  /\ \A m \in (k + 1)..Len(q) : \A e \in (k + 1)..Len(q) : m < e => q[m] < q[e]
  /\ \A j \in (h + 1)..Covered(cs) :
       Improv(cs, j) /\ j \notin ls => \E m \in (k + 1)..Len(q) : q[m] = j

\* What the parser holds when it has taken what was routed up to h.
Shape(s, h, cs, st) ==
  \/ s = <<>> /\ \A p \in StartsOf(cs) : p < h => Over(st, p, h)
  \/ \E p \in StartsOf(cs) : p < h /\ ~Over(st, p, h) /\ s = Seg(p, h - p)
HeardBy(dp, h, cs, st, rs, ls) ==
  \A p \in StartsOf(cs) :
    /\ Over(st, p, h) /\ Sound(cs, st, rs, ls, p) /\ SoundBefore(cs, st, rs, ls, p)
    /\ Good(st, p)
    => Seg(p, LenIn(st, p)) \in dp
FromFrames(dp, cs, st, rs, ls) ==
  \A d \in dp :
    \/ \E p \in StartsOf(cs) : Over(st, p, Len(st)) /\ d = Seg(p, LenIn(st, p))
    \/ ~SoundBefore(cs, st, rs, ls, d[Len(d)])
ParserInv(s, dp, h, cs, st, rs, ls) ==
  /\ s \in Seq(Nat) /\ dp \in SUBSET Seq(Nat)
  /\ SoundBefore(cs, st, rs, ls, h) => Shape(s, h, cs, st)
  /\ HeardBy(dp, h, cs, st, rs, ls) /\ FromFrames(dp, cs, st, rs, ls)

\* What the assumptions on the constants come to.
LEMMA LineSizes ==
  /\ Len(Magic) \in Nat /\ Len(Magic) > 1 /\ HeaderLen = 3 /\ Byte \subseteq Nat
  /\ Parser!HeaderLen = Len(Magic) + 3 /\ kBufferSize \in Nat
  /\ \A p \in Nat : FrameHeaderEnd(p) = p + Len(Magic) + 3
  /\ \A b \in Byte : b \in Nat /\ Len(Magic) + 3 + b + 1 <= kBufferSize
BY MagicAssumption, ParserAssumption, ByteAssumption
DEF HeaderLen, Parser!HeaderLen, FrameHeaderEnd, Byte

\* Consecutive positions.
LEMMA SegProps ==
  ASSUME NEW p \in Nat, NEW n \in Nat
  PROVE  /\ Seg(p, n) \in Seq(Nat) /\ Len(Seg(p, n)) = n /\ DOMAIN Seg(p, n) = 1..n
         /\ \A i \in 1..n : Seg(p, n)[i] = p + i
         /\ Append(Seg(p, n), p + n + 1) = Seg(p, n + 1)
<1>1. Seg(p, n) \in [1..n -> Nat] /\ \A i \in 1..n : Seg(p, n)[i] = p + i
  BY DEF Seg
<1>2. Seg(p, n) \in Seq(Nat)
  BY <1>1, SeqDef
<1>3. Len(Seg(p, n)) = n
  BY <1>1, <1>2, LenProperties
<1> DEFINE s == Append(Seg(p, n), p + n + 1)
<1>4. /\ s \in Seq(Nat) /\ Len(s) = n + 1 /\ s[n + 1] = p + n + 1
      /\ \A i \in 1..n : s[i] = p + i
  BY <1>1, <1>2, <1>3, AppendProperties
<1>5. s = Seg(p, n + 1)
  <2>1. Seg(p, n + 1) \in Seq(Nat) /\ Len(Seg(p, n + 1)) = n + 1
    <3>1. Seg(p, n + 1) \in [1..(n + 1) -> Nat]
      BY DEF Seg
    <3>2. Seg(p, n + 1) \in Seq(Nat)
      BY <3>1, SeqDef
    <3> QED BY <3>1, <3>2, LenProperties
  <2>2. ASSUME NEW i \in 1..(n + 1) PROVE s[i] = Seg(p, n + 1)[i]
    <3>1. Seg(p, n + 1)[i] = p + i
      BY DEF Seg
    <3>2. i \in 1..n \/ i = n + 1
      OBVIOUS
    <3> HIDE DEF s
    <3> QED BY <1>4, <3>1, <3>2
  <2> HIDE DEF s
  <2> QED BY <1>4, <2>1, <2>2, SeqEqual
<1> QED BY <1>1, <1>2, <1>3, <1>5

LEMMA NoSeg == ASSUME NEW p \in Nat PROVE Seg(p, 0) = <<>>
<1>1. Seg(p, 0) \in Seq(Nat) /\ Len(Seg(p, 0)) = 0
  BY SegProps
<1> QED BY <1>1, EmptySeq

\* The bytes at the positions behind p.
LEMMA SegBytes ==
  ASSUME NEW st \in Seq(Byte), NEW p \in Nat, NEW n \in Nat, p + n <= Len(st)
  PROVE  /\ BytesIn(st, Seg(p, n)) \in Seq(Byte) /\ Len(BytesIn(st, Seg(p, n))) = n
         /\ \A i \in 1..n : BytesIn(st, Seg(p, n))[i] = st[p + i]
<1> DEFINE f == BytesIn(st, Seg(p, n))
<1>1. f = [i \in 1..n |-> st[p + i]]
  BY SegProps DEF BytesIn
<1>2. \A i \in 1..n : p + i \in 1..Len(st)
  BY LenProperties
<1>3. \A i \in 1..n : st[p + i] \in Byte
  BY <1>2, ElementOfSeq
<1>4. f \in [1..n -> Byte]
  BY <1>1, <1>3
<1>5. f \in Seq(Byte)
  BY <1>4, SeqDef
<1>6. Len(f) = n
  BY <1>4, <1>5, LenProperties
<1>7. \A i \in 1..n : f[i] = st[p + i]
  BY <1>1
<1> HIDE DEF f
<1> QED BY <1>5, <1>6, <1>7 DEF f

\* The length of a frame whose length byte is in.
LEMMA FrameSize ==
  ASSUME NEW st \in Seq(Byte), NEW p \in Nat, FrameHeaderEnd(p) <= Len(st)
  PROVE  /\ st[p + Len(Magic) + 3] \in Byte
         /\ LenIn(st, p) \in Nat /\ LenIn(st, p) = Len(Magic) + 3 + st[p + Len(Magic) + 3] + 1
         /\ Len(Magic) + 3 < LenIn(st, p) /\ LenIn(st, p) <= kBufferSize
<1>1. p + Len(Magic) + 3 \in 1..Len(st)
  BY LineSizes, LenProperties
<1>2. st[p + Len(Magic) + 3] \in Byte
  BY <1>1, ElementOfSeq
<1>3. LenIn(st, p) = Len(Magic) + 3 + st[p + Len(Magic) + 3] + 1
  BY LineSizes DEF LenIn
<1>4. PICK b \in Byte : b = st[p + Len(Magic) + 3]
  BY <1>2
<1>5. b \in Nat /\ Len(Magic) \in Nat /\ Len(Magic) + 3 + b + 1 <= kBufferSize
  BY LineSizes
<1> QED BY <1>2, <1>3, <1>4, <1>5

\* A frame is over with its last byte.
LEMMA OverAtLast ==
  ASSUME NEW st \in Seq(Byte), NEW p \in Nat, NEW n \in Nat, p + n < Len(st), ~Over(st, p, p + n)
  PROVE  /\ n < kBufferSize
         /\ Over(st, p, p + n + 1) <=>
              n + 1 >= Len(Magic) + 3 /\ n + 1 = LenIn(st, p)
         /\ n < Len(Magic) + 3 \/ n < LenIn(st, p)
<1>1. Len(st) \in Nat /\ Len(Magic) \in Nat /\ kBufferSize \in Nat /\ FrameHeaderEnd(p) = p + Len(Magic) + 3
  BY LineSizes, LenProperties
<1>2. Len(Magic) + 3 < kBufferSize
  <2>1. 0 \in Byte
    BY ByteAssumption DEF Byte
  <2> QED BY <1>1, <2>1, LineSizes
<1>3. CASE n + 1 < Len(Magic) + 3
  BY <1>1, <1>2, <1>3 DEF Over
<1>4. CASE n + 1 >= Len(Magic) + 3
  <2>1. FrameHeaderEnd(p) <= Len(st)
    BY <1>1, <1>4
  <2>2. PICK l \in Nat : l = LenIn(st, p)
    BY <2>1, FrameSize
  <2>3. Len(Magic) + 3 < l /\ l <= kBufferSize
    BY <2>1, <2>2, FrameSize
  <2>4. ~(p + n >= p + Len(Magic) + 3 /\ p + n >= p + l)
    BY <1>1, <2>2 DEF Over
  <2>5. n < l
    BY <1>1, <1>4, <2>3, <2>4
  <2>6. Over(st, p, p + n + 1) <=> p + n + 1 >= p + Len(Magic) + 3 /\ p + n + 1 >= p + l
    BY <1>1, <2>2 DEF Over
  <2>7. Over(st, p, p + n + 1) <=> n + 1 = l
    BY <1>1, <1>4, <2>5, <2>6
  <2> QED BY <1>1, <1>4, <2>2, <2>3, <2>5, <2>7
<1> QED BY <1>1, <1>3, <1>4

\* The parser with the first n bytes of a frame takes the next ...
LEMMA FrameAccepts ==
  ASSUME NEW st \in Seq(Byte), NEW p \in Nat, NEW n \in Nat, p + n < Len(st),
         MagicAfter(st, p, Len(Magic)), OfVersion(st, p),
         ~Over(st, p, p + n), ~Over(st, p, p + n + 1)
  PROVE  Parser!Accepts(BytesIn(st, Seg(p, n)), st[p + n + 1])
<1>1. PICK M \in Nat : M = Len(Magic) /\ M > 1 /\ Parser!HeaderLen = M + 3
  BY LineSizes
<1>2. Len(st) \in Nat
  BY LenProperties
<1>3. PICK f \in Seq(Byte) :
        f = BytesIn(st, Seg(p, n)) /\ Len(f) = n /\ \A i \in 1..n : f[i] = st[p + i]
  BY <1>2, SegBytes
<1>4. Len(f) = n /\ \A i \in 1..n : f[i] = st[p + i]
  BY <1>3
<1>5. CASE n < M
  <2>1. n + 1 \in 1..M /\ p + (n + 1) = p + n + 1
    BY <1>1, <1>5
  <2>2. st[p + n + 1] = Magic[n + 1]
    BY <1>1, <2>1 DEF MagicAfter
  <2> QED BY <1>1, <1>3, <1>4, <1>5, <2>2 DEF Parser!Accepts
<1>6. CASE n = M
  <2>1. st[p + n + 1] = Version
    BY <1>1, <1>2, <1>6 DEF OfVersion
  <2> QED BY <1>1, <1>3, <1>4, <1>6, <2>1 DEF Parser!Accepts
<1>7. CASE n = M + 1 \/ n = M + 2
  <2>1. n \in {Parser!HeaderLen - 2, Parser!HeaderLen - 1}
    BY <1>1, <1>7
  <2> QED BY <1>3, <1>4, <2>1 DEF Parser!Accepts
<1>8. CASE n >= M + 3
  <2>1. FrameHeaderEnd(p) <= Len(st)
    <3>1. FrameHeaderEnd(p) = p + M + 3
      BY <1>1, LineSizes
    <3> QED BY <1>1, <1>2, <1>8, <3>1
  <2>2. PICK b \in Byte : b = st[p + M + 3]
    BY <1>1, <2>1, FrameSize
  <2>3. b \in Nat /\ LenIn(st, p) = M + 3 + b + 1
    BY <1>1, <2>1, <2>2, FrameSize, LineSizes
  <2>4. f[M + 3] = b
    <3>1. M + 3 \in 1..n /\ p + (M + 3) = p + M + 3
      BY <1>1, <1>8
    <3> QED BY <1>4, <2>2, <3>1
  <2>5. n < M + 3 + b
    <3>1. n < M + 3 \/ n < LenIn(st, p)
      BY <1>1, OverAtLast
    <3>2. ~(n + 1 >= M + 3 /\ n + 1 = LenIn(st, p))
      BY <1>1, OverAtLast
    <3> QED BY <1>1, <1>8, <2>3, <3>1, <3>2
  <2> QED BY <1>1, <1>3, <1>4, <1>8, <2>4, <2>5 DEF Parser!Accepts
<1> QED BY <1>1, <1>5, <1>6, <1>7, <1>8

\* ... and is done with a frame when, and only when, it is over.
LEMMA FrameCompletes ==
  ASSUME NEW st \in Seq(Byte), NEW p \in Nat, NEW n \in Nat, p + n < Len(st), ~Over(st, p, p + n)
  PROVE  /\ BytesIn(st, Seg(p, n + 1)) = Append(BytesIn(st, Seg(p, n)), st[p + n + 1])
         /\ Parser!Completes(BytesIn(st, Seg(p, n + 1))) <=> Over(st, p, p + n + 1)
<1>1. PICK M \in Nat : M = Len(Magic) /\ M > 1 /\ Parser!HeaderLen = M + 3
  BY LineSizes
<1>2. Len(st) \in Nat /\ p + (n + 1) <= Len(st) /\ p + n <= Len(st)
  BY LenProperties
<1>3. PICK m \in Nat : m = n + 1 /\ p + m <= Len(st)
  BY <1>2
<1>4. PICK f \in Seq(Byte) :
        f = BytesIn(st, Seg(p, n)) /\ Len(f) = n /\ \A i \in 1..n : f[i] = st[p + i]
  BY <1>2, SegBytes
<1>5. PICK g \in Seq(Byte) :
        /\ g = BytesIn(st, Seg(p, n + 1)) /\ Len(g) = n + 1
        /\ \A i \in 1..(n + 1) : g[i] = st[p + i]
  BY <1>3, SegBytes
<1>6. PICK b \in Byte : b = st[p + n + 1]
  <2>1. p + n + 1 \in 1..Len(st)
    BY <1>2
  <2> QED BY <2>1, ElementOfSeq
<1>7. g = Append(f, b)
  <2> DEFINE a == Append(f, b)
  <2>1. a \in Seq(Byte) /\ Len(a) = n + 1 /\ a[n + 1] = b /\ \A i \in 1..n : a[i] = f[i]
    BY <1>4, AppendProperties
  <2> HIDE DEF a
  <2>2. ASSUME NEW i \in 1..(n + 1) PROVE g[i] = a[i]
    <3>1. CASE i = n + 1
      BY <1>5, <1>6, <2>1, <3>1
    <3>2. CASE i # n + 1
      <4>1. i \in 1..n
        BY <3>2
      <4> QED BY <1>4, <1>5, <2>1, <4>1
    <3> QED BY <3>1, <3>2
  <2>3. g = a
    BY <1>5, <2>1, <2>2, SeqEqual
  <2> QED BY <2>3 DEF a
<1>8. Parser!Completes(g) <=> n + 1 >= M + 3 /\ n + 1 = M + 3 + g[M + 3] + 1
  BY <1>1, <1>5 DEF Parser!Completes, Parser!TotalLen
<1>9. Parser!Completes(g) <=> Over(st, p, p + n + 1)
  <2>1. Over(st, p, p + n + 1) <=> n + 1 >= M + 3 /\ n + 1 = LenIn(st, p)
    BY <1>1, OverAtLast
  <2>2. CASE n + 1 < M + 3
    BY <1>1, <1>8, <2>1, <2>2
  <2>3. CASE n + 1 >= M + 3
    <3>1. M + 3 \in 1..(n + 1) /\ p + (M + 3) = p + M + 3
      BY <1>1, <2>3
    <3>2. g[M + 3] = st[p + M + 3]
      BY <1>5, <3>1
    <3>3. FrameHeaderEnd(p) = p + M + 3
      BY <1>1, LineSizes
    <3>4. FrameHeaderEnd(p) <= Len(st)
      BY <1>1, <1>2, <2>3, <3>3
    <3>5. LenIn(st, p) = M + 3 + g[M + 3] + 1
      BY <1>1, <3>2, <3>4, FrameSize
    <3> QED BY <1>8, <2>1, <3>5
  <2> QED BY <1>1, <2>2, <2>3
<1> QED BY <1>4, <1>5, <1>6, <1>7, <1>9

\* The checksum of a request is accepted.
LEMMA FrameSumAccepted ==
  ASSUME NEW st \in Seq(Byte), NEW p \in Nat, NEW n \in Nat, p + n < Len(st),
         ~Over(st, p, p + n), Over(st, p, p + n + 1), Good(st, p)
  PROVE  /\ Parser!Accepts(BytesIn(st, Seg(p, n)), st[p + n + 1])
         /\ BytesIn(st, Seg(p, n + 1))[Len(Magic) + 2] = RpcType
<1>1. PICK M \in Nat : M = Len(Magic) /\ M > 1 /\ Parser!HeaderLen = M + 3
  BY LineSizes
<1>2. PICK m \in Nat : m = n + 1 /\ p + m <= Len(st) /\ p + n <= Len(st)
  BY LenProperties
<1>3. m >= M + 3 /\ m = LenIn(st, p)
  BY <1>1, <1>2, OverAtLast
<1>4. PICK f \in Seq(Byte) :
        f = BytesIn(st, Seg(p, n)) /\ Len(f) = n /\ \A i \in 1..n : f[i] = st[p + i]
  BY <1>2, SegBytes
<1>5. PICK g \in Seq(Byte) : g = BytesIn(st, Seg(p, m))
  BY <1>2, SegBytes
<1>6. Len(f) = n /\ \A i \in 1..n : f[i] = st[p + i]
  BY <1>4
<1>7. Len(g) = m /\ \A i \in 1..m : g[i] = st[p + i]
  BY <1>2, <1>5, SegBytes
<1>8. Parser!IsFrame(g) /\ st[p + M + 2] = RpcType
  BY <1>1, <1>3, <1>5 DEF Good
<1>9. FrameHeaderEnd(p) <= Len(st)
  <2>1. FrameHeaderEnd(p) = p + M + 3
    BY <1>1, LineSizes
  <2> QED BY <1>1, <1>2, <1>3, <2>1, LenProperties
<1>10. PICK b \in Byte : b = st[p + M + 3]
  BY <1>1, <1>9, FrameSize
<1>11. b \in Nat /\ m = M + 3 + b + 1
  BY <1>1, <1>3, <1>9, <1>10, FrameSize, LineSizes
<1>12. f[M + 3] = b
  <2>1. M + 3 \in 1..n /\ p + (M + 3) = p + M + 3
    <3>1. /\ m = n + 1 /\ m = M + 3 + b + 1
          /\ M \in Nat /\ b \in Nat /\ m \in Nat /\ n \in Nat
      BY <1>1, <1>2, <1>11
    <3> QED BY <3>1
  <2> QED BY <1>6, <1>10, <2>1
<1>13. f = SubSeq(g, 1, n)
  <2> DEFINE u == SubSeq(g, 1, n)
  <2>1. \A i \in 1..n : g[i] \in Byte /\ g[i] = f[i]
    <3>1. \A i \in 1..n : i \in 1..m
      BY <1>2
    <3> QED BY <1>6, <1>7, <3>1, ElementOfSeq
  <2>2. 1 \in Int /\ n \in Int /\ n - 1 + 1 = n /\ (1 <= n \/ n = 0)
    OBVIOUS
  <2>3. /\ u \in Seq(Byte) /\ Len(u) = IF 1 <= n THEN n - 1 + 1 ELSE 0
        /\ \A i \in 1..(n - 1 + 1) : u[i] = g[1 + i - 1]
    BY <2>1, <2>2, SubSeqProperties
  <2>4. ASSUME NEW i \in 1..n PROVE f[i] = u[i]
    <3>1. 1 + i - 1 = i
      OBVIOUS
    <3> HIDE DEF u
    <3> QED BY <2>1, <2>2, <2>3, <3>1
  <2>5. Len(u) = n
    <3> HIDE DEF u
    <3> QED BY <2>2, <2>3
  <2> HIDE DEF u
  <2>6. f = u
    BY <1>6, <2>3, <2>4, <2>5, SeqEqual
  <2> QED BY <2>6 DEF u
<1>14. g[m] = Parser!Checksum(f)
  <2>1. g[Len(g)] = Parser!Checksum(SubSeq(g, 1, Len(g) - 1)) /\ Len(g) - 1 = n
    BY <1>2, <1>7, <1>8 DEF Parser!IsFrame
  <2> QED BY <1>7, <1>13, <2>1
<1>15. st[p + n + 1] = Parser!Checksum(f)
  <2>1. m \in 1..m /\ p + m = p + n + 1
    BY <1>1, <1>2, <1>3
  <2> QED BY <1>7, <1>14, <2>1
<1>16. Parser!Accepts(f, st[p + n + 1])
  <2>1. n >= M + 3 /\ n = M + 3 + b
    <3>1. /\ m = n + 1 /\ m = M + 3 + b + 1
          /\ M \in Nat /\ b \in Nat /\ m \in Nat /\ n \in Nat
      BY <1>1, <1>2, <1>11
    <3> QED BY <3>1
  <2> QED BY <1>1, <1>6, <1>12, <1>15, <2>1 DEF Parser!Accepts
<1>17. g[M + 2] = RpcType
  <2>1. M + 2 \in 1..m /\ p + (M + 2) = p + M + 2
    BY <1>1, <1>2, <1>3
  <2> QED BY <1>7, <1>8, <2>1
<1> QED BY <1>1, <1>2, <1>4, <1>5, <1>16, <1>17

\* The parser at work on a frame, one byte on.
LEMMA FrameStep ==
  ASSUME stream \in Seq(Byte), NEW p \in Nat, NEW n \in Nat, p + n < Len(stream),
         MagicAfter(stream, p, Len(Magic)), OfVersion(stream, p), ~Over(stream, p, p + n),
         NEW dp
  PROVE  LET x == FeedParser([bufAt |-> Seg(p, n), dispatched |-> dp], p + n + 1) IN
           /\ ~Over(stream, p, p + n + 1) => x.bufAt = Seg(p, n + 1) /\ x.dispatched = dp
           /\ Over(stream, p, p + n + 1) => x.bufAt = <<>> /\ n + 1 = LenIn(stream, p)
           /\ x.dispatched = dp \/ x.dispatched = dp \cup {Seg(p, n + 1)}
           /\ Over(stream, p, p + n + 1) /\ Good(stream, p) => Seg(p, n + 1) \in x.dispatched
<1> DEFINE f == BytesIn(stream, Seg(p, n))
           g == BytesIn(stream, Seg(p, n + 1))
           b == stream[p + n + 1]
           x == FeedParser([bufAt |-> Seg(p, n), dispatched |-> dp], p + n + 1)
<1>1. f \in Seq(Byte) /\ Len(f) = n
  BY SegBytes, LenProperties
<1>2. n < kBufferSize
  BY OverAtLast
<1>3. g = Append(f, b) /\ (Parser!Completes(g) <=> Over(stream, p, p + n + 1))
  BY FrameCompletes
<1>4. Append(Seg(p, n), p + n + 1) = Seg(p, n + 1)
  BY SegProps
<1>5. f = BytesAt(Seg(p, n))
  BY DEF BytesAt, BytesIn
<1> HIDE DEF f, g, b
<1>6. /\ x.bufAt = IF Parser!NextBuf(f, b) = <<>> THEN <<>> ELSE Seg(p, n + 1)
      /\ x.dispatched = IF Parser!IsDispatched(f, b) THEN dp \cup {Seg(p, n + 1)} ELSE dp
  BY <1>4, <1>5 DEF FeedParser, b
<1>7. ~(Len(f) >= kBufferSize) /\ Len(f) < kBufferSize
  BY <1>1, <1>2, LineSizes
<1>8. Parser!IsDispatched(f, b) => Over(stream, p, p + n + 1)
  BY <1>3 DEF Parser!IsDispatched
<1>9. CASE ~Over(stream, p, p + n + 1)
  <2>1. Parser!Accepts(f, b)
    BY <1>9, FrameAccepts DEF f, b
  <2>2. g # <<>>
    <3>1. Len(g) = n + 1
      <4>1. PICK m \in Nat : m = n + 1 /\ p + m <= Len(stream)
        BY LenProperties
      <4> QED BY <4>1, SegBytes DEF g
    <3> QED BY <3>1, EmptySeq
  <2>3. Parser!NextBuf(f, b) # <<>>
    BY <1>3, <1>7, <1>9, <2>1, <2>2 DEF Parser!NextBuf
  <2> QED BY <1>6, <1>8, <1>9, <2>3
<1>10. CASE Over(stream, p, p + n + 1)
  <2>1. Parser!NextBuf(f, b) = <<>>
    BY <1>3, <1>10 DEF Parser!NextBuf
  <2>2. n + 1 = LenIn(stream, p)
    BY <1>10, OverAtLast
  <2>3. Good(stream, p) => Parser!IsDispatched(f, b)
    <3>1. Parser!HeaderLen - 1 = Len(Magic) + 2
      BY LineSizes
    <3>2. Good(stream, p) => Parser!Accepts(f, b) /\ g[Len(Magic) + 2] = RpcType
      BY <1>10, FrameSumAccepted DEF f, g, b
    <3> QED BY <1>3, <1>7, <1>10, <3>1, <3>2 DEF Parser!IsDispatched
  <2> QED BY <1>6, <1>10, <2>1, <2>2, <2>3
<1> QED BY <1>9, <1>10

-----------------------------------------------------------------------------
(* Frames that the parser can follow *)

\* Where the header of a frame ends.
LEMMA HeaderEnd ==
  ASSUME NEW p \in Nat
  PROVE  /\ FrameHeaderEnd(p) \in Nat /\ FrameHeaderEnd(p) = p + Len(Magic) + 3
         /\ p + 4 < FrameHeaderEnd(p)
<1>1. PICK m \in Nat : m = Len(Magic) /\ m > 1 /\ FrameHeaderEnd(p) = p + m + 3
  BY LineSizes
<1> QED BY <1>1

\* Where a frame is over it stays so, and no byte behind is one of it.
LEMMA OverStays ==
  ASSUME NEW st \in Seq(Byte), NEW p \in Nat, NEW n \in Nat, n <= Len(st), Over(st, p, n)
  PROVE  /\ LenIn(st, p) \in Nat /\ FrameHeaderEnd(p) <= Len(st)
         /\ \A m \in Nat : n <= m => Over(st, p, m)
         /\ \A j \in Nat : InBytes(st, p, j) => j <= n
<1>0. Len(st) \in Nat
  BY LenProperties
<1>1. Len(st) \in Nat /\ FrameHeaderEnd(p) \in Nat /\ n >= FrameHeaderEnd(p)
  BY <1>0, HeaderEnd DEF Over
<1>2. PICK l \in Nat : l = LenIn(st, p)
  BY <1>1, FrameSize
<1>3. n >= p + l
  BY <1>2 DEF Over
<1>4. \A m \in Nat : n <= m => Over(st, p, m)
  BY <1>1, <1>2, <1>3 DEF Over
<1>5. \A j \in Nat : InBytes(st, p, j) => j <= n
  BY <1>1, <1>2, <1>3 DEF InBytes
<1> QED BY <1>1, <1>2, <1>4, <1>5

\* Until a frame is over the next byte is one of it.
LEMMA NextInFrame ==
  ASSUME NEW st \in Seq(Byte), NEW p \in Nat, NEW n \in Nat, n < Len(st), p <= n,
         ~Over(st, p, n)
  PROVE  InBytes(st, p, n + 1)
<1>0. Len(st) \in Nat
  BY LenProperties
<1>1. Len(st) \in Nat /\ FrameHeaderEnd(p) \in Nat
  BY <1>0, HeaderEnd
<1>2. CASE n + 1 <= FrameHeaderEnd(p)
  BY <1>1, <1>2 DEF InBytes
<1>3. CASE n + 1 > FrameHeaderEnd(p)
  <2>1. PICK l \in Nat : l = LenIn(st, p)
    BY <1>1, <1>3, FrameSize
  <2>2. n >= FrameHeaderEnd(p)
    BY <1>1, <1>3
  <2>3. ~(n >= p + l)
    BY <2>1, <2>2 DEF Over
  <2>4. n + 1 <= p + l
    BY <2>1, <2>3
  <2> QED BY <2>1, <2>4 DEF InBytes
<1> QED BY <1>1, <1>2, <1>3

\* The last byte of a frame that is over.
LEMMA LastInFrame ==
  ASSUME NEW st \in Seq(Byte), NEW p \in Nat, NEW n \in Nat, n <= Len(st), Over(st, p, n)
  PROVE  /\ p + LenIn(st, p) \in 1..n /\ InBytes(st, p, p + LenIn(st, p))
         /\ Over(st, p, p + LenIn(st, p)) /\ p < p + LenIn(st, p)
         /\ \A m \in Nat : Over(st, p, m) => p + LenIn(st, p) <= m
<1>0. Len(st) \in Nat
  BY LenProperties
<1>1. Len(st) \in Nat /\ n >= FrameHeaderEnd(p) /\ FrameHeaderEnd(p) \in Nat
  BY <1>0, HeaderEnd DEF Over
<1>2. FrameHeaderEnd(p) <= Len(st) /\ FrameHeaderEnd(p) = p + Len(Magic) + 3
  BY <1>1, HeaderEnd
<1>3. PICK l \in Nat : l = LenIn(st, p) /\ Len(Magic) + 3 < l
  BY <1>2, FrameSize
<1>4. n >= p + l
  BY <1>3 DEF Over
<1>5. p + l \in 1..n /\ p < p + l /\ p + l >= FrameHeaderEnd(p)
  <2>1. Len(Magic) \in Nat
    BY LineSizes
  <2> QED BY <1>2, <1>3, <1>4, <2>1
<1>6. InBytes(st, p, p + l)
  BY <1>3, <1>5 DEF InBytes
<1>7. Over(st, p, p + l)
  BY <1>3, <1>5 DEF Over
<1>8. \A m \in Nat : Over(st, p, m) => p + l <= m
  BY <1>3 DEF Over
<1> QED BY <1>3, <1>5, <1>6, <1>7, <1>8

\* A frame that no reset() cut is done when it is over.
LEMMA DoneIsOver ==
  ASSUME NEW st \in Seq(Byte), NEW rs \in SUBSET Nat, NEW p \in Nat,
         NEW q \in Nat, q <= Len(st), Kept(st, rs, p), DoneBy(st, rs, p, q)
  PROVE  Over(st, p, q)
<1>1. CASE \E r \in rs : p < r /\ r <= q
  <2>1. PICK r \in rs : r \in Nat /\ p < r /\ r <= q
    BY <1>1
  <2>2. r <= Len(st) /\ Over(st, p, r)
    BY <2>1, LenProperties DEF Kept
  <2> QED BY <2>1, <2>2, OverStays
<1>2. CASE FrameHeaderEnd(p) <= q /\ p + LenIn(st, p) <= q
  <2>1. FrameHeaderEnd(p) <= Len(st) /\ FrameHeaderEnd(p) \in Nat
    <3>1. Len(st) \in Nat /\ FrameHeaderEnd(p) \in Nat
      BY HeaderEnd, LenProperties
    <3> QED BY <1>2, <3>1
  <2>2. LenIn(st, p) \in Nat
    BY <2>1, FrameSize
  <2> QED BY <1>2, <2>1, <2>2 DEF Over
<1> QED BY <1>1, <1>2 DEF DoneBy

\* Every byte passed on is in a call.
LEMMA InACall ==
  ASSUME NEW cs \in Seq(CallType), Tiles(cs), NEW j \in 1..Covered(cs)
  PROVE  \E k \in 1..Len(cs) : cs[k].from <= j /\ j <= cs[k].to
<1>1. Len(cs) \in Nat /\ \A k \in 1..Len(cs) : cs[k].from \in Nat /\ cs[k].to \in Nat
  <2>1. \A k \in 1..Len(cs) : cs[k] \in CallType
    BY ElementOfSeq
  <2> QED BY <2>1, LenProperties DEF CallType
<1>2. Covered(cs) \in Nat
  BY CoveredIsNat
<1> DEFINE T == {k \in 1..Len(cs) : j <= cs[k].to}
<1>3. Len(cs) \in T
  <2>1. cs # <<>>
    BY <1>2 DEF Covered
  <2>2. Len(cs) \in 1..Len(cs)
    BY <1>1, <2>1, EmptySeq
  <2> QED BY <2>1, <2>2 DEF Covered
<1>4. PICK k \in T : \A m \in T : k <= m
  <2>1. T \in SUBSET Nat
    OBVIOUS
  <2> HIDE DEF T
  <2> QED BY <1>3, <2>1, LeastNat
<1>5. k \in 1..Len(cs) /\ j <= cs[k].to
  OBVIOUS
<1>6. cs[k].from <= j
  <2>1. CASE k = 1
    <3>1. cs[k].from = 1
      BY <1>5, <2>1 DEF Tiles
    <3> QED BY <1>2, <3>1
  <2>2. CASE k # 1
    <3>1. k - 1 \in 1..Len(cs) /\ ~(k <= k - 1)
      BY <1>1, <1>5, <2>2
    <3>2. ~(j <= cs[k - 1].to)
      BY <1>4, <3>1
    <3>3. cs[k].from = cs[k - 1].to + 1
      BY <1>5, <2>2 DEF Tiles
    <3>4. cs[k - 1].to \in Nat /\ j \in Nat
      BY <1>1, <1>2, <3>1
    <3> QED BY <3>2, <3>3, <3>4
  <2> QED BY <2>1, <2>2
<1> QED BY <1>5, <1>6

\* What is known of the filter, the reset() calls and the frames it found.
Filtered(cs, st, rs) ==
  /\ cs \in Seq(CallType) /\ st \in Seq(Byte) /\ rs \in SUBSET Nat
  /\ Tiles(cs) /\ Ordered(cs) /\ Routed(cs, st, rs) /\ StartInv(cs, st, rs)
  /\ Covered(cs) <= Len(st)

\* The bytes of such a frame were given to the library ...
LEMMA SoundImproved ==
  ASSUME NEW cs, NEW st, NEW rs, NEW ls, Filtered(cs, st, rs),
         NEW p \in StartsOf(cs), Sound(cs, st, rs, ls, p),
         NEW j \in 1..Covered(cs), InBytes(st, p, j)
  PROVE  Improv(cs, j) /\ j \notin ls
<1>1. PICK k \in 1..Len(cs) : cs[k].from <= j /\ j <= cs[k].to
  BY InACall DEF Filtered
<1>2. Covered(cs) \in Nat /\ Len(st) \in Nat /\ j \in 1..Len(st) /\ p \in Nat
  BY CoveredIsNat, LenProperties DEF Filtered, StartInv
<1>3. j \notin ls /\ Sunk(cs, j)
  BY <1>2 DEF Sound
<1>4. cs[k].sink # "none"
  BY <1>1, <1>3 DEF Sunk
<1>5. cs[k] \in CallType
  BY ElementOfSeq DEF Filtered
<1>6. Within(st, rs, j, StartsOf(cs))
  <2>1. ASSUME NEW r \in rs PROVE r <= p \/ r >= j
    <3>1. r \in Nat
      BY DEF Filtered
    <3>2. CASE Over(st, p, r) /\ r <= Len(st)
      BY <1>2, <3>1, <3>2, OverStays DEF Filtered
    <3>3. CASE r > Len(st)
      BY <1>2, <3>1, <3>3
    <3>4. r <= p \/ Over(st, p, r)
      BY DEF Sound, Kept
    <3> QED BY <1>2, <3>1, <3>2, <3>3, <3>4
  <2> QED BY <2>1 DEF Within, InBytes
<1>7. cs[k].sink # "console"
  <2>1. j \in cs[k].from..cs[k].to
    BY <1>1, <1>2, <1>5 DEF CallType
  <2> QED BY <1>6, <2>1 DEF Filtered, Routed
<1>8. cs[k].sink = "improv"
  BY <1>4, <1>5, <1>7 DEF CallType, Sinks
<1> QED BY <1>1, <1>3, <1>8 DEF Improv

\* ... and only bytes of a frame are.
LEMMA ImprovedInFrame ==
  ASSUME NEW cs, NEW st, NEW rs, Filtered(cs, st, rs), NEW j \in Nat, Improv(cs, j)
  PROVE  \E p \in StartsOf(cs) : p \in Nat /\ InBytes(st, p, j)
<1>1. PICK k \in 1..Len(cs) : cs[k].from <= j /\ j <= cs[k].to /\ cs[k].sink = "improv"
  BY DEF Improv
<1>2. cs[k] \in CallType
  BY ElementOfSeq DEF Filtered
<1>3. j \in cs[k].from..cs[k].to
  BY <1>1, <1>2 DEF CallType
<1>4. Within(st, rs, j, StartsOf(cs))
  BY <1>1, <1>3 DEF Filtered, Routed
<1> QED BY <1>4 DEF Within, InBytes, Filtered, StartInv

-----------------------------------------------------------------------------
(* The parser takes the next byte of the queue *)

\* The queue begins with the first byte behind h that was routed and not lost.
LEMMA HeadOfQueue ==
  ASSUME NEW cs, NEW ls, NEW q, NEW k \in Nat, NEW h, QueueInv(q, k, h, cs, ls),
         cs \in Seq(CallType), k < Len(q)
  PROVE  /\ h \in Nat /\ q[k + 1] \in 1..Covered(cs) /\ h < q[k + 1] /\ Improv(cs, q[k + 1])
         /\ \A j \in Nat : h < j /\ j <= Covered(cs) /\ Improv(cs, j) /\ j \notin ls =>
              q[k + 1] <= j
<1>1. Covered(cs) \in Nat /\ Len(q) \in Nat /\ h \in Nat /\ q \in Seq(Nat)
  BY CoveredIsNat, LenProperties DEF QueueInv
<1>2. k + 1 \in (k + 1)..Len(q) /\ k + 1 \in 1..Len(q)
  BY <1>1
<1>3. q[k + 1] \in Nat
  BY <1>1, <1>2, ElementOfSeq
<1>4. h < q[k + 1] /\ q[k + 1] <= Covered(cs) /\ Improv(cs, q[k + 1])
  BY <1>2 DEF QueueInv
<1>5. ASSUME NEW j \in Nat, h < j, j <= Covered(cs), Improv(cs, j), j \notin ls
      PROVE  q[k + 1] <= j
  <2>1. j \in (h + 1)..Covered(cs)
    BY <1>1, <1>5
  <2>2. PICK m \in (k + 1)..Len(q) : q[m] = j
    BY <1>5, <2>1 DEF QueueInv
  <2>3. m = k + 1 \/ k + 1 < m
    BY <1>1, <2>2
  <2>4. CASE k + 1 < m
    <3>1. q[k + 1] < q[m]
      BY <1>2, <2>2, <2>4 DEF QueueInv
    <3> QED BY <1>3, <2>2, <3>1
  <2>5. CASE m = k + 1
    BY <1>3, <2>2, <2>5
  <2> QED BY <2>3, <2>4, <2>5
<1> QED BY <1>1, <1>3, <1>4, <1>5

\* It is the next one of the frame that the parser is in.
LEMMA NextByte ==
  ASSUME NEW cs, NEW st, NEW rs, NEW ls, Filtered(cs, st, rs),
         NEW q, NEW k \in Nat, NEW h, QueueInv(q, k, h, cs, ls), k < Len(q),
         NEW i, i = q[k + 1], SoundBefore(cs, st, rs, ls, i),
         NEW s, Shape(s, h, cs, st)
  PROVE  \E p \in StartsOf(cs) :
           /\ p \in Nat /\ p < i /\ ~Over(st, p, i - 1) /\ s = Seg(p, i - 1 - p)
<1>1. /\ cs \in Seq(CallType) /\ st \in Seq(Byte) /\ Covered(cs) \in Nat /\ Len(st) \in Nat
      /\ Covered(cs) <= Len(st) /\ \A p \in StartsOf(cs) : p \in Nat
  BY CoveredIsNat, LenProperties DEF Filtered, StartInv
<1>2. /\ h \in Nat /\ i \in 1..Covered(cs) /\ h < i /\ Improv(cs, i)
      /\ \A j \in Nat : h < j /\ j <= Covered(cs) /\ Improv(cs, j) /\ j \notin ls => i <= j
  BY <1>1, HeadOfQueue
<1>3. h < Len(st) /\ h <= Len(st) /\ i \in Nat /\ i <= Covered(cs)
  BY <1>1, <1>2
<1>4. CASE s = <<>> /\ \A p \in StartsOf(cs) : p < h => Over(st, p, h)
  <2>1. PICK p \in StartsOf(cs) : p \in Nat /\ InBytes(st, p, i)
    BY <1>2, ImprovedInFrame
  <2>2. p < i
    BY <2>1 DEF InBytes
  <2>3. ~(p < h)
    <3>1. Over(st, p, h) => i <= h
      BY <1>1, <1>2, <1>3, <2>1, OverStays
    <3> QED BY <1>2, <1>4, <3>1
  <2>4. p < Len(st) /\ p <= Len(st)
    BY <1>1, <1>3, <2>1, <2>2
  <2>5. ~Over(st, p, p)
    <3>1. ~(p >= FrameHeaderEnd(p))
      BY <2>1, HeaderEnd
    <3> QED BY <3>1 DEF Over
  <2>6. InBytes(st, p, p + 1)
    BY <1>1, <2>1, <2>4, <2>5, NextInFrame
  <2>7. Sound(cs, st, rs, ls, p)
    BY <2>2 DEF SoundBefore
  <2>8. p + 1 \in 1..Covered(cs) /\ p + 1 \in Nat /\ h < p + 1
    BY <1>1, <1>2, <1>3, <2>1, <2>2, <2>3
  <2>9. Improv(cs, p + 1) /\ p + 1 \notin ls
    BY <2>6, <2>7, <2>8, SoundImproved
  <2>10. i <= p + 1
    BY <1>1, <1>2, <2>8, <2>9
  <2>11. i - 1 = p /\ i - 1 - p = 0
    BY <1>3, <2>1, <2>2, <2>10
  <2>12. s = Seg(p, i - 1 - p)
    BY <1>4, <2>1, <2>11, NoSeg
  <2> QED BY <2>1, <2>2, <2>5, <2>11, <2>12
<1>5. ASSUME NEW p \in StartsOf(cs), p < h, ~Over(st, p, h), s = Seg(p, h - p)
      PROVE  p \in Nat /\ p < i /\ ~Over(st, p, i - 1) /\ s = Seg(p, i - 1 - p)
  <2>1. p \in Nat /\ p < i /\ p <= h
    BY <1>1, <1>2, <1>3, <1>5
  <2>2. InBytes(st, p, h + 1)
    BY <1>1, <1>2, <1>3, <1>5, <2>1, NextInFrame
  <2>3. Sound(cs, st, rs, ls, p)
    BY <2>1 DEF SoundBefore
  <2>4. h + 1 \in 1..Covered(cs) /\ h + 1 \in Nat /\ h < h + 1
    BY <1>1, <1>2, <1>3
  <2>5. Improv(cs, h + 1) /\ h + 1 \notin ls
    BY <2>2, <2>3, <2>4, SoundImproved
  <2>6. i <= h + 1
    BY <1>1, <1>2, <2>4, <2>5
  <2>7. i - 1 = h
    BY <1>2, <1>3, <2>6
  <2> QED BY <1>5, <2>1, <2>7
<1> QED BY <1>4, <1>5 DEF Shape

\* One frame at a time.
LEMMA OneFrame ==
  ASSUME NEW cs, NEW st, NEW rs, NEW ls, Filtered(cs, st, rs),
         NEW n \in Nat, n <= Len(st), SoundBefore(cs, st, rs, ls, n + 1),
         NEW p \in StartsOf(cs), p \in Nat, p <= n, ~Over(st, p, n),
         NEW q \in StartsOf(cs), q <= n, q # p
  PROVE  q < p /\ Over(st, q, n)
<1>1. /\ st \in Seq(Byte) /\ rs \in SUBSET Nat /\ q \in Nat /\ Len(st) \in Nat
      /\ p <= Len(st) /\ q <= Len(st)
  BY LenProperties DEF Filtered, StartInv
<1>2. Kept(st, rs, p) /\ Kept(st, rs, q)
  <2>1. p < n + 1 /\ q < n + 1
    BY <1>1
  <2> QED BY <2>1 DEF SoundBefore, Sound
<1>3. CASE p < q
  <2>1. DoneBy(st, rs, p, q)
    BY <1>3 DEF Filtered, StartInv
  <2>2. Over(st, p, q)
    BY <1>1, <1>2, <2>1, DoneIsOver
  <2> QED BY <1>1, <2>2, OverStays
<1>4. CASE q < p
  <2>1. DoneBy(st, rs, q, p)
    BY <1>4 DEF Filtered, StartInv
  <2>2. Over(st, q, p)
    BY <1>1, <1>2, <2>1, DoneIsOver
  <2>3. Over(st, q, n)
    BY <1>1, <2>2, OverStays
  <2> QED BY <1>4, <2>3
<1> QED BY <1>1, <1>3, <1>4

\* What is left of the queue when that byte is taken.
LEMMA QueueStep ==
  ASSUME NEW cs, NEW ls, NEW q, NEW k \in Nat, NEW h, QueueInv(q, k, h, cs, ls),
         cs \in Seq(CallType), k < Len(q)
  PROVE  QueueInv(q, k + 1, q[k + 1], cs, ls)
<1>1. /\ h \in Nat /\ q[k + 1] \in 1..Covered(cs) /\ h < q[k + 1] /\ Covered(cs) \in Nat
      /\ Len(q) \in Nat /\ q \in Seq(Nat)
  BY HeadOfQueue, CoveredIsNat, LenProperties DEF QueueInv
<1>2. ASSUME NEW m \in (k + 2)..Len(q)
      PROVE  m \in (k + 1)..Len(q) /\ k + 1 \in (k + 1)..Len(q) /\ k + 1 < m
  BY <1>1
<1>3. \A m \in (k + 1 + 1)..Len(q) : q[k + 1] < q[m] /\ q[m] <= Covered(cs) /\ Improv(cs, q[m])
  BY <1>2 DEF QueueInv
<1>4. \A m \in (k + 1 + 1)..Len(q) : \A e \in (k + 1 + 1)..Len(q) : m < e => q[m] < q[e]
  BY <1>2 DEF QueueInv
<1>5. ASSUME NEW j \in (q[k + 1] + 1)..Covered(cs), Improv(cs, j), j \notin ls
      PROVE  \E m \in (k + 1 + 1)..Len(q) : q[m] = j
  <2>1. j \in (h + 1)..Covered(cs) /\ j # q[k + 1]
    BY <1>1
  <2>2. PICK m \in (k + 1)..Len(q) : q[m] = j
    BY <1>5, <2>1 DEF QueueInv
  <2>3. m # k + 1
    BY <2>1, <2>2
  <2>4. m \in (k + 1 + 1)..Len(q)
    BY <1>1, <2>3
  <2> QED BY <2>2, <2>4
<1>6. q[k + 1] \in 0..Covered(cs)
  BY <1>1
<1> QED BY <1>1, <1>3, <1>4, <1>5, <1>6 DEF QueueInv

\* Arithmetic of positions, by itself.
LEMMA Between ==
  ASSUME NEW p \in Nat, NEW i \in Nat, p < i
  PROVE  \E n \in Nat : n = i - 1 - p /\ p + n = i - 1 /\ p + n + 1 = i /\ n + 1 = i - p
<1>1. i - 1 - p \in Nat
  OBVIOUS
<1>2. PICK n \in Nat : n = i - 1 - p
  BY <1>1
<1> QED BY <1>2

\* What FeedParser does to what is known of the parser.
LEMMA ConsumeStep ==
  ASSUME Filtered(calls, stream, resetAt), NEW q, NEW k \in Nat, NEW h,
         QueueInv(q, k, h, calls, lost), k < Len(q),
         NEW x, x \in [bufAt : Seq(Nat), dispatched : SUBSET Seq(Nat)],
         ParserInv(x.bufAt, x.dispatched, h, calls, stream, resetAt, lost)
  PROVE  LET i == q[k + 1]
             y == FeedParser(x, i)
         IN  /\ y \in [bufAt : Seq(Nat), dispatched : SUBSET Seq(Nat)]
             /\ ParserInv(y.bufAt, y.dispatched, i, calls, stream, resetAt, lost)
<1> PICK i : i = q[k + 1]
  OBVIOUS
<1> DEFINE y == FeedParser(x, i)
<1>1. /\ calls \in Seq(CallType) /\ stream \in Seq(Byte) /\ Covered(calls) \in Nat
      /\ Len(stream) \in Nat /\ Covered(calls) <= Len(stream)
      /\ \A p \in StartsOf(calls) : p \in Nat
  BY CoveredIsNat, LenProperties DEF Filtered, StartInv
<1>2. /\ h \in Nat /\ i \in 1..Covered(calls) /\ h < i
      /\ \A j \in Nat : h < j /\ j <= Covered(calls) /\ Improv(calls, j) /\ j \notin lost => i <= j
  BY <1>1, HeadOfQueue
<1>3. i \in Nat /\ i - 1 \in Nat /\ i - 1 < Len(stream) /\ i <= Len(stream) /\ h <= Len(stream)
      /\ i <= Covered(calls)
  <2>1. PICK o \in Nat : o = Covered(calls) /\ o <= Len(stream) /\ Len(stream) \in Nat
    BY <1>1
  <2>2. i \in 1..o /\ h < i /\ h \in Nat
    BY <1>2, <2>1
  <2> QED BY <2>1, <2>2
<1>4. x.bufAt \in Seq(Nat) /\ x.dispatched \in SUBSET Seq(Nat)
  OBVIOUS
<1>5. /\ Append(x.bufAt, i) \in Seq(Nat) /\ Len(Append(x.bufAt, i)) = Len(x.bufAt) + 1
      /\ Append(x.bufAt, i)[Len(x.bufAt) + 1] = i
  BY <1>3, <1>4, AppendProperties
<1>6. /\ y.bufAt = <<>> \/ y.bufAt = Append(x.bufAt, i)
      /\ y.dispatched = x.dispatched \/ y.dispatched = x.dispatched \cup {Append(x.bufAt, i)}
      /\ y = [bufAt |-> y.bufAt, dispatched |-> y.dispatched]
  BY DEF FeedParser
<1> HIDE DEF y
<1>7. y.bufAt \in Seq(Nat) /\ y.dispatched \in SUBSET Seq(Nat)
  BY <1>4, <1>5, <1>6, EmptySeq
<1>8. y \in [bufAt : Seq(Nat), dispatched : SUBSET Seq(Nat)]
  BY <1>6, <1>7
\* Where the parser stands, when it can follow.
<1>9. ASSUME SoundBefore(calls, stream, resetAt, lost, i)
      PROVE  \E p \in StartsOf(calls) :
               /\ p \in Nat /\ p < i /\ ~Over(stream, p, i - 1)
               /\ ~Over(stream, p, i) => y.bufAt = Seg(p, i - p) /\ y.dispatched = x.dispatched
               /\ Over(stream, p, i) => y.bufAt = <<>> /\ i = p + LenIn(stream, p)
               /\ \/ y.dispatched = x.dispatched
                  \/ y.dispatched = x.dispatched \cup {Seg(p, i - p)}
               /\ Over(stream, p, i) /\ Good(stream, p) => Seg(p, i - p) \in y.dispatched
  <2>1. SoundBefore(calls, stream, resetAt, lost, h)
    <3>1. \A p \in StartsOf(calls) : p < h => p < i
      BY <1>1, <1>2, <1>3
    <3> QED BY <1>9, <3>1 DEF SoundBefore
  <2>2. Shape(x.bufAt, h, calls, stream)
    BY <2>1 DEF ParserInv
  <2>3. PICK p \in StartsOf(calls) :
          p \in Nat /\ p < i /\ ~Over(stream, p, i - 1) /\ x.bufAt = Seg(p, i - 1 - p)
    BY <1>9, <2>2, NextByte
  <2>4. PICK n \in Nat :
          n = i - 1 - p /\ p + n = i - 1 /\ p + n + 1 = i /\ n + 1 = i - p
    BY <1>3, <2>3, Between
  <2>5. p + n < Len(stream)
    BY <1>3, <2>4
  <2>6. x = [bufAt |-> Seg(p, n), dispatched |-> x.dispatched]
    BY <2>3, <2>4
  <2>7. OfVersion(stream, p)
    BY <1>9, <2>3 DEF SoundBefore, Sound
  <2>8. MagicAfter(stream, p, Len(Magic))
    BY DEF Filtered, StartInv
  <2> DEFINE z == FeedParser([bufAt |-> Seg(p, n), dispatched |-> x.dispatched], p + n + 1)
  <2>9. ~Over(stream, p, p + n)
    BY <2>3, <2>4
  <2>10. /\ ~Over(stream, p, p + n + 1) => z.bufAt = Seg(p, n + 1) /\ z.dispatched = x.dispatched
         /\ Over(stream, p, p + n + 1) => z.bufAt = <<>> /\ n + 1 = LenIn(stream, p)
         /\ z.dispatched = x.dispatched \/ z.dispatched = x.dispatched \cup {Seg(p, n + 1)}
         /\ Over(stream, p, p + n + 1) /\ Good(stream, p) => Seg(p, n + 1) \in z.dispatched
    BY <1>1, <2>3, <2>5, <2>7, <2>8, <2>9, FrameStep
  <2>11. z = y
    BY <2>4, <2>6 DEF y
  <2> HIDE DEF z
  <2>12. Over(stream, p, i) => i = p + LenIn(stream, p)
    <3>1. Over(stream, p, i) => i - p = LenIn(stream, p)
      BY <2>4, <2>10
    <3> QED BY <1>3, <2>3, <3>1
  <2> QED BY <2>3, <2>4, <2>10, <2>11, <2>12
<1>10. SoundBefore(calls, stream, resetAt, lost, i) => Shape(y.bufAt, i, calls, stream)
  <2> SUFFICES ASSUME SoundBefore(calls, stream, resetAt, lost, i)
               PROVE  Shape(y.bufAt, i, calls, stream)
    OBVIOUS
  <2>1. PICK p \in StartsOf(calls) :
               /\ p \in Nat /\ p < i /\ ~Over(stream, p, i - 1)
               /\ ~Over(stream, p, i) => y.bufAt = Seg(p, i - p)
               /\ Over(stream, p, i) => y.bufAt = <<>>
    BY <1>9
  <2>2. CASE ~Over(stream, p, i)
    BY <2>1, <2>2 DEF Shape
  <2>3. CASE Over(stream, p, i)
    <3>1. ASSUME NEW r \in StartsOf(calls), r < i PROVE Over(stream, r, i)
      <4>1. CASE r = p
        BY <2>3, <4>1
      <4>2. CASE r # p
        <5>1. r \in Nat /\ r <= i - 1 /\ p <= i - 1 /\ i - 1 <= Len(stream) /\ i - 1 + 1 = i
          <6>1. r \in Nat /\ p \in Nat /\ i \in Nat /\ Len(stream) \in Nat
            BY <1>1, <1>3, <2>1
          <6>2. r < i /\ p < i /\ i <= Len(stream)
            BY <1>3, <2>1, <3>1
          <6> QED BY <6>1, <6>2
        <5>2. Over(stream, r, i - 1)
          BY <1>3, <2>1, <4>2, <5>1, OneFrame
        <5>3. stream \in Seq(Byte) /\ i - 1 \in Nat /\ i \in Nat
          BY <1>1, <1>3
        <5>4. \A m \in Nat : i - 1 <= m => Over(stream, r, m)
          BY <5>1, <5>2, <5>3, OverStays
        <5> QED BY <5>3, <5>4
      <4> QED BY <4>1, <4>2
    <3> QED BY <2>1, <2>3, <3>1 DEF Shape
  <2> QED BY <2>2, <2>3
<1>11. HeardBy(y.dispatched, i, calls, stream, resetAt, lost)
  <2> SUFFICES ASSUME NEW p \in StartsOf(calls), Over(stream, p, i),
                      Sound(calls, stream, resetAt, lost, p),
                      SoundBefore(calls, stream, resetAt, lost, p), Good(stream, p)
               PROVE  Seg(p, LenIn(stream, p)) \in y.dispatched
    BY DEF HeardBy
  <2>1. CASE Over(stream, p, h)
    <3>1. Seg(p, LenIn(stream, p)) \in x.dispatched
      BY <2>1 DEF ParserInv, HeardBy
    <3> QED BY <1>6, <3>1
  <2>2. CASE ~Over(stream, p, h)
    <3> DEFINE l == p + LenIn(stream, p)
    <3>1. p \in Nat
      BY <1>1
    <3>2. l \in 1..i /\ InBytes(stream, p, l) /\ Over(stream, p, l) /\ p < l
          /\ \A m \in Nat : Over(stream, p, m) => l <= m
      BY <1>1, <1>3, <3>1, LastInFrame
    <3> HIDE DEF l
    <3>3. h < l /\ l \in Nat /\ l <= Covered(calls) /\ l \in 1..Covered(calls) /\ l <= Len(stream)
      <4>1. l \in Nat /\ l <= i
        BY <1>3, <3>2
      <4>2. l <= h => Over(stream, p, h)
        <5>1. l <= Len(stream) /\ stream \in Seq(Byte)
          BY <1>1, <1>3, <4>1
        <5>2. \A m \in Nat : l <= m => Over(stream, p, m)
          BY <3>1, <3>2, <4>1, <5>1, OverStays
        <5> QED BY <1>2, <5>2
      <4>3. h < l
        BY <1>2, <2>2, <4>1, <4>2
      <4>4. l <= Covered(calls) /\ l <= Len(stream)
        BY <1>1, <1>3, <4>1
      <4>5. l \in 1..Covered(calls)
        BY <1>1, <3>2, <4>1, <4>4
      <4> QED BY <4>1, <4>3, <4>4, <4>5
    <3>4. Improv(calls, l) /\ l \notin lost
      BY <3>2, <3>3, SoundImproved
    <3>5. l = i
      <4>1. i <= l
        BY <1>2, <3>3, <3>4
      <4> QED BY <1>3, <3>2, <3>3, <4>1
    <3>6. p < i /\ ~Over(stream, p, i - 1) /\ p <= i - 1
      BY <1>3, <3>1, <3>2, <3>5
    <3>7. ASSUME NEW r \in StartsOf(calls), p < r, r < i PROVE FALSE
      <4>1. r \in Nat /\ r <= Len(stream) /\ r <= i - 1
        BY <1>1, <1>3, <3>7
      <4>2. DoneBy(stream, resetAt, p, r)
        BY <3>7 DEF Filtered, StartInv
      <4>3. Over(stream, p, r)
        <5>1. resetAt \in SUBSET Nat /\ Kept(stream, resetAt, p)
          BY DEF Filtered, Sound
        <5> QED BY <1>1, <3>1, <4>1, <4>2, <5>1, DoneIsOver
      <4> QED BY <1>1, <1>3, <3>1, <3>6, <4>1, <4>3, OverStays
    <3>8. SoundBefore(calls, stream, resetAt, lost, i)
      <4>1. ASSUME NEW r \in StartsOf(calls), r < i
            PROVE  Sound(calls, stream, resetAt, lost, r)
        <5>1. r \in Nat /\ (r < p \/ r = p \/ p < r)
          BY <1>1, <3>1
        <5> QED BY <3>7, <4>1, <5>1 DEF SoundBefore
      <4> QED BY <4>1 DEF SoundBefore
    <3>9. PICK r \in StartsOf(calls) :
            /\ r \in Nat /\ r < i /\ ~Over(stream, r, i - 1)
            /\ Over(stream, r, i) /\ Good(stream, r) => Seg(r, i - r) \in y.dispatched
      BY <1>9, <3>8
    <3>10. r = p
      <4>1. i - 1 <= Len(stream) /\ i - 1 + 1 = i /\ r <= i - 1
        BY <1>3, <3>9
      <4>2. SoundBefore(calls, stream, resetAt, lost, i - 1 + 1)
        BY <3>8, <4>1
      <4> QED BY <1>3, <3>1, <3>6, <3>9, <4>1, <4>2, OneFrame
    <3>11. i - p = LenIn(stream, p)
      <4>1. LenIn(stream, p) \in Nat
        BY <1>3, <3>1, OverStays, <1>1
      <4> QED BY <3>1, <3>5, <4>1 DEF l
    <3> QED BY <3>9, <3>10, <3>11
  <2> QED BY <2>1, <2>2
<1>12. FromFrames(y.dispatched, calls, stream, resetAt, lost)
  <2> SUFFICES ASSUME NEW d \in y.dispatched
               PROVE  \/ \E p \in StartsOf(calls) :
                           Over(stream, p, Len(stream)) /\ d = Seg(p, LenIn(stream, p))
                      \/ ~SoundBefore(calls, stream, resetAt, lost, d[Len(d)])
    BY DEF FromFrames
  <2>1. CASE d \in x.dispatched
    BY <2>1 DEF ParserInv, FromFrames
  <2>2. CASE d \notin x.dispatched
    <3>1. d = Append(x.bufAt, i) /\ d[Len(d)] = i
      BY <1>5, <1>6, <2>2
    <3>2. ASSUME SoundBefore(calls, stream, resetAt, lost, i)
          PROVE  \E p \in StartsOf(calls) :
                   Over(stream, p, Len(stream)) /\ d = Seg(p, LenIn(stream, p))
      <4>1. PICK p \in StartsOf(calls) :
               /\ p \in Nat /\ p < i
               /\ ~Over(stream, p, i) => y.dispatched = x.dispatched
               /\ Over(stream, p, i) => i = p + LenIn(stream, p)
               /\ \/ y.dispatched = x.dispatched
                  \/ y.dispatched = x.dispatched \cup {Seg(p, i - p)}
        BY <1>9, <3>2
      <4>2. d = Seg(p, i - p) /\ Over(stream, p, i)
        BY <2>2, <4>1
      <4>3. LenIn(stream, p) \in Nat /\ Over(stream, p, Len(stream))
        BY <1>1, <1>3, <4>1, <4>2, OverStays
      <4>4. i - p = LenIn(stream, p)
        BY <4>1, <4>2, <4>3
      <4> QED BY <4>2, <4>3, <4>4
    <3> QED BY <3>1, <3>2
  <2> QED BY <2>1, <2>2
<1> QED BY <1>7, <1>8, <1>10, <1>11, <1>12 DEF ParserInv, y

-----------------------------------------------------------------------------
(* The parser takes a chunk *)

ParserState == [bufAt : Seq(Nat), dispatched : SUBSET Seq(Nat)]

\* FeedParser() stays in its type.
LEMMA FeedParserState ==
  ASSUME NEW x \in ParserState, NEW i \in Nat
  PROVE  FeedParser(x, i) \in ParserState
<1>1. x.bufAt \in Seq(Nat) /\ x.dispatched \in SUBSET Seq(Nat)
  BY DEF ParserState
<1>2. Append(x.bufAt, i) \in Seq(Nat) /\ <<>> \in Seq(Nat)
  BY <1>1, AppendProperties, EmptySeq
<1> DEFINE y == FeedParser(x, i)
<1>3. /\ y.bufAt = <<>> \/ y.bufAt = Append(x.bufAt, i)
      /\ y.dispatched = x.dispatched \/ y.dispatched = x.dispatched \cup {Append(x.bufAt, i)}
      /\ y = [bufAt |-> y.bufAt, dispatched |-> y.dispatched]
  BY DEF FeedParser
<1> HIDE DEF y
<1>4. y \in ParserState
  BY <1>1, <1>2, <1>3 DEF ParserState
<1> QED BY <1>4 DEF y

\* The fold of ImprovTask, and a round of it.
Consumed(base, u) == FoldLeft(FeedParser, base, u)
FeedRound(base, u, s, g) ==
  IF s = {} THEN base ELSE FeedParser(g[s \ {Max(s)}], u[Max(s)])

\* The fold of a chunk takes its bytes one by one.
LEMMA ChunkIsLoop ==
  ASSUME NEW n \in Nat, NEW u \in [1..n -> Nat], NEW base \in ParserState
  PROVE  \E v \in [0..n -> ParserState] :
           /\ v[0] = base /\ v[n] = Consumed(base, u)
           /\ \A k \in 1..n : v[k] = FeedParser(v[k - 1], u[k])
<1> DEFINE B == ParserState
           g == CHOOSE f : f = [s \in SUBSET (DOMAIN u) |-> FeedRound(base, u, s, f)]
           F == [p \in B \X (1..n) |-> FeedParser(p[1], u[p[2]])]
<1>1. Consumed(base, u) = g[DOMAIN u]
  BY DEF Consumed, FoldLeft, MapThenFoldSet, FeedRound
<1>2. DOMAIN u = 1..n
  OBVIOUS
<1>3. \A b \in B, k \in 1..n : F[<<b, k>>] = FeedParser(b, u[k])
  OBVIOUS
<1>4. \A b \in B, k \in 1..n : FeedParser(b, u[k]) \in B
  BY FeedParserState
<1>5. Steps(F, n, B)
  <2> HIDE DEF B
  <2> QED BY <1>4 DEF Steps
<1> HIDE DEF F
<1>6. PICK h \in [SUBSET (1..n) -> B] : Recurs(h, n, base, F)
  BY <1>5, FoldExists DEF Steps
<1>7. ASSUME NEW f, NEW s \in SUBSET (1..n), s # {}, f[s \ {Max(s)}] \in B
      PROVE  FeedRound(base, u, s, f) = F[<<f[s \ {Max(s)}], Max(s)>>]
  <2>1. PICK m \in 1..n : m = Max(s)
    BY <1>7, MaxInSet
  <2>2. PICK b \in B : b = f[s \ {Max(s)}]
    BY <1>7
  <2> HIDE DEF B
  <2>3. F[<<b, m>>] = FeedParser(b, u[m])
    BY <1>3
  <2> QED BY <1>7, <2>1, <2>2, <2>3 DEF FeedRound
<1>8. h = [s \in SUBSET (1..n) |-> FeedRound(base, u, s, h)]
  <2>1. ASSUME NEW s \in SUBSET (1..n) PROVE h[s] = FeedRound(base, u, s, h)
    <3>1. s # {} => s \ {Max(s)} \in SUBSET (1..n)
      OBVIOUS
    <3> HIDE DEF B
    <3> QED BY <1>6, <1>7, <3>1 DEF Recurs, FeedRound
  <2> QED BY <2>1
<1>9. g = [s \in SUBSET (1..n) |-> FeedRound(base, u, s, g)]
  <2>1. g = CHOOSE f : f = [s \in SUBSET (1..n) |-> FeedRound(base, u, s, f)]
    BY <1>2
  <2> QED BY <1>8, <2>1
<1>10. g[1..n] = Consumed(base, u)
  BY <1>1, <1>2
<1> HIDE DEF g
<1>11. g[{}] = base
  BY <1>9 DEF FeedRound
<1>12. RecursIn(g, n, B, base, F)
  <2> HIDE DEF B
  <2> QED BY <1>7, <1>9, <1>11 DEF RecursIn
<1>13. PICK v \in [0..n -> B] : Loops(v, n, base, F) /\ v[n] = g[1..n]
  <2> HIDE DEF B
  <2>1. base \in B
    BY DEF B
  <2> QED BY <1>5, <1>12, <2>1, FoldIsLoop
<1>14. \A k \in 1..n : v[k] = FeedParser(v[k - 1], u[k])
  <2> TAKE k \in 1..n
  <2>1. v[k - 1] \in B
    <3>1. k - 1 \in 0..n
      OBVIOUS
    <3> QED BY <3>1
  <2> HIDE DEF B
  <2> QED BY <1>3, <1>13, <2>1 DEF Loops
<1> QED BY <1>10, <1>13, <1>14 DEF Loops

\* What is left of the queue.
LEMMA QueueShift ==
  ASSUME NEW cs, NEW ls, NEW q, NEW k \in Nat, NEW h, QueueInv(q, k, h, cs, ls),
         k <= Len(q), cs \in Seq(CallType)
  PROVE  /\ QueueInv(SubSeq(q, k + 1, Len(q)), 0, h, cs, ls)
         /\ Len(SubSeq(q, k + 1, Len(q))) = Len(q) - k
<1> DEFINE r == SubSeq(q, k + 1, Len(q))
<1>1. q \in Seq(Nat) /\ Len(q) \in Nat /\ h \in Nat /\ h \in 0..Covered(cs)
      /\ Covered(cs) \in Nat
  BY CoveredIsNat, LenProperties DEF QueueInv
<1>2. \A m \in (k + 1)..Len(q) : q[m] \in Nat
  <2>1. \A m \in (k + 1)..Len(q) : m \in 1..Len(q)
    BY <1>1
  <2> QED BY <1>1, <2>1, ElementOfSeq
<1>3. k + 1 \in Int /\ Len(q) \in Int
  BY <1>1
<1>4. /\ r \in Seq(Nat) /\ Len(r) = IF k + 1 <= Len(q) THEN Len(q) - (k + 1) + 1 ELSE 0
      /\ \A m \in 1..(Len(q) - (k + 1) + 1) : r[m] = q[k + 1 + m - 1]
  BY <1>2, <1>3, SubSeqProperties
<1> HIDE DEF r
<1>5. Len(r) = Len(q) - k
  BY <1>1, <1>4
<1>6. \A m \in 1..Len(r) : m + k \in (k + 1)..Len(q) /\ r[m] = q[m + k]
  <2> TAKE m \in 1..Len(r)
  <2>1. m \in 1..(Len(q) - (k + 1) + 1) /\ k + 1 + m - 1 = m + k /\ m + k \in (k + 1)..Len(q)
    BY <1>1, <1>5
  <2>2. r[m] = q[k + 1 + m - 1]
    BY <1>4, <2>1
  <2> QED BY <2>1, <2>2
<1>7. ASSUME NEW m \in (0 + 1)..Len(r)
      PROVE  h < r[m] /\ r[m] <= Covered(cs) /\ Improv(cs, r[m])
  <2>1. m + k \in (k + 1)..Len(q) /\ r[m] = q[m + k]
    BY <1>6
  <2>2. h < q[m + k] /\ q[m + k] <= Covered(cs) /\ Improv(cs, q[m + k])
    BY <2>1 DEF QueueInv
  <2> QED BY <2>1, <2>2
<1>8. ASSUME NEW m \in (0 + 1)..Len(r), NEW e \in (0 + 1)..Len(r), m < e
      PROVE  r[m] < r[e]
  <2>1. m + k \in (k + 1)..Len(q) /\ e + k \in (k + 1)..Len(q) /\ m + k < e + k
    BY <1>6, <1>8
  <2>2. q[m + k] < q[e + k]
    BY <2>1 DEF QueueInv
  <2> QED BY <1>6, <2>2
<1>9. ASSUME NEW j \in (h + 1)..Covered(cs), Improv(cs, j), j \notin ls
      PROVE  \E m \in (0 + 1)..Len(r) : r[m] = j
  <2>1. PICK m \in (k + 1)..Len(q) : q[m] = j
    BY <1>9 DEF QueueInv
  <2>2. PICK e \in 1..Len(r) : m = e + k
    <3>1. m - k \in 1..Len(r) /\ m = (m - k) + k
      BY <1>1, <1>5
    <3> QED BY <3>1
  <2> QED BY <1>6, <2>1, <2>2
<1>10. QueueInv(r, 0, h, cs, ls)
  BY <1>1, <1>4, <1>7, <1>8, <1>9 DEF QueueInv
<1> QED BY <1>5, <1>10 DEF r

\* The lesser of two.
LEMMA MinOfTwo ==
  ASSUME NEW a \in Int, NEW b \in Int
  PROVE  Min({a, b}) = IF a <= b THEN a ELSE b
<1> PICK c \in Int : c = IF a <= b THEN a ELSE b
  OBVIOUS
<1>1. c \in {a, b} /\ \A y \in {a, b} : c <= y
  OBVIOUS
<1>2. ASSUME NEW d \in {a, b}, \A y \in {a, b} : d <= y PROVE d = c
  BY <1>1, <1>2
<1>3. Min({a, b}) = c
  BY <1>1, <1>2 DEF Min
<1> QED BY <1>3

\* A chunk keeps what is known of the queue and of the parser.
LEMMA ChunkStep ==
  ASSUME Filtered(calls, stream, resetAt), NEW h, QueueInv(queue, 0, h, calls, lost),
         ParserInv(bufAt, dispatched, h, calls, stream, resetAt, lost), ImprovTask
  PROVE  /\ Len(queue') \in Nat /\ Len(queue') <= Len(queue)
         /\ \E g : /\ QueueInv(queue', 0, g, calls, lost)
                   /\ ParserInv(bufAt', dispatched', g, calls, stream, resetAt, lost)
<1> DEFINE x == [bufAt |-> bufAt, dispatched |-> dispatched]
           u == SubSeq(queue, 1, Min({ReadMax, Len(queue)}))
<1>1. queue \in Seq(Nat) /\ Len(queue) \in Nat /\ ReadMax \in Nat /\ calls \in Seq(CallType)
  BY CapacityAssumption, LenProperties DEF QueueInv, Filtered
<1>2. PICK n \in Nat : n = Min({ReadMax, Len(queue)}) /\ n <= Len(queue)
  <2>1. ReadMax \in Int /\ Len(queue) \in Int
    BY <1>1
  <2>2. Min({ReadMax, Len(queue)}) = IF ReadMax <= Len(queue) THEN ReadMax ELSE Len(queue)
    BY <2>1, MinOfTwo
  <2> QED BY <1>1, <2>2
<1>3. /\ queue' = SubSeq(queue, n + 1, Len(queue))
      /\ bufAt' = Consumed(x, u).bufAt /\ dispatched' = Consumed(x, u).dispatched
  BY <1>2 DEF ImprovTask, Consumed
<1>4. u \in [1..n -> Nat] /\ \A k \in 1..n : u[k] = queue[k]
  <2>1. \A m \in 1..n : queue[m] \in Nat
    <3>1. \A m \in 1..n : m \in 1..Len(queue)
      BY <1>1, <1>2
    <3> QED BY <1>1, <3>1, ElementOfSeq
  <2>2. 1 \in Int /\ n \in Int /\ n - 1 + 1 = n /\ (1 <= n \/ n = 0)
    OBVIOUS
  <2>3. u = SubSeq(queue, 1, n)
    BY <1>2
  <2> HIDE DEF u
  <2>4. /\ u \in Seq(Nat) /\ Len(u) = IF 1 <= n THEN n - 1 + 1 ELSE 0
        /\ \A i \in 1..(n - 1 + 1) : u[i] = queue[1 + i - 1]
    BY <2>1, <2>2, <2>3, SubSeqProperties
  <2>5. Len(u) = n
    BY <2>2, <2>4
  <2>6. ASSUME NEW k \in 1..n PROVE u[k] = queue[k]
    <3>1. 1 + k - 1 = k
      OBVIOUS
    <3> QED BY <2>2, <2>4, <3>1
  <2> QED BY <2>4, <2>5, <2>6, LenProperties
<1>5. x \in ParserState
  BY DEF ParserInv, ParserState
<1> HIDE DEF u
<1>6. PICK v \in [0..n -> ParserState] :
        /\ v[0] = x /\ v[n] = Consumed(x, u)
        /\ \A k \in 1..n : v[k] = FeedParser(v[k - 1], u[k])
  <2> HIDE DEF x
  <2> QED BY <1>4, <1>5, ChunkIsLoop
<1> DEFINE At(k, g) == /\ QueueInv(queue, k, g, calls, lost)
                       /\ ParserInv(v[k].bufAt, v[k].dispatched, g, calls, stream, resetAt, lost)
           S == {k \in 0..n : \E g : At(k, g)}
<1>7. 0 \in S
  <2>1. v[0].bufAt = bufAt /\ v[0].dispatched = dispatched
    BY <1>6
  <2>2. At(0, h)
    BY <2>1
  <2> HIDE DEF At
  <2> QED BY <2>2
<1>8. ASSUME NEW k \in 1..n, k - 1 \in S PROVE k \in S
  <2>1. PICK g : At(k - 1, g)
    BY <1>8
  <2>2. PICK m \in Nat : m = k - 1 /\ m + 1 = k
    OBVIOUS
  <2>3. m < Len(queue) /\ m \in 0..n
    BY <1>1, <1>2, <2>2
  <2>4. v[m] \in [bufAt : Seq(Nat), dispatched : SUBSET Seq(Nat)]
    BY <1>6, <2>3 DEF ParserState
  <2>5. QueueInv(queue, m, g, calls, lost)
    BY <2>1, <2>2
  <2>6. ParserInv(v[m].bufAt, v[m].dispatched, g, calls, stream, resetAt, lost)
    BY <2>1, <2>2
  <2>7. v[k] = FeedParser(v[m], queue[m + 1])
    BY <1>4, <1>6, <2>2
  <2>8. QueueInv(queue, m + 1, queue[m + 1], calls, lost)
    BY <1>1, <2>3, <2>5, QueueStep
  <2>9. ParserInv(v[k].bufAt, v[k].dispatched, queue[m + 1], calls, stream, resetAt, lost)
    BY <2>3, <2>4, <2>5, <2>6, <2>7, ConsumeStep
  <2>10. At(k, queue[m + 1])
    BY <2>2, <2>8, <2>9
  <2> HIDE DEF At
  <2> QED BY <2>10
<1>9. n \in S
  <2> HIDE DEF S
  <2> QED BY <1>7, <1>8, Induction
<1>10. PICK g : At(n, g)
  BY <1>9
<1>11. QueueInv(queue', 0, g, calls, lost) /\ Len(queue') = Len(queue) - n
  BY <1>1, <1>2, <1>3, <1>10, QueueShift
<1>12. ParserInv(bufAt', dispatched', g, calls, stream, resetAt, lost)
  BY <1>3, <1>6, <1>10
<1>13. Len(queue') \in Nat /\ Len(queue') <= Len(queue)
  BY <1>1, <1>2, <1>11
<1> QED BY <1>11, <1>12, <1>13

-----------------------------------------------------------------------------
(* The filter goes on: more bytes, calls, reset() calls and losses *)

\* What is known later, of the same stream.
Grown(cs, st, rs, ls, ds, tt, rr, ll) ==
  /\ Len(cs) <= Len(ds) /\ \A k \in 1..Len(cs) : ds[k] = cs[k]
  /\ Len(st) <= Len(tt) /\ \A i \in 1..Len(st) : tt[i] = st[i]
  /\ rs \subseteq rr /\ ls \subseteq ll
  /\ \A p \in StartsOf(cs) : p \in StartsOf(ds)
  /\ \A p \in StartsOf(ds) : p \in StartsOf(cs) \/ Covered(cs) <= p

\* What a longer stream says of a frame is what the shorter one said.
LEMMA SameLength ==
  ASSUME NEW st \in Seq(Byte), NEW tt \in Seq(Byte), Len(st) <= Len(tt),
         \A i \in 1..Len(st) : tt[i] = st[i],
         NEW p \in Nat
  PROVE  /\ FrameHeaderEnd(p) <= Len(st) => LenIn(tt, p) = LenIn(st, p)
         /\ \A n \in Nat : n <= Len(st) => (Over(tt, p, n) <=> Over(st, p, n))
         /\ \A j \in Nat : j <= Len(st) => (InBytes(tt, p, j) <=> InBytes(st, p, j))
<1>1. Len(st) \in Nat
  BY LenProperties
<1>2. FrameHeaderEnd(p) \in Nat /\ FrameHeaderEnd(p) = p + Len(Magic) + 3 /\ HeaderLen = 3
      /\ p + 4 < FrameHeaderEnd(p)
  BY HeaderEnd, LineSizes
<1>3. FrameHeaderEnd(p) <= Len(st) => LenIn(tt, p) = LenIn(st, p)
  <2> SUFFICES ASSUME FrameHeaderEnd(p) <= Len(st) PROVE LenIn(tt, p) = LenIn(st, p)
    OBVIOUS
  <2>1. p + Len(Magic) + HeaderLen \in 1..Len(st)
    BY <1>1, <1>2
  <2>2. tt[p + Len(Magic) + HeaderLen] = st[p + Len(Magic) + HeaderLen]
    BY <2>1
  <2> QED BY <2>2 DEF LenIn
<1>4. ASSUME NEW n \in Nat, n <= Len(st) PROVE Over(tt, p, n) <=> Over(st, p, n)
  BY <1>1, <1>2, <1>3, <1>4 DEF Over
<1>5. ASSUME NEW j \in Nat, j <= Len(st) PROVE InBytes(tt, p, j) <=> InBytes(st, p, j)
  <2>1. j > FrameHeaderEnd(p) => LenIn(tt, p) = LenIn(st, p)
    BY <1>1, <1>2, <1>3, <1>5
  <2> QED BY <2>1 DEF InBytes
<1> QED BY <1>3, <1>4, <1>5

\* A frame that can be followed later could be followed earlier ...
LEMMA SoundEarlier ==
  ASSUME NEW cs, NEW st, NEW rs, NEW ls, NEW ds, NEW tt, NEW rr, NEW ll,
         Filtered(cs, st, rs), Filtered(ds, tt, rr), \A r \in rs : r <= Len(st),
         Grown(cs, st, rs, ls, ds, tt, rr, ll),
         NEW p \in StartsOf(cs), Sound(ds, tt, rr, ll, p)
  PROVE  Sound(cs, st, rs, ls, p)
<1>1. /\ st \in Seq(Byte) /\ tt \in Seq(Byte) /\ Len(st) <= Len(tt) /\ p \in Nat
      /\ \A i \in 1..Len(st) : tt[i] = st[i]
      /\ Len(st) \in Nat /\ Len(tt) \in Nat
  BY LenProperties DEF Filtered, StartInv, Grown
<1>2. Kept(st, rs, p)
  <2> SUFFICES ASSUME NEW r \in rs, ~(r <= p) PROVE Over(st, p, r)
    BY DEF Kept
  <2>1. r \in Nat /\ r <= Len(st) /\ r \in rr
    BY DEF Filtered, Grown
  <2>2. Over(tt, p, r)
    BY <2>1 DEF Sound, Kept
  <2> QED BY <1>1, <2>1, <2>2, SameLength
<1>3. OfVersion(st, p)
  <2> SUFFICES ASSUME p + Len(Magic) < Len(st) PROVE st[p + Len(Magic) + 1] = Version
    BY DEF OfVersion
  <2>1. Len(Magic) \in Nat
    BY LineSizes
  <2>2. p + Len(Magic) < Len(tt) /\ p + Len(Magic) + 1 \in 1..Len(st)
    BY <1>1, <2>1
  <2>3. tt[p + Len(Magic) + 1] = Version
    BY <2>2 DEF Sound, OfVersion
  <2> QED BY <1>1, <2>2, <2>3
<1>4. ASSUME NEW j \in 1..Len(st), InBytes(st, p, j) PROVE j \notin ls /\ Sunk(cs, j)
  <2>1. j \in 1..Len(tt) /\ j \in Nat /\ j <= Len(st)
    BY <1>1
  <2>2. InBytes(tt, p, j)
    BY <1>1, <1>4, <2>1, SameLength
  <2>3. j \notin ll /\ Sunk(ds, j)
    BY <2>1, <2>2 DEF Sound
  <2>4. Sunk(cs, j)
    <3>1. \A k \in 1..Len(cs) : k \in 1..Len(ds) /\ ds[k] = cs[k]
      <4>1. Len(cs) \in Nat /\ Len(ds) \in Nat /\ Len(cs) <= Len(ds)
        BY LenProperties DEF Filtered, Grown
      <4> QED BY <4>1 DEF Grown
    <3> QED BY <2>3, <3>1 DEF Sunk
  <2> QED BY <2>3, <2>4 DEF Grown
<1> QED BY <1>2, <1>3, <1>4 DEF Sound

\* ... and a request later was one when it was over.
LEMMA GoodEarlier ==
  ASSUME NEW st \in Seq(Byte), NEW tt \in Seq(Byte), Len(st) <= Len(tt),
         \A i \in 1..Len(st) : tt[i] = st[i],
         NEW p \in Nat, Over(st, p, Len(st)), Good(tt, p)
  PROVE  Good(st, p)
<1>1. Len(st) \in Nat /\ Len(Magic) \in Nat
  BY LenProperties, MagicAssumption
<1>2. FrameHeaderEnd(p) <= Len(st) /\ FrameHeaderEnd(p) = p + Len(Magic) + 3
  BY HeaderEnd DEF Over
<1>3. LenIn(tt, p) = LenIn(st, p)
  BY <1>2, SameLength
<1>4. PICK l \in Nat : l = LenIn(st, p) /\ p + l <= Len(st)
  <2>1. LenIn(st, p) \in Nat
    BY <1>2, FrameSize
  <2> QED BY <2>1 DEF Over
<1>5. BytesIn(tt, Seg(p, l)) = BytesIn(st, Seg(p, l))
  <2>1. DOMAIN Seg(p, l) = 1..l /\ \A i \in 1..l : Seg(p, l)[i] = p + i
    BY SegProps
  <2>2. \A i \in 1..l : p + i \in 1..Len(st)
    BY <1>1, <1>4
  <2>3. \A i \in 1..l : tt[p + i] = st[p + i]
    BY <2>2
  <2> QED BY <2>1, <2>3 DEF BytesIn
<1>6. tt[p + Len(Magic) + 2] = st[p + Len(Magic) + 2]
  <2>1. p + Len(Magic) + 2 \in 1..Len(st)
    BY <1>1, <1>2
  <2> QED BY <2>1
<1> QED BY <1>3, <1>4, <1>5, <1>6 DEF Good

\* What is known of the parser stays known.
LEMMA ParserGrown ==
  ASSUME NEW cs, NEW st, NEW rs, NEW ls, NEW ds, NEW tt, NEW rr, NEW ll,
         Filtered(cs, st, rs), Filtered(ds, tt, rr), \A r \in rs : r <= Len(st),
         Grown(cs, st, rs, ls, ds, tt, rr, ll),
         NEW s, NEW dp, NEW h \in 0..Covered(cs),
         ParserInv(s, dp, h, cs, st, rs, ls)
  PROVE  ParserInv(s, dp, h, ds, tt, rr, ll)
<1>1. /\ st \in Seq(Byte) /\ tt \in Seq(Byte) /\ Len(st) <= Len(tt)
      /\ \A i \in 1..Len(st) : tt[i] = st[i]
      /\ Len(st) \in Nat /\ Len(tt) \in Nat
  BY LenProperties DEF Filtered, Grown
<1>2. h \in Nat /\ h <= Len(st) /\ Covered(cs) \in Nat /\ h <= Covered(cs)
  BY <1>1, CoveredIsNat DEF Filtered
<1>3. \A p \in StartsOf(ds) : p \in Nat /\ (p < h => p \in StartsOf(cs))
  BY <1>2 DEF Filtered, StartInv, Grown
<1>4. \A p \in StartsOf(cs) : p \in StartsOf(ds) /\ p \in Nat
  BY DEF Filtered, StartInv, Grown
<1>5. \A p \in StartsOf(cs) : Sound(ds, tt, rr, ll, p) => Sound(cs, st, rs, ls, p)
  BY SoundEarlier
<1>6. \A n : SoundBefore(ds, tt, rr, ll, n) => SoundBefore(cs, st, rs, ls, n)
  BY <1>4, <1>5 DEF SoundBefore
<1>7. SoundBefore(ds, tt, rr, ll, h) => Shape(s, h, ds, tt)
  <2> SUFFICES ASSUME SoundBefore(ds, tt, rr, ll, h) PROVE Shape(s, h, ds, tt)
    OBVIOUS
  <2>1. Shape(s, h, cs, st)
    BY <1>6 DEF ParserInv
  <2>2. CASE s = <<>> /\ \A p \in StartsOf(cs) : p < h => Over(st, p, h)
    <3>1. ASSUME NEW p \in StartsOf(ds), p < h PROVE Over(tt, p, h)
      <4>1. p \in StartsOf(cs) /\ p \in Nat
        BY <1>3, <3>1
      <4>2. Over(st, p, h)
        BY <2>2, <3>1, <4>1
      <4> QED BY <1>1, <1>2, <4>1, <4>2, SameLength
    <3> QED BY <2>2, <3>1 DEF Shape
  <2>3. ASSUME NEW p \in StartsOf(cs), p < h, ~Over(st, p, h), s = Seg(p, h - p)
        PROVE  Shape(s, h, ds, tt)
    <3>1. p \in StartsOf(ds) /\ p \in Nat
      BY <1>4
    <3>2. ~Over(tt, p, h)
      BY <1>1, <1>2, <2>3, <3>1, SameLength
    <3> QED BY <2>3, <3>1, <3>2 DEF Shape
  <2> QED BY <2>1, <2>2, <2>3 DEF Shape
<1>8. HeardBy(dp, h, ds, tt, rr, ll)
  <2> SUFFICES ASSUME NEW p \in StartsOf(ds), Over(tt, p, h), Sound(ds, tt, rr, ll, p),
                      SoundBefore(ds, tt, rr, ll, p), Good(tt, p)
               PROVE  Seg(p, LenIn(tt, p)) \in dp
    BY DEF HeardBy
  <2>1. p \in Nat /\ p < h
    <3>1. p \in Nat /\ p + 4 < FrameHeaderEnd(p) /\ FrameHeaderEnd(p) <= h
          /\ FrameHeaderEnd(p) \in Nat
      BY <1>3, HeaderEnd DEF Over
    <3> QED BY <1>2, <3>1
  <2>2. p \in StartsOf(cs)
    BY <1>3, <2>1
  <2>3. Over(st, p, h)
    BY <1>1, <1>2, <2>1, SameLength
  <2>4. Over(st, p, Len(st)) /\ FrameHeaderEnd(p) <= Len(st)
    BY <1>1, <1>2, <2>1, <2>3, OverStays
  <2>5. Good(st, p) /\ LenIn(tt, p) = LenIn(st, p)
    BY <1>1, <2>1, <2>4, GoodEarlier, SameLength
  <2>6. Sound(cs, st, rs, ls, p) /\ SoundBefore(cs, st, rs, ls, p)
    BY <1>5, <1>6, <2>2
  <2> QED BY <2>2, <2>3, <2>5, <2>6 DEF ParserInv, HeardBy
<1>9. FromFrames(dp, ds, tt, rr, ll)
  <2> SUFFICES ASSUME NEW d \in dp
               PROVE  \/ \E p \in StartsOf(ds) : Over(tt, p, Len(tt)) /\ d = Seg(p, LenIn(tt, p))
                      \/ ~SoundBefore(ds, tt, rr, ll, d[Len(d)])
    BY DEF FromFrames
  <2>1. CASE ~SoundBefore(cs, st, rs, ls, d[Len(d)])
    BY <1>6, <2>1
  <2>2. ASSUME NEW p \in StartsOf(cs), Over(st, p, Len(st)), d = Seg(p, LenIn(st, p))
        PROVE  p \in StartsOf(ds) /\ Over(tt, p, Len(tt)) /\ d = Seg(p, LenIn(tt, p))
    <3>1. p \in StartsOf(ds) /\ p \in Nat
      BY <1>4
    <3>2. Over(tt, p, Len(st)) /\ FrameHeaderEnd(p) <= Len(st)
      BY <1>1, <2>2, <3>1, SameLength DEF Over
    <3>3. Over(tt, p, Len(tt))
      BY <1>1, <3>1, <3>2, OverStays
    <3>4. LenIn(tt, p) = LenIn(st, p)
      BY <1>1, <3>1, <3>2, SameLength
    <3> QED BY <2>2, <3>1, <3>3, <3>4
  <2> QED BY <2>1, <2>2 DEF ParserInv, FromFrames
<1> QED BY <1>7, <1>8, <1>9 DEF ParserInv

\* What the filter's invariant says, for the lemmas above.
LEMMA LineFiltered ==
  ASSUME IInv, RouteInv, StartInv(calls, stream, resetAt)
  PROVE  /\ Filtered(calls, stream, resetAt) /\ \A r \in resetAt : r \in Nat /\ r <= Len(stream)
         /\ Covered(calls) \in Nat /\ Len(stream) \in Nat /\ Held \in Nat
         /\ Len(stream) = Covered(calls) + Held
         /\ \A p \in StartsOf(calls) :
              /\ p \in Nat /\ p + Len(Magic) <= Covered(calls) /\ p < Covered(calls)
              /\ phase \in {"Idle", "Magic"} => DoneBy(stream, resetAt, p, Covered(calls))
<1>1. /\ calls \in Seq(CallType) /\ stream \in Seq(Byte) /\ resetAt \in SUBSET Nat
      /\ Tiles(calls) /\ Ordered(calls) /\ Routed(calls, stream, resetAt)
      /\ Len(stream) = Covered(calls) + Held
  BY DEF IInv, TypeOK, Tiling, RouteInv
<1>2. Covered(calls) \in Nat /\ Len(stream) \in Nat
  BY <1>1, CoveredIsNat, LenProperties
<1>3. Held \in Nat
  <2>1. Len(Magic) \in Nat
    BY MagicAssumption
  <2> QED BY <2>1 DEF IInv, TypeOK, Held, HeaderLen
<1>4. Covered(calls) <= Len(stream) /\ Len(stream) - Held = Covered(calls)
  BY <1>1, <1>2, <1>3
<1>5. ASSUME NEW r \in resetAt PROVE r \in Nat /\ r <= Len(stream)
  <2>1. r \in Nat /\ r <= Covered(calls)
    BY <1>1, <1>4 DEF RouteInv, FrameInv
  <2> QED BY <1>2, <1>4, <2>1
<1>6. Filtered(calls, stream, resetAt)
  BY <1>1, <1>4 DEF Filtered
<1>7. ASSUME NEW p \in StartsOf(calls)
      PROVE  /\ p \in Nat /\ p + Len(Magic) <= Covered(calls) /\ p < Covered(calls)
             /\ phase \in {"Idle", "Magic"} => DoneBy(stream, resetAt, p, Covered(calls))
  <2>1. p \in Nat /\ p + Len(Magic) <= Covered(calls)
    BY DEF StartInv
  <2>2. Len(Magic) \in Nat /\ Len(Magic) > 1
    BY LineSizes
  <2>3. p < Covered(calls)
    BY <1>2, <2>1, <2>2
  <2>4. phase \in {"Idle", "Magic"} => DoneBy(stream, resetAt, p, Covered(calls))
    BY <1>4 DEF RouteInv, FrameInv
  <2> QED BY <2>1, <2>3, <2>4
<1> QED BY <1>1, <1>2, <1>3, <1>5, <1>6, <1>7

\* Where frames begin, one step later.
LEMMA StartGrown ==
  ASSUME NEW cs, NEW st, NEW rs, NEW ls, NEW ds, NEW tt, NEW rr, NEW ll,
         Filtered(cs, st, rs), ds \in Seq(CallType), tt \in Seq(Byte), rr \in SUBSET Nat,
         Grown(cs, st, rs, ls, ds, tt, rr, ll), Covered(cs) <= Covered(ds),
         \A p \in StartsOf(ds) : p \notin StartsOf(cs) =>
           /\ p = Covered(cs) /\ p + Len(Magic) <= Covered(ds) /\ MagicAfter(tt, p, Len(Magic))
           /\ \A q \in StartsOf(cs) : DoneBy(st, rs, q, p)
  PROVE  StartInv(ds, tt, rr)
<1>1. /\ cs \in Seq(CallType) /\ st \in Seq(Byte) /\ Len(st) \in Nat /\ Len(tt) \in Nat
      /\ Covered(cs) \in Nat /\ Covered(ds) \in Nat /\ Covered(cs) <= Len(st)
      /\ Len(st) <= Len(tt) /\ Len(Magic) \in Nat /\ Len(Magic) > 1
      /\ rs \subseteq Nat /\ rs \subseteq rr /\ \A i \in 1..Len(st) : tt[i] = st[i]
  BY CoveredIsNat, LenProperties, LineSizes DEF Filtered, Grown
<1>2. ASSUME NEW p \in StartsOf(cs)
      PROVE  /\ p \in Nat /\ p + Len(Magic) <= Covered(cs) /\ p <= Len(st)
             /\ MagicAfter(st, p, Len(Magic))
  <2>1. p \in Nat /\ p + Len(Magic) <= Covered(cs) /\ MagicAfter(st, p, Len(Magic))
    BY DEF Filtered, StartInv
  <2> QED BY <1>1, <2>1
<1>3. ASSUME NEW p \in StartsOf(ds)
      PROVE  /\ p \in Nat /\ p + Len(Magic) <= Covered(ds) /\ MagicAfter(tt, p, Len(Magic))
  <2>1. CASE p \in StartsOf(cs)
    <3>1. p \in Nat /\ p + Len(Magic) <= Covered(ds)
      BY <1>1, <1>2, <2>1
    <3>2. ASSUME NEW k \in 1..Len(Magic) PROVE tt[p + k] = Magic[k]
      <4>1. st[p + k] = Magic[k]
        BY <1>2, <2>1 DEF MagicAfter
      <4>2. p + k \in 1..Len(st)
        BY <1>1, <1>2, <2>1
      <4> QED BY <1>1, <4>1, <4>2
    <3> QED BY <3>1, <3>2 DEF MagicAfter
  <2>2. CASE p \notin StartsOf(cs)
    BY <1>1, <2>2
  <2> QED BY <2>1, <2>2
<1>4. ASSUME NEW p \in StartsOf(ds), NEW q \in StartsOf(ds), p < q PROVE DoneBy(tt, rr, p, q)
  <2>1. p \in StartsOf(cs)
    <3>1. ASSUME p \notin StartsOf(cs) PROVE FALSE
      <4>1. p = Covered(cs)
        BY <3>1
      <4>2. q = Covered(cs) \/ q + Len(Magic) <= Covered(cs)
        BY <1>2
      <4> QED BY <1>1, <1>3, <1>4, <4>1, <4>2
    <3> QED BY <3>1
  <2>2. q \in Nat /\ q <= Len(st) /\ p \in Nat
    <3>1. CASE q \in StartsOf(cs)
      BY <1>2, <2>1, <3>1
    <3>2. CASE q \notin StartsOf(cs)
      BY <1>1, <1>2, <2>1, <3>2
    <3> QED BY <3>1, <3>2
  <2>3. DoneBy(st, rs, p, q)
    <3>1. CASE q \in StartsOf(cs)
      BY <1>4, <2>1, <3>1 DEF Filtered, StartInv
    <3>2. CASE q \notin StartsOf(cs)
      BY <2>1, <3>2
    <3> QED BY <3>1, <3>2
  <2>4. q <= q
    BY <2>2
  <2> QED BY <1>1, <2>2, <2>3, <2>4, DoneStays
<1> QED BY <1>3, <1>4 DEF StartInv

\* What one more call gives the library.
LEMMA ImprovAppend ==
  ASSUME NEW cs \in Seq(CallType), NEW c \in CallType
  PROVE  \A j : Improv(Append(cs, c), j) <=>
                  Improv(cs, j) \/ (c.sink = "improv" /\ c.from <= j /\ j <= c.to)
<1> DEFINE ds == Append(cs, c)
<1>1. /\ Len(cs) \in Nat /\ Len(ds) = Len(cs) + 1
      /\ \A k \in 1..Len(cs) : ds[k] = cs[k]
      /\ ds[Len(cs) + 1] = c
      /\ \A k \in 1..Len(ds) : k \in 1..Len(cs) \/ k = Len(cs) + 1
  BY CallsAppend
<1> HIDE DEF ds
<1>2. \A k \in 1..Len(cs) : k \in 1..Len(ds)
  BY <1>1
<1>3. Len(cs) + 1 \in 1..Len(ds)
  BY <1>1
<1>4. ASSUME NEW j, Improv(ds, j)
      PROVE  Improv(cs, j) \/ (c.sink = "improv" /\ c.from <= j /\ j <= c.to)
  <2>1. PICK k \in 1..Len(ds) : ds[k].from <= j /\ j <= ds[k].to /\ ds[k].sink = "improv"
    BY <1>4 DEF Improv
  <2>2. CASE k \in 1..Len(cs)
    BY <1>1, <2>1, <2>2 DEF Improv
  <2>3. CASE k = Len(cs) + 1
    BY <1>1, <2>1, <2>3
  <2> QED BY <1>1, <2>2, <2>3
<1>5. ASSUME NEW j, Improv(cs, j) PROVE Improv(ds, j)
  BY <1>1, <1>2, <1>5 DEF Improv
<1>6. ASSUME NEW j, c.sink = "improv", c.from <= j, j <= c.to PROVE Improv(ds, j)
  BY <1>1, <1>3, <1>6 DEF Improv
<1>7. \A j : Improv(ds, j) <=> Improv(cs, j) \/ (c.sink = "improv" /\ c.from <= j /\ j <= c.to)
  BY <1>4, <1>5, <1>6
<1> QED BY <1>7 DEF ds

\* Nothing that is not passed on.
LEMMA ImprovCovered ==
  ASSUME NEW cs \in Seq(CallType), Ordered(cs), NEW j \in Nat, Improv(cs, j)
  PROVE  j <= Covered(cs)
<1>1. PICK k \in 1..Len(cs) : j <= cs[k].to
  BY DEF Improv
<1>2. cs[k].to <= Covered(cs)
  BY DEF Ordered
<1>3. cs[k].to \in Nat /\ Covered(cs) \in Nat
  <2>1. cs[k] \in CallType
    BY ElementOfSeq
  <2> QED BY <2>1, CoveredIsNat DEF CallType
<1> QED BY <1>1, <1>2, <1>3

\* Calls that follow on: what they cover, and whether it is for the library.
Follows(cs, ds, new) ==
  /\ ds \in Seq(CallType)
  /\ Len(cs) <= Len(ds) /\ \A k \in 1..Len(cs) : ds[k] = cs[k]
  /\ Covered(cs) <= Covered(ds)
  /\ \A j \in Nat : Improv(ds, j) <=>
       Improv(cs, j) \/ (new /\ Covered(cs) < j /\ j <= Covered(ds))

\* No call, ...
LEMMA FollowsNone ==
  ASSUME NEW cs \in Seq(CallType) PROVE Follows(cs, cs, FALSE)
<1>1. Len(cs) \in Nat /\ Covered(cs) \in Nat
  BY CoveredIsNat, LenProperties
<1> QED BY <1>1 DEF Follows

\* ... and one, that begins where the last ended.
LEMMA FollowsOne ==
  ASSUME NEW cs \in Seq(CallType), Tiles(cs), NEW c \in CallType,
         c.from = Covered(cs) + 1, c.from <= c.to
  PROVE  /\ Follows(cs, Append(cs, c), c.sink = "improv")
         /\ Covered(Append(cs, c)) = c.to /\ Tiles(Append(cs, c))
         /\ Len(Append(cs, c)) = Len(cs) + 1 /\ Append(cs, c)[Len(cs) + 1] = c
<1> DEFINE ds == Append(cs, c)
<1>1. ds \in Seq(CallType) /\ Tiles(ds) /\ Covered(ds) = c.to
  BY TilesAppend
<1>2. /\ Len(cs) \in Nat /\ Len(ds) = Len(cs) + 1 /\ ds[Len(cs) + 1] = c
      /\ \A k \in 1..Len(cs) : ds[k] = cs[k] /\ c.from \in Nat /\ c.to \in Nat
      /\ Covered(cs) \in Nat
  BY CallsAppend, CoveredIsNat
<1>3. \A j : Improv(ds, j) <=> Improv(cs, j) \/ (c.sink = "improv" /\ c.from <= j /\ j <= c.to)
  BY ImprovAppend
<1> HIDE DEF ds
<1>4. c.from \in Nat /\ c.to \in Nat
  BY DEF CallType
<1>5. \A j \in Nat : c.from <= j <=> Covered(cs) < j
  BY <1>2
<1>6. Covered(cs) <= Covered(ds) /\ Len(cs) <= Len(ds)
  BY <1>1, <1>2, <1>4
<1>7. Follows(cs, ds, c.sink = "improv")
  BY <1>1, <1>2, <1>3, <1>5, <1>6 DEF Follows
<1> QED BY <1>1, <1>2, <1>7 DEF ds

-----------------------------------------------------------------------------
(* One byte through the filter, and what of it reaches the buffer *)

\* n bytes were put behind the queue; new: the calls made are for the library.
Sent(n, new) ==
  /\ Follows(calls, calls', new)
  /\ n > 0 => new
  /\ n <= Covered(calls') - Covered(calls)
  /\ queue' \in Seq(Nat) /\ Len(queue') = Len(queue) + n /\ Len(queue') <= Capacity
  /\ \A m \in 1..Len(queue) : queue'[m] = queue[m]
  /\ \A m \in 1..n : queue'[Len(queue) + m] = Covered(calls) + m
  /\ lost \subseteq lost'
  /\ \A j \in lost' : j \in lost \/
       (j \in Nat /\ new /\ Covered(calls) + n < j /\ j <= Covered(calls') /\ Len(queue') = Capacity)
  /\ \A j \in Nat :
       new /\ Covered(calls) + n < j /\ j <= Covered(calls') => j \in lost'

\* Arithmetic of places behind the queue, by itself.
LEMMA Behind ==
  ASSUME NEW a \in Nat, NEW n \in Nat, NEW m \in 1..n
  PROVE  \E z \in 1..(a + n) : z = a + m /\ ~(z <= a) /\ z - a = m
<1>1. PICK z \in Nat : z = a + m
  OBVIOUS
<1>2. z \in 1..(a + n) /\ ~(z <= a) /\ z - a = m
  BY <1>1
<1> QED BY <1>1, <1>2

\* xStreamBufferSend() of the positions f..t.
LEMMA SendStep ==
  ASSUME queue \in Seq(Nat), Len(queue) <= Capacity, NEW f \in Nat, NEW t \in Nat, f <= t,
         Send([i \in 1..(t - f + 1) |-> f + i - 1])
  PROVE  \E n \in Nat :
           /\ n <= t - f + 1 /\ Len(queue) + n <= Capacity
           /\ n < t - f + 1 => Len(queue) + n = Capacity
           /\ queue' \in Seq(Nat) /\ Len(queue') = Len(queue) + n
           /\ \A m \in 1..Len(queue) : queue'[m] = queue[m]
           /\ \A m \in 1..n : queue'[Len(queue) + m] = f + m - 1
           /\ lost \subseteq lost'
           /\ \A j \in lost' : j \in lost \/ (j \in Nat /\ f + n <= j /\ j <= t)
           /\ \A j \in Nat : f + n <= j /\ j <= t => j \in lost'
<1> PICK l \in Nat : l = t - f + 1
  <2>1. t - f + 1 \in Nat
    OBVIOUS
  <2> QED BY <2>1
<1> DEFINE ps == [i \in 1..(t - f + 1) |-> f + i - 1]
<1>1. Len(queue) \in Nat /\ Capacity \in Nat
  BY CapacityAssumption, LenProperties
<1>2. \A i \in 1..l : f + i - 1 \in Nat
  OBVIOUS
<1>3. ps \in [1..l -> Nat] /\ \A i \in 1..l : ps[i] = f + i - 1
  BY <1>2
<1>4. ps \in Seq(Nat) /\ Len(ps) = l
  <2> HIDE DEF ps
  <2>1. ps \in Seq(Nat)
    BY <1>3, SeqDef
  <2> QED BY <1>3, <2>1, LenProperties
<1> HIDE DEF ps
<1>5. PICK n \in Nat :
        /\ n = Min({Space, Len(ps)}) /\ n <= l /\ Len(queue) + n <= Capacity
        /\ n < l => Len(queue) + n = Capacity
  <2>1. PICK a \in Nat : a = Space /\ Len(queue) + a = Capacity
    <3>1. Capacity - Len(queue) \in Nat
      BY <1>1
    <3>2. Len(queue) + (Capacity - Len(queue)) = Capacity
      BY <1>1
    <3> QED BY <3>1, <3>2 DEF Space
  <2>2. Min({a, l}) = IF a <= l THEN a ELSE l
    BY MinOfTwo
  <2>3. CASE a <= l
    BY <1>4, <2>1, <2>2, <2>3
  <2>4. CASE ~(a <= l)
    <3>1. l <= l /\ Len(queue) + l <= Capacity
      BY <1>1, <2>1, <2>4
    <3> QED BY <1>4, <2>1, <2>2, <2>4, <3>1
  <2> QED BY <2>3, <2>4
<1>6. /\ queue' = queue \o SubSeq(ps, 1, n)
      /\ lost' = lost \cup {ps[i] : i \in (n + 1)..Len(ps)}
  BY <1>5 DEF Send, ps
<1> DEFINE r == SubSeq(ps, 1, n)
<1>7. r \in Seq(Nat) /\ Len(r) = n /\ \A m \in 1..n : r[m] = f + m - 1
  <2>1. \A m \in 1..n : m \in 1..l
    BY <1>5
  <2>2. \A m \in 1..n : ps[m] \in Nat /\ ps[m] = f + m - 1
    BY <1>3, <2>1
  <2>3. 1 \in Int /\ n \in Int /\ n - 1 + 1 = n /\ (1 <= n \/ n = 0)
    OBVIOUS
  <2>4. /\ r \in Seq(Nat) /\ Len(r) = IF 1 <= n THEN n - 1 + 1 ELSE 0
        /\ \A m \in 1..(n - 1 + 1) : r[m] = ps[1 + m - 1]
    BY <2>2, <2>3, SubSeqProperties
  <2> HIDE DEF r
  <2>5. Len(r) = n
    BY <2>3, <2>4
  <2>6. ASSUME NEW m \in 1..n PROVE r[m] = f + m - 1
    <3>1. 1 + m - 1 = m
      OBVIOUS
    <3> QED BY <2>2, <2>3, <2>4, <3>1
  <2> QED BY <2>4, <2>5, <2>6
<1> HIDE DEF r
<1>8. queue' = queue \o r
  BY <1>6 DEF r
<1>9. /\ queue' \in Seq(Nat) /\ Len(queue') = Len(queue) + n
      /\ \A m \in 1..Len(queue) : queue'[m] = queue[m]
      /\ \A m \in 1..n : queue'[Len(queue) + m] = f + m - 1
  <2>1. queue' \in Seq(Nat) /\ Len(queue') = Len(queue) + n
    BY <1>7, <1>8, ConcatProperties
  <2>2. \A m \in 1..(Len(queue) + n) :
          queue'[m] = IF m <= Len(queue) THEN queue[m] ELSE r[m - Len(queue)]
    BY <1>7, <1>8, ConcatProperties
  <2>3. ASSUME NEW m \in 1..Len(queue) PROVE queue'[m] = queue[m]
    <3>1. m \in 1..(Len(queue) + n) /\ m <= Len(queue)
      BY <1>1
    <3> QED BY <2>2, <3>1
  <2>4. ASSUME NEW m \in 1..n PROVE queue'[Len(queue) + m] = f + m - 1
    <3>1. PICK a \in Nat : a = Len(queue)
      BY <1>1
    <3>2. PICK z \in 1..(a + n) : z = a + m /\ ~(z <= a) /\ z - a = m
      BY Behind
    <3>3. queue'[z] = r[z - a]
      BY <2>2, <3>1, <3>2
    <3> QED BY <1>7, <3>1, <3>2, <3>3
  <2> QED BY <2>1, <2>3, <2>4
<1>10. ASSUME NEW j \in lost', j \notin lost PROVE j \in Nat /\ f + n <= j /\ j <= t
  <2>1. PICK i \in (n + 1)..l : j = ps[i]
    BY <1>4, <1>6, <1>10
  <2>2. i \in 1..l
    OBVIOUS
  <2>3. j = f + i - 1
    BY <1>3, <2>1, <2>2
  <2> QED BY <2>3
<1>11. ASSUME NEW j \in Nat, f + n <= j, j <= t PROVE j \in lost'
  <2>1. PICK i \in (n + 1)..l : j = f + i - 1
    <3>1. j - f + 1 \in (n + 1)..l /\ j = f + (j - f + 1) - 1
      BY <1>11
    <3> QED BY <3>1
  <2>2. i \in 1..l
    OBVIOUS
  <2>3. j = ps[i]
    BY <1>3, <2>1, <2>2
  <2> QED BY <1>4, <1>6, <2>3
<1>12. lost \subseteq lost'
  BY <1>6
<1> QED BY <1>5, <1>9, <1>10, <1>11, <1>12

\* No call for the library: nothing was sent.
LEMMA NothingSent ==
  ASSUME calls \in Seq(CallType), queue \in Seq(Nat), Len(queue) <= Capacity,
         Follows(calls, calls', FALSE), UNCHANGED <<queue, lost>>
  PROVE  Sent(0, FALSE)
<1>1. Len(queue) \in Nat /\ Covered(calls) \in Nat /\ Covered(calls') \in Nat
      /\ Covered(calls) <= Covered(calls')
  BY CoveredIsNat, LenProperties DEF Follows
<1>2. 0 <= Covered(calls') - Covered(calls) /\ Len(queue') = Len(queue) + 0
  BY <1>1
<1>3. \A m : m \notin 1..0
  OBVIOUS
<1>4. queue' = queue /\ lost' = lost
  OBVIOUS
<1>5. \A m \in 1..0 : queue'[Len(queue) + m] = Covered(calls) + m
  BY <1>3
<1>6. queue' \in Seq(Nat) /\ Len(queue') <= Capacity /\ \A m \in 1..Len(queue) : queue'[m] = queue[m]
  BY <1>4
<1>7. /\ lost \subseteq lost'
      /\ \A j \in lost' : j \in lost
  BY <1>4
<1>8. ~(0 > 0)
  OBVIOUS
<1> QED BY <1>2, <1>5, <1>6, <1>7, <1>8 DEF Sent

\* One call, written to the buffer if it is for the library.
LEMMA OneSent ==
  ASSUME calls \in Seq(CallType), Tiles(calls), queue \in Seq(Nat), Len(queue) <= Capacity,
         NEW b, RxByte(b), NEW c \in CallType, calls' = Append(calls, c),
         c.from = Covered(calls) + 1, c.from <= c.to
  PROVE  \E n \in Nat : \E new \in BOOLEAN : Sent(n, new)
<1>1. /\ Follows(calls, calls', c.sink = "improv") /\ Covered(calls') = c.to
      /\ Len(calls') = Len(calls) + 1 /\ calls'[Len(calls')] = c
      /\ Len(calls) \in Nat /\ Covered(calls) \in Nat /\ c.from \in Nat /\ c.to \in Nat
  <2>1. c.from \in Nat /\ c.to \in Nat
    BY DEF CallType
  <2>2. Len(calls) \in Nat /\ Covered(calls) \in Nat
    BY CoveredIsNat, LenProperties
  <2>3. /\ Follows(calls, calls', c.sink = "improv") /\ Covered(calls') = c.to
        /\ Len(calls') = Len(calls) + 1 /\ calls'[Len(calls) + 1] = c
    BY FollowsOne
  <2> QED BY <2>1, <2>2, <2>3
<1>2. calls' # calls
  BY <1>1
<1>3. CASE c.sink = "improv"
  <2>1. Send([i \in 1..(c.to - c.from + 1) |-> c.from + i - 1])
    BY <1>1, <1>2, <1>3 DEF RxByte
  <2>2. PICK f \in Nat : f = c.from /\ f = Covered(calls) + 1
    BY <1>1
  <2>3. PICK t \in Nat : t = c.to /\ t = Covered(calls') /\ f <= t
    BY <1>1, <2>2
  <2>4. Send([i \in 1..(t - f + 1) |-> f + i - 1])
    BY <2>1, <2>2, <2>3
  <2>5. PICK n \in Nat :
           /\ n <= t - f + 1 /\ Len(queue) + n <= Capacity
           /\ n < t - f + 1 => Len(queue) + n = Capacity
           /\ queue' \in Seq(Nat) /\ Len(queue') = Len(queue) + n
           /\ \A m \in 1..Len(queue) : queue'[m] = queue[m]
           /\ \A m \in 1..n : queue'[Len(queue) + m] = f + m - 1
           /\ lost \subseteq lost'
           /\ \A j \in lost' : j \in lost \/ (j \in Nat /\ f + n <= j /\ j <= t)
           /\ \A j \in Nat : f + n <= j /\ j <= t => j \in lost'
    BY <2>3, <2>4, SendStep
  <2>6. n <= Covered(calls') - Covered(calls)
    <3>1. PICK o \in Nat : o = Covered(calls) /\ f = o + 1
      BY <1>1, <2>2
    <3>2. n <= t - f + 1
      BY <2>5
    <3>3. n <= t - o
      BY <3>1, <3>2
    <3> QED BY <2>3, <3>1, <3>3
  <2>7. \A j \in Nat : f + n <= j <=> Covered(calls) + n < j
    BY <1>1, <2>2
  <2>8. ASSUME NEW m \in 1..n PROVE queue'[Len(queue) + m] = Covered(calls) + m
    <3>1. f + m - 1 = Covered(calls) + m
      BY <1>1, <2>2
    <3> QED BY <2>5, <3>1
  <2>9. ASSUME NEW j \in lost', j \notin lost
        PROVE  /\ j \in Nat /\ Covered(calls) + n < j /\ j <= Covered(calls')
               /\ Len(queue') = Capacity
    <3>1. j \in Nat /\ f + n <= j /\ j <= t
      BY <2>5, <2>9
    <3>2. n < t - f + 1
      BY <3>1
    <3> QED BY <2>3, <2>5, <2>7, <3>1, <3>2
  <2>10. Follows(calls, calls', TRUE)
    BY <1>1, <1>3
  <2>11. Len(queue') <= Capacity
    BY <2>5
  <2>12. \A j \in Nat : Covered(calls) + n < j /\ j <= Covered(calls') => j \in lost'
    BY <2>3, <2>5, <2>7
  <2>13. Sent(n, TRUE)
    BY <2>5, <2>6, <2>8, <2>9, <2>10, <2>11, <2>12 DEF Sent
  <2> QED BY <2>13
<1>4. CASE c.sink # "improv"
  <2>1. UNCHANGED <<queue, lost>>
    BY <1>1, <1>2, <1>4 DEF RxByte
  <2>2. Follows(calls, calls', FALSE)
    BY <1>1, <1>4 DEF Follows
  <2>3. Sent(0, FALSE)
    BY <2>1, <2>2, NothingSent
  <2> QED BY <2>3
<1> QED BY <1>3, <1>4

\* Whatever the byte does, it sends some part of what it routes, and finds a frame
\* exactly where a magic is complete.
LEMMA RxSent ==
  ASSUME IInv, queue \in Seq(Nat), Len(queue) <= Capacity, NEW b \in Byte, RxByte(b)
  PROVE  /\ \E n \in Nat : \E new \in BOOLEAN : Sent(n, new)
         /\ \A p : p \in StartsOf(calls') <=>
              p \in StartsOf(calls) \/ (MagicCompletes(b) /\ p = Covered(calls))
<1>1. Feed(b) /\ Fed(b)
  <2>1. Feed(b)
    BY DEF RxByte
  <2> QED BY <2>1, FeedIsFed
<1>2. /\ calls \in Seq(CallType) /\ Tiles(calls) /\ Covered(calls) \in Nat /\ Held \in Nat
      /\ Len(stream) \in Nat /\ Len(stream) = Covered(calls) + Held /\ Here = Len(stream) + 1
      /\ Len(Magic) \in Nat /\ Len(Magic) > 1 /\ "console" \in Sinks /\ "improv" \in Sinks
  BY <1>1 DEF Fed, Sinks
<1>3. PICK o \in Nat : o = Covered(calls)
  BY <1>2
<1>4. CASE IdleHolds(b) \/ MagicGoesOn(b)
  <2>1. calls' = calls /\ ~MagicCompletes(b)
    BY <1>2, <1>4 DEF IdleHolds, MagicGoesOn, MagicCompletes
  <2>2. UNCHANGED <<queue, lost>>
    BY <2>1 DEF RxByte
  <2>3. Follows(calls, calls', FALSE)
    BY <1>2, <2>1, FollowsNone
  <2>4. Sent(0, FALSE)
    BY <1>2, <2>2, <2>3, NothingSent
  <2> QED BY <2>1, <2>4
<1>5. CASE IdlePasses(b) \/ HeaderByte(b) \/ BodyByte(b)
  <2>1. PICK sink \in Sinks : calls' = Append(calls, Call(sink, Here, Here))
    BY <1>2, <1>5 DEF IdlePasses, HeaderByte, BodyByte
  <2>2. Held = 0 /\ ~MagicCompletes(b)
    BY <1>5 DEF IdlePasses, HeaderByte, BodyByte, MagicCompletes, Held
  <2> DEFINE c == Call(sink, Here, Here)
  <2>3. Here = o + 1 /\ Here \in Nat
    BY <1>2, <1>3, <2>2
  <2>4. c \in CallType /\ c.from = Here /\ c.to = Here
    BY <2>3, CallInType
  <2> HIDE DEF c
  <2>5. c.from = Covered(calls) + 1 /\ c.from <= c.to /\ c.to - c.from + 1 # Len(Magic)
    <3>1. PICK y \in Nat : y = Here /\ y = o + 1
      BY <2>3
    <3>2. c.from = y /\ c.to = y
      BY <2>4, <3>1
    <3>3. y <= y /\ y - y + 1 # Len(Magic)
      <4>1. PICK m \in Nat : m = Len(Magic) /\ m > 1
        BY LineSizes
      <4> QED BY <4>1
    <3> QED BY <1>3, <3>1, <3>2, <3>3
  <2>6. calls' = Append(calls, c)
    BY <2>1 DEF c
  <2>7. \E n \in Nat : \E new \in BOOLEAN : Sent(n, new)
    BY <1>2, <2>4, <2>5, <2>6, OneSent
  <2>8. \A p : p \in StartsOf(calls') <=> p \in StartsOf(calls)
    BY <1>2, <2>4, <2>5, <2>6, StartsAppend
  <2> QED BY <2>2, <2>7, <2>8
<1>6. CASE MagicCompletes(b)
  <2> DEFINE c == Call("improv", Here - holdN, Here)
  <2>1. calls' = Append(calls, c) /\ holdN + 1 = Len(Magic) /\ holdN = Held
    BY <1>6 DEF MagicCompletes, Held
  <2>2. Here - holdN = o + 1 /\ Here - holdN \in Nat /\ Here \in Nat
        /\ Here - (o + 1) + 1 = Len(Magic) /\ o + 1 <= Here
    <3>1. PICK m \in Nat : m = Len(Magic) /\ m > 1
      BY <1>2
    <3>2. PICK x \in Nat : x = holdN /\ x + 1 = m /\ Here = o + x + 1
      BY <1>2, <1>3, <2>1, <3>1
    <3>3. PICK y \in Nat : y = Here /\ y = o + x + 1
      BY <3>2
    <3>4. y - x = o + 1 /\ y - x \in Nat /\ y - (o + 1) + 1 = m /\ o + 1 <= y
      BY <3>1, <3>2, <3>3
    <3> QED BY <3>1, <3>2, <3>3, <3>4
  <2>3. c \in CallType /\ c.from = Here - holdN /\ c.to = Here
    <3>1. PICK f, t \in Nat : f = Here - holdN /\ t = Here
      BY <2>2
    <3>2. c = Call("improv", f, t)
      BY <3>1
    <3> HIDE DEF c
    <3>3. "improv" \in Sinks
      BY DEF Sinks
    <3> QED BY <3>1, <3>2, <3>3, CallInType
  <2> HIDE DEF c
  <2>4. c.from = o + 1 /\ c.from <= c.to /\ c.to - c.from + 1 = Len(Magic)
    BY <2>2, <2>3
  <2>5. \E n \in Nat : \E new \in BOOLEAN : Sent(n, new)
    BY <1>2, <1>3, <2>1, <2>3, <2>4, OneSent
  <2>6. \A p : p \in StartsOf(calls') <=> p \in StartsOf(calls) \/ p = c.from - 1
    BY <1>2, <2>1, <2>3, <2>4, StartsAppend
  <2>7. c.from - 1 = Covered(calls)
    BY <1>3, <2>4
  <2> QED BY <1>6, <2>5, <2>6, <2>7
<1>7. CASE MagicBreaks(b)
  <2> DEFINE c == Call("console", Here - holdN, Here - 1)
             d == Call("console", Here, Here)
             cs == Append(calls, c)
  <2>1. /\ calls' = Append(cs, d) /\ phase = "Magic" /\ holdN = Held
        /\ ~MagicCompletes(b)
    BY <1>7 DEF MagicBreaks, MagicCompletes, Held
  <2>2. holdN \in 1..(Len(Magic) - 1)
    BY <2>1 DEF IInv, HoldIsMagic
  <2>3. Here - holdN = o + 1 /\ o + 1 \in Nat /\ Here \in Nat /\ Here - 1 \in Nat
        /\ o + 1 <= Here - 1 /\ Here - 1 - (o + 1) + 1 # Len(Magic)
    <3>1. PICK m \in Nat : m = Len(Magic) /\ m > 1
      BY <1>2
    <3>2. PICK x \in 1..(m - 1) : x = holdN /\ Here = o + x + 1
      BY <1>2, <1>3, <2>1, <2>2, <3>1
    <3>3. PICK y \in Nat : y = Here /\ y = o + x + 1
      BY <3>2
    <3>4. y - x = o + 1 /\ y - 1 \in Nat /\ o + 1 <= y - 1 /\ y - 1 - (o + 1) + 1 # m
      BY <3>1, <3>2, <3>3
    <3> QED BY <3>1, <3>2, <3>3, <3>4
  <2>4. c \in CallType /\ c.from = o + 1 /\ c.to = Here - 1 /\ c.sink # "improv"
    <3>1. PICK f, t \in Nat : f = Here - holdN /\ f = o + 1 /\ t = Here - 1
      BY <2>3
    <3>2. c = Call("console", f, t)
      BY <3>1
    <3> HIDE DEF c
    <3>3. c \in CallType /\ c.from = f /\ c.to = t
      <4>1. "console" \in Sinks
        BY DEF Sinks
      <4> QED BY <3>2, <4>1, CallInType
    <3> QED BY <3>1, <3>2, <3>3, CallSinks
  <2>5. d \in CallType /\ d.from = Here /\ d.to = Here /\ d.sink # "improv"
    <3>1. PICK t \in Nat : t = Here
      BY <2>3
    <3>2. d = Call("console", t, t)
      BY <3>1
    <3> HIDE DEF d
    <3>3. d \in CallType /\ d.from = t /\ d.to = t
      <4>1. "console" \in Sinks
        BY DEF Sinks
      <4> QED BY <3>2, <4>1, CallInType
    <3> QED BY <3>1, <3>2, <3>3, CallSinks
  <2> HIDE DEF c, d
  <2>6. /\ Follows(calls, cs, FALSE) /\ Covered(cs) = Here - 1 /\ Tiles(cs)
        /\ Len(cs) = Len(calls) + 1 /\ cs \in Seq(CallType)
    <3>1. c.from = Covered(calls) + 1 /\ c.from <= c.to
      BY <1>3, <2>3, <2>4
    <3>2. /\ Follows(calls, cs, c.sink = "improv") /\ Covered(cs) = c.to /\ Tiles(cs)
          /\ Len(cs) = Len(calls) + 1
      BY <1>2, <2>4, <3>1, FollowsOne
    <3>3. Follows(calls, cs, FALSE)
      BY <2>4, <3>2 DEF Follows
    <3> QED BY <2>4, <3>2, <3>3 DEF Follows
  <2>7. \A p : p \in StartsOf(cs) <=> p \in StartsOf(calls)
    BY <1>2, <2>3, <2>4, StartsAppend
  <2> HIDE DEF cs
  <2>8. /\ Follows(cs, calls', FALSE) /\ Len(calls') = Len(cs) + 1
        /\ calls'[Len(cs) + 1] = d
    <3>1. d.from = Covered(cs) + 1 /\ d.from <= d.to
      BY <2>3, <2>5, <2>6
    <3>2. /\ Follows(cs, calls', d.sink = "improv") /\ Len(calls') = Len(cs) + 1
          /\ calls'[Len(cs) + 1] = d
      BY <2>1, <2>5, <2>6, <3>1, FollowsOne
    <3> QED BY <2>5, <3>2 DEF Follows
  <2>9. \A p : p \in StartsOf(calls') <=> p \in StartsOf(cs)
    <3>1. d.to - d.from + 1 # Len(Magic)
      BY <1>2, <2>3, <2>5
    <3> QED BY <2>1, <2>5, <2>6, <3>1, StartsAppend
  <2>10. UNCHANGED <<queue, lost>>
    <3>1. calls'[Len(calls')].sink # "improv"
      BY <2>5, <2>8
    <3> QED BY <3>1 DEF RxByte
  <2>11. Follows(calls, calls', FALSE)
    <3>1. Len(calls) \in Nat /\ Len(cs) \in Nat /\ Covered(calls) \in Nat /\ Covered(cs) \in Nat
          /\ Covered(calls') \in Nat /\ calls' \in Seq(CallType)
      BY <1>2, <2>6, <2>8, CoveredIsNat, LenProperties DEF Follows
    <3>2. \A k \in 1..Len(calls) : k \in 1..Len(cs)
      BY <2>6, <3>1
    <3>3. \A k \in 1..Len(calls) : calls'[k] = calls[k]
      BY <2>6, <2>8, <3>2 DEF Follows
    <3>4. Len(calls) <= Len(calls')
      BY <2>6, <2>8, <3>1
    <3>5. Covered(calls) <= Covered(calls')
      BY <2>6, <2>8, <3>1 DEF Follows
    <3>6. \A j \in Nat : Improv(calls', j) <=> Improv(calls, j)
      BY <2>6, <2>8 DEF Follows
    <3> QED BY <3>1, <3>3, <3>4, <3>5, <3>6 DEF Follows
  <2>12. Sent(0, FALSE)
    BY <1>2, <2>10, <2>11, NothingSent
  <2> QED BY <2>1, <2>7, <2>9, <2>12
<1> QED BY <1>1, <1>4, <1>5, <1>6, <1>7 DEF Feed

\* The queue has what was routed, but for what was lost.
LEMMA QueueGrown ==
  ASSUME Filtered(calls, stream, resetAt), NEW h, QueueInv(queue, 0, h, calls, lost),
         NEW n \in Nat, NEW new \in BOOLEAN, Sent(n, new)
  PROVE  QueueInv(queue', 0, h, calls', lost')
<1>1. /\ calls \in Seq(CallType) /\ calls' \in Seq(CallType) /\ Ordered(calls)
      /\ queue \in Seq(Nat) /\ Len(queue) \in Nat /\ queue' \in Seq(Nat)
      /\ h \in 0..Covered(calls)
  BY LenProperties DEF Filtered, Sent, Follows, QueueInv
<1>2. PICK o \in Nat : o = Covered(calls)
  BY <1>1, CoveredIsNat
<1>3. PICK t \in Nat : t = Covered(calls') /\ o <= t /\ n <= t - o
  BY <1>1, <1>2, CoveredIsNat DEF Sent, Follows
<1>4. PICK l \in Nat : l = Len(queue) /\ Len(queue') = l + n
  BY <1>1 DEF Sent
<1>5. \A m \in 1..(l + n) : m \in 1..l \/ \E e \in 1..n : m = l + e
  <2> TAKE m \in 1..(l + n)
  <2> SUFFICES ASSUME m \notin 1..l PROVE \E e \in 1..n : m = l + e
    OBVIOUS
  <2>1. m - l \in 1..n /\ m = l + (m - l)
    OBVIOUS
  <2> QED BY <2>1
<1>6. /\ \A m \in 1..l : queue'[m] = queue[m]
      /\ \A e \in 1..n : queue'[l + e] = o + e
  BY <1>2, <1>4 DEF Sent
<1>7. \A m \in 1..l : queue[m] \in Nat /\ h < queue[m] /\ queue[m] <= o /\ Improv(calls, queue[m])
  <2>1. \A m \in 1..l : queue[m] \in Nat
    BY <1>1, <1>4, ElementOfSeq
  <2> QED BY <1>2, <1>4, <2>1 DEF QueueInv
<1>8. h \in Nat /\ h <= o /\ h \in 0..t
  BY <1>1, <1>2, <1>3
<1>9. \A j \in Nat : Improv(calls', j) <=> Improv(calls, j) \/ (new /\ o < j /\ j <= t)
  BY <1>2, <1>3 DEF Sent, Follows
<1>10. ASSUME NEW e \in 1..n
       PROVE  h < o + e /\ o + e <= t /\ Improv(calls', o + e)
  <2>1. new
    BY DEF Sent
  <2>2. h < o + e /\ o + e <= t /\ o < o + e /\ o + e \in Nat
    BY <1>3, <1>8
  <2> QED BY <1>9, <2>1, <2>2
<1>11. ASSUME NEW m \in 1..(l + n)
       PROVE  h < queue'[m] /\ queue'[m] <= t /\ Improv(calls', queue'[m])
  <2>1. CASE m \in 1..l
    <3>1. queue'[m] = queue[m] /\ queue[m] \in Nat /\ h < queue[m] /\ queue[m] <= o
          /\ Improv(calls, queue[m])
      BY <1>6, <1>7, <2>1
    <3>2. Improv(calls', queue[m])
      BY <1>9, <3>1
    <3> QED BY <1>3, <3>1, <3>2
  <2>2. ASSUME NEW e \in 1..n, m = l + e
        PROVE  h < queue'[m] /\ queue'[m] <= t /\ Improv(calls', queue'[m])
    BY <1>6, <1>10, <2>2
  <2> QED BY <1>5, <2>1, <2>2
<1>12. ASSUME NEW m \in 1..(l + n), NEW k \in 1..(l + n), m < k PROVE queue'[m] < queue'[k]
  <2>1. CASE k \in 1..l
    <3>1. m \in 1..l
      BY <1>12, <2>1
    <3>2. queue[m] < queue[k]
      BY <1>4, <1>12, <2>1, <3>1 DEF QueueInv
    <3> QED BY <1>6, <2>1, <3>1, <3>2
  <2>2. ASSUME NEW e \in 1..n, k = l + e PROVE queue'[m] < queue'[k]
    <3>1. queue'[k] = o + e
      BY <1>6, <2>2
    <3>2. CASE m \in 1..l
      <4>1. queue'[m] = queue[m] /\ queue[m] \in Nat /\ queue[m] <= o
        BY <1>6, <1>7, <3>2
      <4> QED BY <3>1, <4>1
    <3>3. ASSUME NEW d \in 1..n, m = l + d PROVE queue'[m] < queue'[k]
      <4>1. queue'[m] = o + d /\ d < e
        BY <1>6, <1>12, <2>2, <3>3
      <4> QED BY <3>1, <4>1
    <3> QED BY <1>5, <3>2, <3>3
  <2> QED BY <1>5, <2>1, <2>2
<1>13. ASSUME NEW j \in (h + 1)..t, Improv(calls', j), j \notin lost'
       PROVE  \E m \in 1..(l + n) : queue'[m] = j
  <2>1. j \in Nat /\ h < j
    BY <1>8
  <2>2. CASE Improv(calls, j)
    <3>1. j <= o /\ j \notin lost
      BY <1>1, <1>2, <1>13, <2>1, <2>2, ImprovCovered DEF Sent
    <3>2. j \in (h + 1)..o
      BY <1>8, <2>1, <3>1
    <3>3. PICK m \in 1..l : queue[m] = j
      BY <1>2, <1>4, <2>2, <3>1, <3>2 DEF QueueInv
    <3>4. m \in 1..(l + n)
      OBVIOUS
    <3> QED BY <1>6, <3>3, <3>4
  <2>3. CASE new /\ o < j /\ j <= t
    <3>1. j <= o + n
      <4>1. o + n < j => j \in lost'
        BY <1>2, <1>3, <2>1, <2>3 DEF Sent
      <4> QED BY <1>13, <2>1, <4>1
    <3>2. PICK e \in 1..n : j = o + e
      <4>1. j - o \in 1..n /\ j = o + (j - o)
        BY <2>1, <2>3, <3>1
      <4> QED BY <4>1
    <3>3. l + e \in 1..(l + n)
      OBVIOUS
    <3> QED BY <1>6, <3>2, <3>3
  <2> QED BY <1>9, <1>13, <2>1, <2>2, <2>3
<1> QED BY <1>1, <1>3, <1>4, <1>8, <1>11, <1>12, <1>13 DEF QueueInv

\* There was room for as much of the frame after p as there was space when it was
\* found.
Roomy(p, space, q, cs, st, rs, ls) ==
  /\ p \in StartsOf(cs) /\ space \in Int
  /\ Kept(st, rs, p) =>
       /\ \A j \in ls : InBytes(st, p, j) => space < j - p
       /\ ~Over(st, p, Len(st)) => Len(q) + space <= Capacity + Len(st) - p
RoomInv(rm, q, cs, st, rs, ls) ==
  /\ Len(q) <= Capacity /\ \A j \in ls : j \in Nat /\ j <= Covered(cs)
  /\ rm \in Seq([start : Nat, space : Int])
  /\ \A k \in 1..Len(rm) : Roomy(rm[k].start, rm[k].space, q, cs, st, rs, ls)

LineInv ==
  /\ IInv /\ RouteInv /\ StartInv(calls, stream, resetAt)
  /\ \E h : /\ QueueInv(queue, 0, h, calls, lost)
            /\ ParserInv(bufAt, dispatched, h, calls, stream, resetAt, lost)
  /\ RoomInv(room, queue, calls, stream, resetAt, lost)

\* LineFiltered, one step later.
LEMMA FilteredNext ==
  ASSUME IInv', RouteInv', StartInv(calls', stream', resetAt')
  PROVE  /\ Filtered(calls', stream', resetAt') /\ Covered(calls') \in Nat /\ Len(stream') \in Nat
         /\ phase' = "Header" => Covered(calls') = Len(stream')
<1>1. /\ calls' \in Seq(CallType) /\ stream' \in Seq(Byte) /\ resetAt' \in SUBSET Nat
      /\ Tiles(calls') /\ Ordered(calls') /\ Routed(calls', stream', resetAt')
      /\ Len(stream') = Covered(calls') + Held'
  BY DEF IInv, TypeOK, Tiling, RouteInv
<1>2. Covered(calls') \in Nat /\ Len(stream') \in Nat
  BY <1>1, CoveredIsNat, LenProperties
<1>3. Held' \in Nat /\ (phase' = "Header" => Held' = 0)
  <2>1. Len(Magic) \in Nat
    BY MagicAssumption
  <2> QED BY <2>1 DEF IInv, TypeOK, Held, HeaderLen
<1>4. Covered(calls') <= Len(stream')
  BY <1>1, <1>2, <1>3
<1> QED BY <1>1, <1>2, <1>3, <1>4 DEF Filtered

\* A byte, and what it sent, leave everything else as it was.
LEMMA RxGrown ==
  ASSUME IInv, RouteInv, StartInv(calls, stream, resetAt), queue \in Seq(Nat),
         Len(queue) <= Capacity, NEW b \in Byte, RxByte(b),
         NEW n, NEW new, Sent(n, new)
  PROVE  /\ IInv' /\ RouteInv' /\ StartInv(calls', stream', resetAt')
         /\ Grown(calls, stream, resetAt, lost, calls', stream', resetAt', lost')
<1>1. Feed(b) /\ Fed(b)
  <2>1. Feed(b)
    BY DEF RxByte
  <2> QED BY <2>1, FeedIsFed
<1>2. IInv' /\ RouteInv'
  BY <1>1, FeedInv, FeedRoute
<1>3. /\ Filtered(calls, stream, resetAt) /\ Covered(calls) \in Nat /\ Len(stream) \in Nat
      /\ \A p \in StartsOf(calls) : p \in Nat /\
           (phase \in {"Idle", "Magic"} => DoneBy(stream, resetAt, p, Covered(calls)))
  BY LineFiltered
<1>4. \A p : p \in StartsOf(calls') <=>
         p \in StartsOf(calls) \/ (MagicCompletes(b) /\ p = Covered(calls))
  BY RxSent
<1>5. /\ stream' \in Seq(Byte) /\ Len(stream') = Len(stream) + 1 /\ resetAt' = resetAt
      /\ \A i \in 1..Len(stream) : stream'[i] = stream[i]
      /\ stream'[Len(stream) + 1] = b
  BY <1>1 DEF Fed
<1>6. Grown(calls, stream, resetAt, lost, calls', stream', resetAt', lost')
  <2>1. /\ Len(calls) <= Len(calls') /\ \A k \in 1..Len(calls) : calls'[k] = calls[k]
        /\ lost \subseteq lost'
    BY DEF Sent, Follows
  <2>2. Len(stream) <= Len(stream')
    BY <1>3, <1>5
  <2>3. \A p \in StartsOf(calls') : p \in StartsOf(calls) \/ Covered(calls) <= p
    BY <1>3, <1>4
  <2> QED BY <1>4, <1>5, <2>1, <2>2, <2>3 DEF Grown
<1>7. ASSUME MagicCompletes(b)
      PROVE  /\ Covered(calls) + Len(Magic) <= Covered(calls')
             /\ MagicAfter(stream', Covered(calls), Len(Magic))
             /\ \A q \in StartsOf(calls) : DoneBy(stream, resetAt, q, Covered(calls))
  <2>1. /\ phase = "Magic" /\ holdN + 1 = Len(Magic) /\ phase' = "Header" /\ b = Magic[holdN + 1]
    BY <1>7 DEF MagicCompletes
  <2>2. PICK x \in Nat : x = holdN /\ x + 1 = Len(Magic)
    <3>1. holdN \in Nat
      BY <2>1 DEF IInv, HoldIsMagic
    <3> QED BY <2>1, <3>1
  <2>3. PICK o \in Nat : o = Covered(calls) /\ Len(stream) = o + x
    <3>1. Len(stream) = Covered(calls) + Held /\ Held = x
      BY <2>1, <2>2 DEF IInv, Tiling, Held
    <3> QED BY <1>3, <3>1
  <2>4. Covered(calls') = Len(stream')
    <3>1. Held' = 0 /\ Len(stream') = Covered(calls') + Held'
      BY <1>2, <2>1 DEF IInv, Tiling, Held
    <3>2. Covered(calls') \in Nat
      BY <1>2, CoveredIsNat DEF IInv, TypeOK
    <3> QED BY <3>1, <3>2
  <2>5. Covered(calls) + Len(Magic) <= Covered(calls')
    BY <1>5, <2>2, <2>3, <2>4
  <2>6. ASSUME NEW k \in 1..Len(Magic) PROVE stream'[o + k] = Magic[k]
    <3>1. k \in 1..x \/ k = x + 1
      BY <2>2
    <3>2. CASE k \in 1..x
      <4>1. stream[Len(stream) - holdN + k] = Magic[k]
        BY <2>1, <2>2, <3>2 DEF IInv, HoldIsMagic
      <4>2. Len(stream) - holdN + k = o + k /\ o + k \in 1..Len(stream)
        BY <2>2, <2>3, <3>2
      <4> QED BY <1>5, <4>1, <4>2
    <3>3. CASE k = x + 1
      <4>1. o + k = Len(stream) + 1
        BY <2>3, <3>3
      <4> QED BY <1>5, <2>1, <2>2, <3>3, <4>1
    <3> QED BY <3>1, <3>2, <3>3
  <2>7. MagicAfter(stream', Covered(calls), Len(Magic))
    BY <2>3, <2>6 DEF MagicAfter
  <2> QED BY <1>3, <2>1, <2>5, <2>7
<1>8. StartInv(calls', stream', resetAt')
  <2>1. calls' \in Seq(CallType) /\ resetAt' \in SUBSET Nat /\ Covered(calls) <= Covered(calls')
    BY <1>3, <1>5 DEF Sent, Follows, Filtered
  <2>2. ASSUME NEW p \in StartsOf(calls'), p \notin StartsOf(calls)
        PROVE  /\ p = Covered(calls) /\ p + Len(Magic) <= Covered(calls')
               /\ MagicAfter(stream', p, Len(Magic))
               /\ \A q \in StartsOf(calls) : DoneBy(stream, resetAt, q, p)
    BY <1>4, <1>7, <2>2
  <2> QED BY <1>3, <1>5, <1>6, <2>1, <2>2, StartGrown
<1> QED BY <1>2, <1>6, <1>8

\* A frame found earlier keeps its space: what is put into the buffer is bytes of it,
\* or comes when it is over.
LEMMA RoomStays ==
  ASSUME IInv, RouteInv, StartInv(calls, stream, resetAt),
         Filtered(calls', stream', resetAt'),
         Grown(calls, stream, resetAt, lost, calls', stream', resetAt', lost'),
         RoomInv(room, queue, calls, stream, resetAt, lost), queue \in Seq(Nat),
         NEW n \in Nat, NEW new \in BOOLEAN, Sent(n, new),
         NEW p, NEW space, Roomy(p, space, queue, calls, stream, resetAt, lost)
  PROVE  Roomy(p, space, queue', calls', stream', resetAt', lost')
<1>1. /\ Filtered(calls, stream, resetAt) /\ Covered(calls) \in Nat /\ Len(stream) \in Nat
      /\ Held \in Nat /\ Len(stream) = Covered(calls) + Held
  BY LineFiltered
<1>2. /\ p \in StartsOf(calls) /\ p \in StartsOf(calls') /\ space \in Int
      /\ p \in Nat /\ p < Covered(calls)
      /\ phase \in {"Idle", "Magic"} => DoneBy(stream, resetAt, p, Covered(calls))
  BY LineFiltered DEF Roomy, Grown
<1>3. /\ stream \in Seq(Byte) /\ stream' \in Seq(Byte) /\ resetAt \in SUBSET Nat
      /\ Len(stream) <= Len(stream') /\ \A i \in 1..Len(stream) : stream'[i] = stream[i]
      /\ resetAt \subseteq resetAt' /\ Len(stream') \in Nat
      /\ Covered(calls') <= Len(stream') /\ Covered(calls) <= Len(stream)
      /\ Covered(calls') \in Nat /\ Len(queue) \in Nat
  <2>1. /\ stream \in Seq(Byte) /\ stream' \in Seq(Byte) /\ resetAt \in SUBSET Nat
        /\ calls' \in Seq(CallType)
        /\ Covered(calls') <= Len(stream') /\ Covered(calls) <= Len(stream)
    BY <1>1 DEF Filtered
  <2>2. /\ Len(stream) <= Len(stream') /\ \A i \in 1..Len(stream) : stream'[i] = stream[i]
        /\ resetAt \subseteq resetAt'
    BY DEF Grown
  <2>3. Len(stream') \in Nat /\ Len(queue) \in Nat
    BY <2>1, LenProperties
  <2>4. Covered(calls') \in Nat
    BY <2>1, CoveredIsNat
  <2> QED BY <2>1, <2>2, <2>3, <2>4
<1> SUFFICES ASSUME Kept(stream', resetAt', p)
             PROVE  /\ \A j \in lost' : InBytes(stream', p, j) => space < j - p
                    /\ ~Over(stream', p, Len(stream')) =>
                         Len(queue') + space <= Capacity + Len(stream') - p
  BY <1>2 DEF Roomy
<1>4. Kept(stream, resetAt, p)
  <2> SUFFICES ASSUME NEW r \in resetAt, ~(r <= p) PROVE Over(stream, p, r)
    BY DEF Kept
  <2>1. r \in Nat /\ r <= Len(stream) /\ r \in resetAt'
    BY <1>3, LineFiltered
  <2>2. Over(stream', p, r)
    BY <2>1 DEF Kept
  <2> QED BY <1>2, <1>3, <2>1, <2>2, SameLength
<1>5. /\ \A j \in lost : InBytes(stream, p, j) => space < j - p
      /\ ~Over(stream, p, Len(stream)) => Len(queue) + space <= Capacity + Len(stream) - p
  BY <1>4 DEF Roomy
<1>6. Over(stream, p, Covered(calls)) \/ Covered(calls) = Len(stream)
  <2>1. CASE phase \in {"Idle", "Magic"}
    BY <1>1, <1>2, <1>3, <1>4, <2>1, DoneIsOver
  <2>2. CASE phase \notin {"Idle", "Magic"}
    <3>1. Held = 0
      BY <2>2 DEF Held
    <3> QED BY <1>1, <3>1
  <2> QED BY <2>1, <2>2
<1>7. CASE Over(stream, p, Covered(calls))
  <2>1. Over(stream', p, Covered(calls))
    BY <1>1, <1>2, <1>3, <1>7, SameLength
  <2>2. Over(stream', p, Len(stream')) /\ \A j \in Nat : InBytes(stream', p, j) => j <= Covered(calls)
    <3>1. Covered(calls) <= Len(stream')
      BY <1>1, <1>3
    <3> QED BY <1>1, <1>2, <1>3, <2>1, <3>1, OverStays
  <2>3. ASSUME NEW j \in lost', InBytes(stream', p, j) PROVE space < j - p
    <3>1. j \in lost
      <4>1. j \in lost \/ (j \in Nat /\ Covered(calls) + n < j)
        BY DEF Sent
      <4>2. CASE j \in Nat /\ Covered(calls) + n < j
        BY <1>1, <2>2, <2>3, <4>2
      <4> QED BY <4>1, <4>2
    <3>2. j \in Nat /\ j <= Covered(calls)
      BY <3>1 DEF RoomInv
    <3>3. InBytes(stream, p, j)
      <4>1. j <= Len(stream)
        BY <1>1, <1>3, <3>2
      <4>2. /\ stream \in Seq(Byte) /\ stream' \in Seq(Byte) /\ Len(stream) <= Len(stream')
            /\ \A i \in 1..Len(stream) : stream'[i] = stream[i]
            /\ p \in Nat
        BY <1>2, <1>3
      <4>3. \A i \in Nat : i <= Len(stream) => (InBytes(stream', p, i) <=> InBytes(stream, p, i))
        BY <4>2, SameLength
      <4> QED BY <2>3, <3>2, <4>1, <4>3
    <3> QED BY <1>5, <3>1, <3>3
  <2> QED BY <2>2, <2>3
<1>8. CASE ~Over(stream, p, Covered(calls)) /\ Covered(calls) = Len(stream)
  <2>1. Len(queue) + space <= Capacity + Len(stream) - p
    BY <1>5, <1>8
  <2>2. PICK o \in Nat : o = Len(stream) /\ o = Covered(calls)
    BY <1>1, <1>8
  <2>3. PICK u \in Nat : u = Len(queue) /\ Len(queue') = u + n /\ u + space <= Capacity + o - p
    BY <1>3, <2>1, <2>2 DEF Sent
  <2>4. Capacity \in Nat
    BY CapacityAssumption
  <2>5. ASSUME NEW j \in lost', InBytes(stream', p, j) PROVE space < j - p
    <3>1. CASE j \in lost
      <4>1. j \in Nat /\ j <= Len(stream)
        BY <1>1, <1>3, <3>1 DEF RoomInv
      <4>2. InBytes(stream, p, j)
        BY <1>2, <1>3, <2>5, <4>1, SameLength
      <4> QED BY <1>5, <3>1, <4>2
    <3>2. CASE j \notin lost
      <4>1. j \in Nat /\ Covered(calls) + n < j /\ Len(queue') = Capacity
        BY <3>2 DEF Sent
      <4>2. o + n < j /\ u + n = Capacity
        BY <2>2, <2>3, <4>1
      <4> QED BY <1>2, <2>3, <2>4, <4>1, <4>2
    <3> QED BY <3>1, <3>2
  <2>6. Len(queue') + space <= Capacity + Len(stream') - p
    <3>1. PICK t \in Nat : t = Len(stream')
      BY <1>3
    <3>2. n <= t - o
      <4>1. n <= Covered(calls') - o /\ Covered(calls') <= t /\ Covered(calls') \in Nat
        BY <1>3, <2>2, <3>1 DEF Sent
      <4> QED BY <3>1, <4>1
    <3>3. u + n + space <= Capacity + t - p
      BY <1>2, <2>3, <2>4, <3>2
    <3> QED BY <2>3, <3>1, <3>3
  <2> QED BY <2>5, <2>6
<1> QED BY <1>6, <1>7, <1>8

\* The frame that the filter has just found: what there is space for of it is kept.
LEMMA RoomFound ==
  ASSUME IInv, RouteInv, StartInv(calls, stream, resetAt),
         Filtered(calls', stream', resetAt'), queue \in Seq(Nat),
         \A j \in lost : j \in Nat /\ j <= Covered(calls),
         NEW n \in Nat, NEW new \in BOOLEAN, Sent(n, new),
         Covered(calls) \in StartsOf(calls')
  PROVE  Roomy(Covered(calls), Capacity - Len(queue), queue', calls', stream', resetAt', lost')
<1>1. Covered(calls) \in Nat
  BY LineFiltered
<1>2. PICK p \in Nat : p = Covered(calls)
  BY <1>1
<1>3. calls' \in Seq(CallType) /\ stream' \in Seq(Byte) /\ Covered(calls') <= Len(stream')
  BY DEF Filtered
<1>4. PICK t \in Nat : t = Len(stream') /\ Covered(calls') <= t
  BY <1>3, LenProperties
<1>5. PICK e \in Nat : e = Covered(calls') /\ n <= e - p
  <2>1. Covered(calls') \in Nat
    BY <1>3, CoveredIsNat
  <2> QED BY <1>2, <2>1 DEF Sent
<1>6. PICK c \in Nat : c = Capacity
  BY CapacityAssumption
<1>7. PICK u \in Nat : u = Len(queue) /\ Len(queue') = u + n
  <2>1. Len(queue) \in Nat
    BY LenProperties
  <2> QED BY <2>1 DEF Sent
<1>8. PICK space \in Int : space = Capacity - Len(queue) /\ space = c - u
  <2>1. c - u \in Int
    OBVIOUS
  <2>2. Capacity - Len(queue) = c - u
    BY <1>6, <1>7
  <2> QED BY <2>1, <2>2
<1>9. ASSUME NEW j \in lost', InBytes(stream', p, j) PROVE space < j - p
  <2>1. p < j
    BY <1>9 DEF InBytes
  <2>2. j \notin lost
    <3>1. j \in lost => j \in Nat /\ j <= p
      BY <1>2
    <3> QED BY <2>1, <3>1
  <2>3. j \in Nat /\ p + n < j /\ u + n = c
    BY <1>2, <1>6, <1>7, <2>2 DEF Sent
  <2> QED BY <1>8, <2>3
<1>10. Len(queue') + space <= c + t - p
  <2>1. e <= t
    BY <1>4, <1>5
  <2>2. u + n + (c - u) <= c + t - p
    BY <1>5, <2>1
  <2> QED BY <1>7, <1>8, <2>2
<1> QED BY <1>2, <1>4, <1>6, <1>8, <1>9, <1>10 DEF Roomy

\* One step of each action.
LEMMA RxLine == ASSUME LineInv, NEW b \in Byte, RxByte(b) PROVE LineInv'
<1>1. /\ IInv /\ RouteInv /\ StartInv(calls, stream, resetAt)
      /\ RoomInv(room, queue, calls, stream, resetAt, lost)
  BY DEF LineInv
<1>2. PICK h : /\ QueueInv(queue, 0, h, calls, lost)
               /\ ParserInv(bufAt, dispatched, h, calls, stream, resetAt, lost)
  BY DEF LineInv
<1>3. /\ queue \in Seq(Nat) /\ h \in 0..Covered(calls) /\ Len(queue) <= Capacity
      /\ room \in Seq([start : Nat, space : Int])
      /\ \A j \in lost : j \in Nat /\ j <= Covered(calls)
  BY <1>1, <1>2 DEF QueueInv, RoomInv
<1>4. /\ \E n \in Nat : \E new \in BOOLEAN : Sent(n, new)
      /\ \A p : p \in StartsOf(calls') <=>
           p \in StartsOf(calls) \/ (MagicCompletes(b) /\ p = Covered(calls))
  BY <1>1, <1>3, RxSent
<1>5. PICK n \in Nat : \E new \in BOOLEAN : Sent(n, new)
  BY <1>4
<1>6. PICK new \in BOOLEAN : Sent(n, new)
  BY <1>5
<1>7. /\ IInv' /\ RouteInv' /\ StartInv(calls', stream', resetAt')
      /\ Grown(calls, stream, resetAt, lost, calls', stream', resetAt', lost')
  BY <1>1, <1>3, <1>6, RxGrown
<1>8. Filtered(calls', stream', resetAt') /\ Covered(calls') \in Nat
  BY <1>7, FilteredNext
<1>9. /\ Filtered(calls, stream, resetAt) /\ \A r \in resetAt : r <= Len(stream)
      /\ Covered(calls) \in Nat /\ Len(stream) \in Nat /\ Len(stream) = Covered(calls) + Held
  BY <1>1, LineFiltered
<1>10. QueueInv(queue', 0, h, calls', lost')
  BY <1>2, <1>6, <1>9, QueueGrown
<1>11. ParserInv(bufAt', dispatched', h, calls', stream', resetAt', lost')
  <2>1. ParserInv(bufAt, dispatched, h, calls', stream', resetAt', lost')
    BY <1>2, <1>3, <1>7, <1>8, <1>9, ParserGrown
  <2>2. bufAt' = bufAt /\ dispatched' = dispatched
    BY DEF RxByte, parser
  <2> QED BY <2>1, <2>2
<1>12. \A k \in 1..Len(room) :
         Roomy(room[k].start, room[k].space, queue', calls', stream', resetAt', lost')
  <2> SUFFICES ASSUME NEW k \in 1..Len(room)
               PROVE  Roomy(room[k].start, room[k].space, queue', calls', stream', resetAt', lost')
    OBVIOUS
  <2>1. Roomy(room[k].start, room[k].space, queue, calls, stream, resetAt, lost)
    BY <1>1 DEF RoomInv
  <2> QED BY <1>1, <1>3, <1>6, <1>7, <1>8, <2>1, RoomStays
<1>13. /\ Len(queue') <= Capacity
       /\ \A j \in lost' : j \in Nat /\ j <= Covered(calls')
  <2>1. Covered(calls) <= Covered(calls')
    BY <1>6 DEF Sent, Follows
  <2>2. ASSUME NEW j \in lost' PROVE j \in Nat /\ j <= Covered(calls')
    <3>1. j \in lost \/ (j \in Nat /\ j <= Covered(calls'))
      BY <1>6 DEF Sent
    <3>2. j \in lost => j \in Nat /\ j <= Covered(calls)
      BY <1>3
    <3> QED BY <1>8, <1>9, <2>1, <3>1, <3>2
  <2> QED BY <1>6, <2>2 DEF Sent
<1>14. CASE phase = "Magic" /\ phase' = "Header"
  <2> DEFINE e == [start |-> Here - Len(Magic), space |-> Capacity - Len(queue)]
  <2>1. MagicCompletes(b)
    BY <1>14 DEF RxByte, Feed, IdleHolds, IdlePasses, MagicGoesOn, MagicBreaks, HeaderByte, BodyByte
  <2>2. Here - Len(Magic) = Covered(calls)
    <3>1. PICK m \in Nat : m = Len(Magic)
      BY LineSizes
    <3>2. PICK x \in Nat : x = holdN /\ x + 1 = m
      <4>1. holdN \in Nat
        BY <1>1, <1>14 DEF IInv, HoldIsMagic
      <4> QED BY <2>1, <3>1, <4>1 DEF MagicCompletes
    <3>3. PICK o \in Nat : o = Covered(calls) /\ Len(stream) = o + x
      BY <1>9, <1>14, <3>2 DEF Held
    <3>4. Here = o + x + 1
      BY <3>3 DEF Here
    <3>5. PICK y \in Nat : y = Here /\ y = o + x + 1
      BY <3>4
    <3>6. y - m = o
      BY <3>2, <3>5
    <3> QED BY <3>1, <3>3, <3>5, <3>6
  <2>3. room' = Append(room, e)
    BY <1>14 DEF RxByte
  <2>4. e \in [start : Nat, space : Int] /\ e.start = Covered(calls) /\ e.space = Capacity - Len(queue)
    <3>1. Len(queue) \in Nat /\ Capacity \in Nat
      BY <1>3, CapacityAssumption, LenProperties
    <3>2. Capacity - Len(queue) \in Int
      BY <3>1
    <3> HIDE DEF Here
    <3> QED BY <1>9, <2>2, <3>2
  <2> HIDE DEF e
  <2>5. /\ room' \in Seq([start : Nat, space : Int]) /\ Len(room') = Len(room) + 1
        /\ \A k \in 1..Len(room) : room'[k] = room[k]
        /\ room'[Len(room) + 1] = e
    BY <1>3, <2>3, <2>4, AppendProperties
  <2>6. Covered(calls) \in StartsOf(calls')
    BY <1>4, <2>1
  <2>7. Roomy(e.start, e.space, queue', calls', stream', resetAt', lost')
    BY <1>1, <1>3, <1>6, <1>8, <2>4, <2>6, RoomFound
  <2>8. \A k \in 1..Len(room') : k \in 1..Len(room) \/ k = Len(room) + 1
    <3>1. Len(room) \in Nat
      BY <1>3, LenProperties
    <3> QED BY <2>5, <3>1
  <2>9. \A k \in 1..Len(room') :
          Roomy(room'[k].start, room'[k].space, queue', calls', stream', resetAt', lost')
    BY <1>12, <2>5, <2>7, <2>8
  <2>10. RoomInv(room', queue', calls', stream', resetAt', lost')
    BY <1>13, <2>5, <2>9 DEF RoomInv
  <2> QED BY <1>7, <1>10, <1>11, <2>10 DEF LineInv
<1>15. CASE ~(phase = "Magic" /\ phase' = "Header")
  <2>1. room' = room
    BY <1>15 DEF RxByte
  <2>2. RoomInv(room', queue', calls', stream', resetAt', lost')
    BY <1>3, <1>12, <1>13, <2>1 DEF RoomInv
  <2> QED BY <1>7, <1>10, <1>11, <2>2 DEF LineInv
<1> QED BY <1>14, <1>15

LEMMA TaskLine == ASSUME LineInv, ImprovTask PROVE LineInv'
<1>1. /\ IInv /\ RouteInv /\ StartInv(calls, stream, resetAt)
      /\ RoomInv(room, queue, calls, stream, resetAt, lost)
  BY DEF LineInv
<1>2. PICK h : /\ QueueInv(queue, 0, h, calls, lost)
               /\ ParserInv(bufAt, dispatched, h, calls, stream, resetAt, lost)
  BY DEF LineInv
<1>3. Filtered(calls, stream, resetAt)
  BY <1>1, LineFiltered
<1>4. /\ Len(queue') \in Nat /\ Len(queue') <= Len(queue)
      /\ \E g : /\ QueueInv(queue', 0, g, calls, lost)
                /\ ParserInv(bufAt', dispatched', g, calls, stream, resetAt, lost)
  BY <1>2, <1>3, ChunkStep
<1>5. UNCHANGED <<vars, lost, room>>
  BY DEF ImprovTask
<1>6. /\ calls' = calls /\ stream' = stream /\ resetAt' = resetAt /\ lost' = lost /\ room' = room
      /\ UNCHANGED vars
  BY <1>5 DEF vars
<1>7. IInv' /\ RouteInv'
  BY <1>1, <1>6, RouteStays
<1>8. RoomInv(room, queue', calls, stream, resetAt, lost)
  <2>1. Capacity \in Nat /\ Len(queue) \in Nat /\ Len(stream) \in Nat
    <3>1. queue \in Seq(Nat) /\ stream \in Seq(Byte)
      BY <1>2, <1>3 DEF QueueInv, Filtered
    <3> QED BY <3>1, CapacityAssumption, LenProperties
  <2>2. ASSUME NEW p, NEW space, Roomy(p, space, queue, calls, stream, resetAt, lost)
        PROVE  Roomy(p, space, queue', calls, stream, resetAt, lost)
    <3>1. p \in Nat /\ space \in Int
      BY <1>1, <2>2, LineFiltered DEF Roomy
    <3>2. Len(queue) + space <= Capacity + Len(stream) - p =>
            Len(queue') + space <= Capacity + Len(stream) - p
      BY <1>4, <2>1, <3>1
    <3> QED BY <2>2, <3>2 DEF Roomy
  <2>3. Len(queue') <= Capacity
    BY <1>1, <1>4, <2>1 DEF RoomInv
  <2> QED BY <1>1, <2>2, <2>3 DEF RoomInv
<1> QED BY <1>1, <1>4, <1>6, <1>7, <1>8 DEF LineInv

LEMMA ResetLine == ASSUME LineInv, Reset, UNCHANGED <<line, parser>> PROVE LineInv'
<1> DEFINE c == [sink |-> "none", from |-> Here - Held, to |-> Here - 1]
<1>1. /\ IInv /\ RouteInv /\ StartInv(calls, stream, resetAt)
      /\ RoomInv(room, queue, calls, stream, resetAt, lost)
  BY DEF LineInv
<1>2. PICK h : /\ QueueInv(queue, 0, h, calls, lost)
               /\ ParserInv(bufAt, dispatched, h, calls, stream, resetAt, lost)
  BY DEF LineInv
<1>3. /\ queue' = queue /\ lost' = lost /\ room' = room /\ bufAt' = bufAt /\ dispatched' = dispatched
  BY DEF line, parser
<1>4. IInv' /\ RouteInv'
  BY <1>1, ResetInv, ResetRoute
<1>5. /\ Filtered(calls, stream, resetAt) /\ \A r \in resetAt : r <= Len(stream)
      /\ Covered(calls) \in Nat /\ Len(stream) \in Nat /\ Held \in Nat
      /\ Len(stream) = Covered(calls) + Held
      /\ calls \in Seq(CallType) /\ Tiles(calls) /\ stream \in Seq(Byte)
  BY <1>1, LineFiltered DEF Filtered
<1>6. /\ stream' = stream /\ resetAt' = resetAt \cup {Len(stream)}
      /\ calls' = IF Held > 0 THEN Append(calls, c) ELSE calls
  BY DEF Reset
<1>7. /\ calls' \in Seq(CallType) /\ Follows(calls, calls', FALSE)
      /\ \A p : p \in StartsOf(calls') <=> p \in StartsOf(calls)
  <2>1. CASE Held = 0
    <3>1. calls' = calls
      BY <1>6, <2>1
    <3> QED BY <1>5, <3>1, FollowsNone
  <2>2. CASE Held > 0
    <3>1. PICK o \in Nat : o = Covered(calls)
      BY <1>5
    <3>2. PICK x \in Nat : x = Held /\ 0 < x /\ x < Len(Magic) /\ Here = o + x + 1
      <4>1. Held < Len(Magic)
        <5>1. Len(Magic) \in Nat /\ Len(Magic) > 1
          BY LineSizes
        <5> QED BY <1>1, <5>1 DEF IInv, HoldIsMagic, Held
      <4>2. Here = o + Held + 1
        BY <1>5, <3>1 DEF Here
      <4> QED BY <1>5, <2>2, <4>1, <4>2
    <3>3. PICK f, t \in Nat : f = Here - Held /\ t = Here - 1 /\ f = o + 1 /\ t = o + x
      <4>1. Here - Held = o + 1 /\ Here - 1 = o + x
        BY <3>2
      <4>2. o + 1 \in Nat /\ o + x \in Nat
        OBVIOUS
      <4> QED BY <4>1, <4>2
    <3>4. c = [sink |-> "none", from |-> f, to |-> t]
      BY <3>3
    <3> HIDE DEF c
    <3>5. c \in CallType /\ c.from = f /\ c.to = t /\ c.sink = "none"
      BY <3>4 DEF CallType
    <3>6. c.from = Covered(calls) + 1 /\ c.from <= c.to /\ c.to - c.from + 1 # Len(Magic)
      <4>1. f <= t /\ t - f + 1 = x
        BY <3>2, <3>3
      <4>2. x # Len(Magic)
        BY <3>2, LineSizes
      <4> QED BY <3>1, <3>3, <3>5, <4>1, <4>2
    <3>7. calls' = Append(calls, c)
      BY <1>6, <2>2
    <3>8. Follows(calls, calls', FALSE)
      <4>1. Follows(calls, calls', c.sink = "improv")
        BY <1>5, <3>5, <3>6, <3>7, FollowsOne
      <4> QED BY <3>5, <4>1 DEF Follows
    <3>9. \A p : p \in StartsOf(calls') <=> p \in StartsOf(calls)
      BY <1>5, <3>5, <3>6, <3>7, StartsAppend
    <3> QED BY <3>8, <3>9 DEF Follows
  <2>3. Held = 0 \/ Held > 0
    <3>1. Held \in Nat
      BY <1>5
    <3> HIDE DEF Held
    <3> QED BY <3>1
  <2> QED BY <2>1, <2>2, <2>3
<1> HIDE DEF c
<1>8. Grown(calls, stream, resetAt, lost, calls', stream', resetAt', lost')
  <2>1. Len(calls) <= Len(calls') /\ \A k \in 1..Len(calls) : calls'[k] = calls[k]
    BY <1>7 DEF Follows
  <2>2. Len(stream) <= Len(stream')
    BY <1>5, <1>6
  <2> QED BY <1>3, <1>6, <1>7, <2>1, <2>2 DEF Grown
<1>9. StartInv(calls', stream', resetAt')
  <2>1. resetAt' \in SUBSET Nat
    <3>1. resetAt \in SUBSET Nat
      BY <1>5 DEF Filtered
    <3> QED BY <1>5, <1>6, <3>1
  <2>2. stream' \in Seq(Byte) /\ Covered(calls) <= Covered(calls')
    BY <1>5, <1>6, <1>7 DEF Follows
  <2> QED BY <1>5, <1>7, <1>8, <2>1, <2>2, StartGrown
<1>10. Filtered(calls', stream', resetAt') /\ Covered(calls') \in Nat
  BY <1>4, <1>9, FilteredNext
<1>11. queue \in Seq(Nat) /\ Len(queue) <= Capacity /\ h \in 0..Covered(calls)
  BY <1>1, <1>2 DEF QueueInv, RoomInv
<1>12. Sent(0, FALSE)
  BY <1>3, <1>5, <1>7, <1>11, NothingSent
<1>13. QueueInv(queue', 0, h, calls', lost')
  BY <1>2, <1>5, <1>12, QueueGrown
<1>14. ParserInv(bufAt', dispatched', h, calls', stream', resetAt', lost')
  <2>1. ParserInv(bufAt, dispatched, h, calls', stream', resetAt', lost')
    BY <1>2, <1>5, <1>8, <1>10, <1>11, ParserGrown
  <2> QED BY <1>3, <2>1
<1>15. RoomInv(room', queue', calls', stream', resetAt', lost')
  <2>1. \A k \in 1..Len(room) :
          Roomy(room[k].start, room[k].space, queue', calls', stream', resetAt', lost')
    <3> SUFFICES ASSUME NEW k \in 1..Len(room)
                 PROVE  Roomy(room[k].start, room[k].space, queue', calls', stream', resetAt', lost')
      OBVIOUS
    <3>1. Roomy(room[k].start, room[k].space, queue, calls, stream, resetAt, lost)
      BY <1>1 DEF RoomInv
    <3> QED BY <1>1, <1>8, <1>10, <1>11, <1>12, <3>1, RoomStays
  <2>2. \A j \in lost' : j \in Nat /\ j <= Covered(calls')
    <3>1. Covered(calls) <= Covered(calls')
      BY <1>7 DEF Follows
    <3>2. \A j \in lost' : j \in Nat /\ j <= Covered(calls)
      BY <1>1, <1>3 DEF RoomInv
    <3> QED BY <1>5, <1>10, <3>1, <3>2
  <2>3. Len(queue') <= Capacity /\ room' \in Seq([start : Nat, space : Int]) /\ room' = room
    BY <1>1, <1>3 DEF RoomInv
  <2> QED BY <2>1, <2>2, <2>3 DEF RoomInv
<1> QED BY <1>4, <1>9, <1>13, <1>14, <1>15 DEF LineInv

LEMMA QuietLine ==
  ASSUME LineInv, SetSinks \/ UNCHANGED vars, UNCHANGED <<line, parser>>
  PROVE  LineInv'
<1>1. IInv /\ RouteInv
  BY DEF LineInv
<1>2. IInv' /\ RouteInv'
  BY <1>1, RouteStays
<1>3. UNCHANGED <<stream, calls, resetAt>>
  BY DEF SetSinks, vars
<1>4. /\ queue' = queue /\ lost' = lost /\ room' = room /\ bufAt' = bufAt /\ dispatched' = dispatched
      /\ stream' = stream /\ calls' = calls /\ resetAt' = resetAt
  BY <1>3 DEF line, parser
<1>5. /\ StartInv(calls', stream', resetAt')
      /\ \E h : /\ QueueInv(queue', 0, h, calls', lost')
                /\ ParserInv(bufAt', dispatched', h, calls', stream', resetAt', lost')
      /\ RoomInv(room', queue', calls', stream', resetAt', lost')
  BY <1>4 DEF LineInv
<1> QED BY <1>2, <1>5 DEF LineInv

LEMMA InitLine == LineInit => LineInv
<1> SUFFICES ASSUME LineInit PROVE LineInv
  OBVIOUS
<1>1. /\ Init /\ queue = <<>> /\ lost = {} /\ room = <<>> /\ bufAt = <<>> /\ dispatched = {}
      /\ calls = <<>> /\ stream = <<>> /\ resetAt = {}
  BY DEF LineInit, Init
<1>2. IInv /\ RouteInv
  BY <1>1, InitInv, InitRoute
<1>3. /\ \A k : k \notin 1..0
      /\ Len(calls) = 0 /\ Len(queue) = 0 /\ Len(room) = 0 /\ Covered(calls) = 0
      /\ queue \in Seq(Nat) /\ bufAt \in Seq(Nat) /\ room \in Seq([start : Nat, space : Int])
  BY <1>1, EmptySeq DEF Covered
<1>4. \A p : p \notin StartsOf(calls)
  BY <1>3 DEF StartsOf
<1>5. StartInv(calls, stream, resetAt)
  BY <1>4 DEF StartInv
<1>6. QueueInv(queue, 0, 0, calls, lost)
  <2>1. 0 \in 0..0 /\ \A k : k \notin (0 + 1)..0
    OBVIOUS
  <2> QED BY <1>3, <2>1 DEF QueueInv
<1>7. ParserInv(bufAt, dispatched, 0, calls, stream, resetAt, lost)
  <2>1. Shape(bufAt, 0, calls, stream)
    BY <1>1, <1>4 DEF Shape
  <2>2. HeardBy(dispatched, 0, calls, stream, resetAt, lost)
    BY <1>4 DEF HeardBy
  <2>3. FromFrames(dispatched, calls, stream, resetAt, lost)
    BY <1>1 DEF FromFrames
  <2> QED BY <1>1, <1>3, <2>1, <2>2, <2>3 DEF ParserInv
<1>8. RoomInv(room, queue, calls, stream, resetAt, lost)
  BY <1>1, <1>3, CapacityAssumption DEF RoomInv
<1> QED BY <1>2, <1>5, <1>6, <1>7, <1>8 DEF LineInv

\* The inductive invariant of the line.
LEMMA LineInvariance == LineSpec => []LineInv
<1>1. LineInv /\ [LineNext]_lineVars => LineInv'
  <2> SUFFICES ASSUME LineInv, [LineNext]_lineVars PROVE LineInv'
    OBVIOUS
  <2>1. CASE \E b \in Byte : RxByte(b)
    BY <2>1, RxLine
  <2>2. CASE ImprovTask
    BY <2>2, TaskLine
  <2>3. CASE Reset /\ UNCHANGED <<line, parser>>
    BY <2>3, ResetLine
  <2>4. CASE SetSinks /\ UNCHANGED <<line, parser>>
    BY <2>4, QuietLine
  <2>5. CASE UNCHANGED lineVars
    BY <2>5, QuietLine DEF lineVars
  <2> QED BY <2>1, <2>2, <2>3, <2>4, <2>5 DEF LineNext, Rewire
<1> QED BY <1>1, InitLine, PTL DEF LineSpec

-----------------------------------------------------------------------------
(* What the invariant says of the properties *)

\* A whole frame can be followed.
LEMMA WholeIsSound ==
  ASSUME IInv, RouteInv, StartInv(calls, stream, resetAt), NEW p \in FrameStarts, Whole(p)
  PROVE  p \in StartsOf(calls) /\ Sound(calls, stream, resetAt, lost, p)
<1>1. /\ calls \in Seq(CallType) /\ Ordered(calls) /\ DOMAIN calls = 1..Len(calls)
      /\ Len(stream) \in Nat /\ FrameStarts = StartsOf(calls)
  <2>1. calls \in Seq(CallType) /\ stream \in Seq(Byte) /\ Ordered(calls)
    BY DEF IInv, TypeOK, RouteInv
  <2>2. DOMAIN calls = 1..Len(calls) /\ Len(stream) \in Nat
    BY <2>1, LenProperties
  <2> QED BY <2>1, <2>2 DEF FrameStarts, StartsOf
<1>2. p \in Nat /\ p \in StartsOf(calls)
  BY <1>1 DEF StartInv
<1>3. \A n : OverBy(p, n) <=> Over(stream, p, n)
  BY DEF OverBy, Over, FrameLen, LenIn, FrameHeaderEnd
<1>4. Kept(stream, resetAt, p)
  BY <1>3 DEF Whole, Uncut, Kept
<1>5. OfVersion(stream, p)
  BY DEF Whole, OfVersion
<1>6. ASSUME NEW j \in 1..Len(stream), InBytes(stream, p, j)
      PROVE  j \notin lost /\ Sunk(calls, j)
  <2>1. j \in BytesOf(p)
    <3>1. j \in (p + 1)..Len(stream)
      BY <1>1, <1>2, <1>6 DEF InBytes
    <3> QED BY <1>6, <3>1 DEF BytesOf, InBytes, FrameLen, LenIn, FrameHeaderEnd
  <2>2. j \notin lost /\ SinkOf(j) # "none"
    BY <2>1 DEF Whole, Uncut
  <2>3. ASSUME NEW k \in 1..Len(calls), calls[k].from <= j, j <= calls[k].to
        PROVE  calls[k].sink # "none"
    <3>1. j \in Nat
      BY <1>1
    <3>2. SinkOf(j) = calls[k].sink
      BY <1>1, <2>3, <3>1, SinkIsOf
    <3> QED BY <2>2, <3>2
  <2> QED BY <2>2, <2>3 DEF Sunk
<1> QED BY <1>2, <1>4, <1>5, <1>6 DEF Sound

LEMMA WholeAreSound ==
  ASSUME IInv, RouteInv, StartInv(calls, stream, resetAt), NEW n, WholeBefore(n)
  PROVE  SoundBefore(calls, stream, resetAt, lost, n)
<1>1. calls \in Seq(CallType) /\ DOMAIN calls = 1..Len(calls)
  BY LenProperties DEF IInv, TypeOK
<1>2. FrameStarts = StartsOf(calls)
  BY <1>1 DEF FrameStarts, StartsOf
<1> QED BY <1>2, WholeIsSound DEF SoundBefore, WholeBefore

\* With the buffer drained, every byte of a frame that can be followed was taken.
LEMMA AllTaken ==
  ASSUME IInv, RouteInv, StartInv(calls, stream, resetAt), queue = <<>>,
         NEW h, QueueInv(queue, 0, h, calls, lost),
         NEW p \in StartsOf(calls), Sound(calls, stream, resetAt, lost, p)
  PROVE  \/ Over(stream, p, h)
         \/ h = Covered(calls) /\ ~Over(stream, p, Covered(calls))
<1>1. /\ Filtered(calls, stream, resetAt) /\ Covered(calls) \in Nat /\ Len(stream) \in Nat
      /\ stream \in Seq(Byte) /\ Covered(calls) <= Len(stream) /\ p \in Nat /\ p < Covered(calls)
      /\ p + Len(Magic) <= Covered(calls)
  BY LineFiltered DEF Filtered
<1>2. h \in Nat /\ h <= Covered(calls) /\ h <= Len(stream)
  BY <1>1 DEF QueueInv
<1>3. ASSUME NEW j \in 1..Covered(calls), h < j, InBytes(stream, p, j) PROVE FALSE
  <2>1. Improv(calls, j) /\ j \notin lost
    BY <1>1, <1>3, SoundImproved
  <2>2. j \in (h + 1)..Covered(calls)
    BY <1>1, <1>2, <1>3
  <2>3. PICK m \in (0 + 1)..Len(queue) : queue[m] = j
    BY <2>1, <2>2 DEF QueueInv
  <2>4. Len(queue) = 0
    BY EmptySeq
  <2> QED BY <2>3, <2>4
<1>4. CASE Over(stream, p, Covered(calls))
  <2> DEFINE l == p + LenIn(stream, p)
  <2>1. l \in 1..Covered(calls) /\ InBytes(stream, p, l) /\ Over(stream, p, l)
    BY <1>1, <1>4, LastInFrame
  <2> HIDE DEF l
  <2>2. ~(h < l) /\ l \in Nat /\ l <= Len(stream)
    BY <1>1, <1>3, <2>1
  <2>3. l <= h
    BY <1>2, <2>2
  <2>4. Over(stream, p, h)
    BY <1>1, <1>2, <2>1, <2>2, <2>3, OverStays
  <2> QED BY <2>4
<1>5. CASE ~Over(stream, p, Covered(calls))
  <2> SUFFICES ASSUME h # Covered(calls) PROVE FALSE
    BY <1>5
  <2>1. h < Covered(calls) /\ h < Len(stream)
    BY <1>1, <1>2
  <2>2. CASE p <= h
    <3>1. ~Over(stream, p, h)
      <4>1. Over(stream, p, h) => Over(stream, p, Covered(calls))
        BY <1>1, <1>2, OverStays
      <4> QED BY <1>5, <4>1
    <3>2. InBytes(stream, p, h + 1)
      BY <1>1, <1>2, <2>1, <2>2, <3>1, NextInFrame
    <3>3. h + 1 \in 1..Covered(calls) /\ h < h + 1
      BY <1>1, <1>2, <2>1
    <3> QED BY <1>3, <3>2, <3>3
  <2>3. CASE h < p
    <3>1. ~Over(stream, p, p)
      <4>1. ~(p >= FrameHeaderEnd(p))
        BY <1>1, HeaderEnd
      <4> QED BY <4>1 DEF Over
    <3>2. p < Len(stream) /\ p <= p /\ p + 1 \in 1..Covered(calls) /\ h < p + 1
      BY <1>1, <1>2, <2>3
    <3>3. InBytes(stream, p, p + 1)
      BY <1>1, <3>1, <3>2, NextInFrame
    <3> QED BY <1>3, <3>2, <3>3
  <2> QED BY <1>1, <1>2, <2>2, <2>3
<1> QED BY <1>4, <1>5

\* What the greatest is.
LEMMA MaxIs ==
  ASSUME NEW S \in SUBSET Nat, NEW p \in S, \A q \in S : q <= p
  PROVE  Max(S) = p
<1>1. \A x \in S : (\A y \in S : x >= y) => x = p
  <2> TAKE x \in S
  <2>1. x \in Nat /\ p \in Nat /\ x <= p
    OBVIOUS
  <2>2. (\A y \in S : x >= y) => x >= p
    OBVIOUS
  <2> QED BY <2>1, <2>2
<1>2. \A y \in S : p >= y
  <2> TAKE y \in S
  <2>1. y \in Nat /\ p \in Nat /\ y <= p
    OBVIOUS
  <2> QED BY <2>1
<1> QED BY <1>1, <1>2 DEF Max

\* The frame that the filter is in is not over.
LEMMA UnderIsOpen ==
  ASSUME IInv, RouteInv, StartInv(calls, stream, resetAt), phase \in {"Header", "Body"},
         NEW p \in StartsOf(calls), Under(p)
  PROVE  ~Over(stream, p, Len(stream)) /\ Covered(calls) = Len(stream)
<1>1. /\ p \in Nat /\ Len(stream) \in Nat /\ stream \in Seq(Byte)
      /\ Covered(calls) \in Nat /\ Held = 0 /\ Len(stream) = Covered(calls) + Held
  <2>1. Held = 0
    BY DEF Held
  <2> QED BY <2>1, LineFiltered DEF Filtered
<1>2. CASE phase = "Header"
  <2>1. Len(stream) = p + Len(Magic) + holdN /\ holdN < 3 /\ holdN \in Nat
    <3>1. holdN \in Nat
      BY LineSizes DEF IInv, TypeOK
    <3> QED BY <1>2, <3>1, LineSizes DEF Under, IInv, HoldIsMagic
  <2>2. PICK m \in Nat : m = Len(Magic) /\ FrameHeaderEnd(p) = p + m + 3
    BY <1>1, LineSizes
  <2>3. ~(Len(stream) >= FrameHeaderEnd(p))
    BY <1>1, <2>1, <2>2
  <2> QED BY <1>1, <2>3 DEF Over
<1>3. CASE phase = "Body"
  <2>1. FrameHeaderEnd(p) <= Len(stream) /\ Len(stream) + bodyLeft = p + LenIn(stream, p)
    BY <1>3 DEF Under
  <2>2. bodyLeft \in Nat /\ bodyLeft > 0
    <3>1. bodyLeft \in Nat
      BY ByteAssumption DEF IInv, TypeOK
    <3> QED BY <1>3, <3>1 DEF IInv, HoldIsMagic
  <2>3. LenIn(stream, p) \in Nat
    BY <1>1, <2>1, FrameSize
  <2>4. ~(Len(stream) >= p + LenIn(stream, p))
    BY <1>1, <2>1, <2>2, <2>3
  <2> QED BY <1>1, <2>4 DEF Over
<1> QED BY <1>2, <1>3

\* The invariant gives InStep: the parser holds what was routed of the open frame.
LEMMA StepsAgree ==
  ASSUME LineInv, queue = <<>>, WholeBefore(Len(stream) + 1)
  PROVE  bufAt = IF phase \in {"Header", "Body"}
                 THEN [i \in 1..(Len(stream) - Max(FrameStarts)) |-> Max(FrameStarts) + i]
                 ELSE <<>>
<1>1. IInv /\ RouteInv /\ StartInv(calls, stream, resetAt)
  BY DEF LineInv
<1>2. PICK h : /\ QueueInv(queue, 0, h, calls, lost)
               /\ ParserInv(bufAt, dispatched, h, calls, stream, resetAt, lost)
  BY DEF LineInv
<1>3. /\ Filtered(calls, stream, resetAt) /\ Covered(calls) \in Nat /\ Len(stream) \in Nat
      /\ \A p \in StartsOf(calls) :
           /\ p \in Nat /\ p < Covered(calls)
           /\ phase \in {"Idle", "Magic"} => DoneBy(stream, resetAt, p, Covered(calls))
  BY <1>1, LineFiltered
<1>4. /\ Covered(calls) <= Len(stream) /\ stream \in Seq(Byte) /\ resetAt \in SUBSET Nat
  BY <1>3 DEF Filtered
<1>5. h \in Nat /\ h <= Covered(calls) /\ h <= Len(stream)
  BY <1>2, <1>3, <1>4 DEF QueueInv
<1>6. SoundBefore(calls, stream, resetAt, lost, Len(stream) + 1)
  BY <1>1, WholeAreSound
<1>7. \A p \in StartsOf(calls) : p < Len(stream) + 1 /\ p <= Len(stream)
  BY <1>3, <1>4
<1>8. \A p \in StartsOf(calls) : Sound(calls, stream, resetAt, lost, p)
  BY <1>6, <1>7 DEF SoundBefore
<1>9. Shape(bufAt, h, calls, stream)
  BY <1>2, <1>8 DEF ParserInv, SoundBefore
<1>10. phase \in {"Idle", "Magic", "Header", "Body"}
  BY <1>1 DEF IInv, TypeOK
<1>11. CASE phase \in {"Idle", "Magic"}
  <2>1. ASSUME NEW p \in StartsOf(calls) PROVE Over(stream, p, h)
    <3>1. Over(stream, p, Covered(calls))
      <4>1. Kept(stream, resetAt, p)
        BY <1>8 DEF Sound
      <4> QED BY <1>3, <1>4, <1>11, <4>1, DoneIsOver
    <3> QED BY <1>1, <1>2, <1>8, <3>1, AllTaken
  <2>2. bufAt = <<>>
    BY <1>9, <2>1 DEF Shape
  <2> QED BY <1>11, <2>2
<1>12. CASE phase \in {"Header", "Body"}
  <2>1. PICK p \in StartsOf(calls) : Under(p)
    BY <1>1, <1>12 DEF RouteInv, FrameInv
  <2>2. ~Over(stream, p, Len(stream)) /\ Covered(calls) = Len(stream) /\ p \in Nat /\ p < Len(stream)
    BY <1>1, <1>3, <1>12, <2>1, UnderIsOpen
  <2>3. h = Len(stream)
    <3>1. ~Over(stream, p, h)
      BY <1>3, <1>4, <1>5, <2>2, OverStays
    <3> QED BY <1>1, <1>2, <1>8, <2>2, <3>1, AllTaken
  <2>4. ASSUME NEW q \in StartsOf(calls), q # p PROVE q < p /\ Over(stream, q, Len(stream))
    <3>1. p <= Len(stream) /\ q <= Len(stream) /\ Len(stream) <= Len(stream)
      BY <1>3, <1>7
    <3> QED BY <1>3, <1>6, <2>2, <2>4, <3>1, OneFrame
  <2>5. PICK o \in StartsOf(calls) : ~Over(stream, o, h) /\ bufAt = Seg(o, h - o)
    <3>1. p < h /\ ~Over(stream, p, h)
      BY <2>2, <2>3
    <3> QED BY <1>9, <3>1 DEF Shape
  <2>6. bufAt = Seg(p, Len(stream) - p)
    BY <2>3, <2>4, <2>5
  <2>7. Max(FrameStarts) = p
    <3>1. FrameStarts = StartsOf(calls)
      <4>1. DOMAIN calls = 1..Len(calls)
        BY <1>3, LenProperties DEF Filtered
      <4> QED BY <4>1 DEF FrameStarts, StartsOf
    <3>2. \A q \in StartsOf(calls) : q <= p
      BY <1>3, <2>2, <2>4
    <3>3. StartsOf(calls) \in SUBSET Nat
      BY <1>3
    <3> QED BY <3>1, <3>2, <3>3, MaxIs
  <2> QED BY <1>12, <2>6, <2>7 DEF Seg
<1> QED BY <1>10, <1>11, <1>12

\* The invariant gives RequestsHeard: with the space there was, no byte of the frame
\* was lost, and the parser followed all of it.
LEMMA HeardWhole ==
  ASSUME LineInv, queue = <<>>, NEW k \in DOMAIN room, NEW p, p = room[k].start,
         OverBy(p, Len(stream)), FrameLen(p) <= room[k].space,
         Uncut(p), WholeBefore(p), Parser!IsFrame(BytesAt(FramePositions(p))),
         stream[p + Len(Magic) + 2] = RpcType
  PROVE  FramePositions(p) \in dispatched
<1>1. /\ IInv /\ RouteInv /\ StartInv(calls, stream, resetAt)
      /\ RoomInv(room, queue, calls, stream, resetAt, lost)
  BY DEF LineInv
<1>2. PICK h : /\ QueueInv(queue, 0, h, calls, lost)
               /\ ParserInv(bufAt, dispatched, h, calls, stream, resetAt, lost)
  BY DEF LineInv
<1>3. k \in 1..Len(room)
  BY <1>1, LenProperties DEF RoomInv
<1>4. Roomy(p, room[k].space, queue, calls, stream, resetAt, lost)
  BY <1>1, <1>3 DEF RoomInv
<1>5. p \in StartsOf(calls) /\ room[k].space \in Int
  BY <1>4 DEF Roomy
<1>6. /\ Filtered(calls, stream, resetAt) /\ Covered(calls) \in Nat /\ Len(stream) \in Nat
      /\ p \in Nat /\ p < Covered(calls) /\ Held \in Nat /\ Len(stream) = Covered(calls) + Held
      /\ phase \in {"Idle", "Magic"} => DoneBy(stream, resetAt, p, Covered(calls))
  BY <1>1, <1>5, LineFiltered
<1>7. Covered(calls) <= Len(stream) /\ stream \in Seq(Byte) /\ resetAt \in SUBSET Nat
  BY <1>6 DEF Filtered
<1>8. /\ \A n : OverBy(p, n) <=> Over(stream, p, n)
      /\ FrameLen(p) = LenIn(stream, p)
  BY DEF OverBy, Over, FrameLen, LenIn, FrameHeaderEnd
<1>9. /\ Over(stream, p, Len(stream)) /\ FrameHeaderEnd(p) <= Len(stream)
      /\ LenIn(stream, p) \in Nat
  BY <1>6, <1>7, <1>8, OverStays
<1>10. FramePositions(p) = Seg(p, LenIn(stream, p)) /\ Good(stream, p)
  <2>1. FramePositions(p) = Seg(p, LenIn(stream, p))
    BY <1>8 DEF FramePositions, Seg
  <2>2. BytesAt(FramePositions(p)) = BytesIn(stream, Seg(p, LenIn(stream, p)))
    BY <2>1 DEF BytesAt, BytesIn
  <2> QED BY <2>1, <2>2 DEF Good
<1>11. Kept(stream, resetAt, p)
  BY <1>8 DEF Uncut, Kept
<1>12. OfVersion(stream, p)
  <2> DEFINE g == BytesIn(stream, Seg(p, LenIn(stream, p)))
  <2>1. PICK l \in Nat : l = LenIn(stream, p) /\ p + l <= Len(stream) /\ Len(Magic) + 3 < l
    <3>1. Len(Magic) + 3 < LenIn(stream, p)
      BY <1>6, <1>7, <1>9, FrameSize
    <3>2. p + LenIn(stream, p) <= Len(stream)
      BY <1>9 DEF Over
    <3> QED BY <1>9, <3>1, <3>2
  <2>2. \A i \in 1..l : g[i] = stream[p + i]
    <3>1. stream \in Seq(Byte) /\ p \in Nat /\ p + l <= Len(stream)
      BY <1>6, <1>7, <2>1
    <3>2. \A i \in 1..l : BytesIn(stream, Seg(p, l))[i] = stream[p + i]
      BY <3>1, SegBytes
    <3> QED BY <2>1, <3>2
  <2>3. PICK m \in Nat : m = Len(Magic) /\ Parser!HeaderLen = m + 3
    BY LineSizes
  <2>4. m + 1 \in 1..l /\ p + (m + 1) = p + m + 1
    <3>1. m + 3 < l
      BY <2>1, <2>3
    <3>2. p \in Nat /\ p + (m + 1) = p + m + 1
      BY <1>6
    <3> QED BY <3>1, <3>2
  <2>5. g[m + 1] = Version
    BY <1>10, <2>3 DEF Good, Parser!IsFrame
  <2> HIDE DEF g
  <2>6. stream[p + m + 1] = Version
    BY <2>2, <2>4, <2>5
  <2> QED BY <2>3, <2>6 DEF OfVersion
<1>13. ASSUME NEW j \in 1..Len(stream), InBytes(stream, p, j)
       PROVE  j \notin lost /\ Sunk(calls, j)
  <2>1. j \in Nat /\ p < j /\ j <= p + LenIn(stream, p)
    <3>1. CASE j > FrameHeaderEnd(p)
      BY <1>6, <1>13, <3>1 DEF InBytes
    <3>2. CASE ~(j > FrameHeaderEnd(p))
      <4>1. PICK m \in Nat : m = Len(Magic) /\ FrameHeaderEnd(p) = p + m + 3
        BY <1>6, LineSizes
      <4>2. m + 3 < LenIn(stream, p)
        BY <1>6, <1>7, <1>9, <4>1, FrameSize
      <4>3. p < j /\ j \in Nat
        BY <1>6, <1>13 DEF InBytes
      <4>4. PICK l \in Nat : l = LenIn(stream, p) /\ m + 3 < l
        BY <1>9, <4>2
      <4>5. j <= p + m + 3
        BY <1>6, <3>2, <4>1, <4>3
      <4>6. p \in Nat
        BY <1>6
      <4>7. j <= p + l
        BY <4>3, <4>4, <4>5, <4>6
      <4> QED BY <4>3, <4>4, <4>7
    <3> QED BY <3>1, <3>2
  <2>2. j \notin lost
    <3>1. j \in lost => room[k].space < j - p
      BY <1>4, <1>11, <1>13 DEF Roomy
    <3>2. LenIn(stream, p) <= room[k].space
      BY <1>8
    <3>3. ~(room[k].space < j - p)
      BY <1>5, <1>6, <1>9, <2>1, <3>2
    <3> QED BY <3>1, <3>3
  <2>3. SinkOf(j) # "none"
    <3>1. j \in (p + 1)..Len(stream)
      BY <1>6, <2>1
    <3>2. j \in BytesOf(p)
      BY <1>13, <3>1 DEF BytesOf, InBytes, FrameLen, LenIn, FrameHeaderEnd
    <3> QED BY <3>2 DEF Uncut
  <2>4. Sunk(calls, j)
    <3> SUFFICES ASSUME NEW m \in 1..Len(calls), calls[m].from <= j, j <= calls[m].to
                 PROVE  calls[m].sink # "none"
      BY DEF Sunk
    <3>1. SinkOf(j) = calls[m].sink
      BY <1>1, <2>1, SinkIsOf DEF IInv, TypeOK, RouteInv
    <3> QED BY <2>3, <3>1
  <2> QED BY <2>2, <2>4
<1>14. Sound(calls, stream, resetAt, lost, p) /\ SoundBefore(calls, stream, resetAt, lost, p)
  BY <1>1, <1>11, <1>12, <1>13, WholeAreSound DEF Sound
<1>15. Over(stream, p, Covered(calls))
  <2>1. CASE phase \in {"Idle", "Magic"}
    BY <1>6, <1>7, <1>11, <2>1, DoneIsOver
  <2>2. CASE phase \notin {"Idle", "Magic"}
    <3>1. Held = 0
      BY <2>2 DEF Held
    <3>2. Len(stream) = Covered(calls)
      BY <1>6, <3>1
    <3> QED BY <1>9, <3>2
  <2> QED BY <2>1, <2>2
<1>16. Over(stream, p, h)
  BY <1>1, <1>2, <1>5, <1>14, <1>15, AllTaken
<1> QED BY <1>2, <1>5, <1>10, <1>14, <1>16 DEF ParserInv, HeardBy

-----------------------------------------------------------------------------
\* For every stream, size of the buffer and of the chunks, and whatever setSinks() and
\* reset() are called: while no frame was cut, dropped or of another version, the
\* parser is in the frame that the filter is in, and holds just what was routed of it
\* (serial_filter.cpp:55-71, improv_wifi.cpp:50-88).
THEOREM FilterAndParserInStep == LineSpec => []InStep
<1>1. LineInv => InStep
  BY StepsAgree DEF InStep
<1> QED BY <1>1, LineInvariance, PTL

\* A request for which the buffer had room when it began is acted upon, however late
\* the Improv task comes to it (serial_filter.cpp:40, 59, 69; README.md:332-341).
THEOREM RoomyRequestsAreHeard == LineSpec => []RequestsHeard
<1>1. LineInv => RequestsHeard
  BY HeardWhole DEF RequestsHeard
<1> QED BY <1>1, LineInvariance, PTL

\* What is acted upon is a frame that the filter found, from its first byte to its
\* last: never a part of a payload, never bytes of two frames
\* (serial_filter.cpp:59, improv_wifi.cpp:70-88).
THEOREM NoFrameInAFrame == LineSpec => []NothingNested
<1>1. LineInv => NothingNested
  <2> SUFFICES ASSUME LineInv, NEW d \in dispatched, WholeBefore(Last(d))
               PROVE  \E p \in FrameStarts : OverBy(p, Len(stream)) /\ d = FramePositions(p)
    BY DEF NothingNested
  <2>1. IInv /\ RouteInv /\ StartInv(calls, stream, resetAt)
    BY DEF LineInv
  <2>2. SoundBefore(calls, stream, resetAt, lost, d[Len(d)])
    BY <2>1, WholeAreSound DEF Last
  <2>3. FromFrames(dispatched, calls, stream, resetAt, lost)
    BY DEF LineInv, ParserInv
  <2>4. PICK p \in StartsOf(calls) :
          Over(stream, p, Len(stream)) /\ d = Seg(p, LenIn(stream, p))
    BY <2>2, <2>3 DEF FromFrames
  <2>5. p \in FrameStarts
    <3>1. DOMAIN calls = 1..Len(calls)
      BY <2>1, LenProperties DEF IInv, TypeOK
    <3> QED BY <3>1 DEF FrameStarts, StartsOf
  <2>6. OverBy(p, Len(stream)) /\ d = FramePositions(p)
    BY <2>4 DEF OverBy, Over, FrameLen, LenIn, FrameHeaderEnd, FramePositions, Seg
  <2> QED BY <2>5, <2>6
<1> QED BY <1>1, LineInvariance, PTL

\* The filter in its place on the line is the filter by itself: all that is proved of
\* SerialFilter holds of SharedLine.
THEOREM LineIsFiltered == LineSpec => Spec
<1>1. LineInit => Init
  BY DEF LineInit
<1>2. [LineNext]_lineVars => [Next]_vars
  <2> SUFFICES ASSUME [LineNext]_lineVars PROVE [Next]_vars
    OBVIOUS
  <2>1. CASE \E b \in Byte : RxByte(b)
    BY <2>1 DEF RxByte, Next
  <2>2. CASE ImprovTask
    <3>1. UNCHANGED vars
      BY <2>2 DEF ImprovTask
    <3> QED BY <3>1
  <2>3. CASE Rewire
    BY <2>3 DEF Rewire, Next
  <2>4. CASE UNCHANGED lineVars
    <3>1. UNCHANGED vars
      BY <2>4 DEF lineVars
    <3> QED BY <3>1
  <2> QED BY <2>1, <2>2, <2>3, <2>4 DEF LineNext
<1> QED BY <1>1, <1>2, PTL DEF LineSpec, Spec

=============================================================================
