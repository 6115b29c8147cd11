------------------------- MODULE FrameParserProofs -------------------------
(* Memory safety and soundness of the frame parser, for every alphabet, magic *)
(* and buffer size that the assumptions allow; and that what a frame carries  *)
(* is what was put into it, for every size of a byte and of a payload.        *)
EXTENDS MCFrameParser, SequenceTheorems, WellFoundedInduction, TLAPS

\* buf is a proper prefix of a frame, as far as the header tells ...
Incomplete == Len(buf) < HeaderLen \/ Len(buf) < TotalLen(buf[HeaderLen])

HeaderSoFar(s) ==
  /\ \A i \in 1..Len(s) : i <= Len(Magic) => s[i] = Magic[i]
  /\ Len(s) > Len(Magic) => s[Len(Magic) + 1] = Version

\* ... and it is what the stream ends with, after every frame acted upon.
StreamEndsWith(s, t) ==
  /\ Len(s) <= Len(t)
  /\ \A i \in 1..Len(s) : s[i] = t[Len(t) - Len(s) + i]

AfterDispatched == \A d \in dispatched : d.end <= Len(stream) - Len(buf)

IInv ==
  /\ TypeOK /\ Incomplete /\ HeaderSoFar(buf) /\ StreamEndsWith(buf, stream)
  /\ AfterDispatched /\ DispatchedWhole /\ NoOverlap

-----------------------------------------------------------------------------
LEMMA Lengths ==
  /\ Len(Magic) \in Nat \ {0} /\ HeaderLen \in Nat /\ HeaderLen = Len(Magic) + 3
  /\ \A n \in Byte : TotalLen(n) \in Nat /\ TotalLen(n) = HeaderLen + n + 1
                     /\ TotalLen(n) <= MaxFrameLen
  /\ MaxFrameLen \in Nat /\ MaxFrameLen > HeaderLen /\ MaxFrameLen <= kBufferSize
BY ByteAssumption, MagicAssumption, BufferAssumption
DEF HeaderLen, TotalLen, MaxFrameLen, Byte

\* The buffer never holds a whole frame, so it never fills.
LEMMA IncompleteIsShort ==
  ASSUME TypeOK, Incomplete
  PROVE  Len(buf) < MaxFrameLen /\ Len(buf) < kBufferSize
<1>1. CASE Len(buf) < HeaderLen
  BY <1>1, Lengths, BufferAssumption DEF TypeOK
<1>2. CASE Len(buf) >= HeaderLen
  <2>1. buf[HeaderLen] \in Byte
    BY <1>2, Lengths DEF TypeOK
  <2> QED
    BY <1>2, <2>1, Lengths, BufferAssumption DEF TypeOK, Incomplete
<1> QED
  BY <1>1, <1>2, Lengths DEF TypeOK

LEMMA InitInv == Init => IInv
BY Lengths
DEF Init, IInv, TypeOK, Incomplete, HeaderSoFar, StreamEndsWith, AfterDispatched,
    DispatchedWhole, NoOverlap

\* A byte that is accepted extends the header, or the frame, that buf holds.
LEMMA AcceptExtends ==
  ASSUME IInv, NEW b \in Byte, Accepts(buf, b)
  PROVE  /\ Append(buf, b) \in Seq(Byte) /\ Len(Append(buf, b)) = Len(buf) + 1
         /\ HeaderSoFar(Append(buf, b))
         /\ StreamEndsWith(Append(buf, b), Append(stream, b))
         /\ Append(buf, b)[Len(buf) + 1] = b
<1> DEFINE nb == Append(buf, b)
           ns == Append(stream, b)
<1>1. buf \in Seq(Byte) /\ stream \in Seq(Byte) /\ Len(buf) \in Nat /\ Len(stream) \in Nat
  BY DEF IInv, TypeOK
<1>2. /\ nb \in Seq(Byte) /\ Len(nb) = Len(buf) + 1
      /\ \A i \in 1..Len(buf) : nb[i] = buf[i]
      /\ nb[Len(buf) + 1] = b
  BY <1>1, AppendProperties
<1>3. /\ Len(ns) = Len(stream) + 1
      /\ \A i \in 1..Len(stream) : ns[i] = stream[i]
      /\ ns[Len(stream) + 1] = b
  BY <1>1, AppendProperties
<1> HIDE DEF nb, ns
<1>4. HeaderSoFar(nb)
  <2>1. ASSUME NEW i \in 1..Len(nb), i <= Len(Magic) PROVE nb[i] = Magic[i]
    <3>1. CASE i <= Len(buf)
      BY <1>1, <1>2, <2>1, <3>1 DEF IInv, HeaderSoFar
    <3>2. CASE i = Len(buf) + 1
      BY <1>1, <1>2, <2>1, <3>2, Lengths DEF Accepts
    <3> QED
      BY <1>1, <1>2, <3>1, <3>2
  <2>2. ASSUME Len(nb) > Len(Magic) PROVE nb[Len(Magic) + 1] = Version
    <3>1. CASE Len(buf) > Len(Magic)
      <4>1. buf[Len(Magic) + 1] = Version
        BY <3>1 DEF IInv, HeaderSoFar
      <4>2. Len(Magic) + 1 \in 1..Len(buf)
        BY <1>1, <3>1, Lengths
      <4> QED
        BY <1>2, <4>1, <4>2
    <3>2. CASE Len(buf) = Len(Magic)
      BY <1>1, <1>2, <3>2, Lengths DEF Accepts
    <3> QED
      BY <1>1, <1>2, <2>2, <3>1, <3>2, Lengths
  <2> QED
    BY <2>1, <2>2 DEF HeaderSoFar
<1>5. StreamEndsWith(nb, ns)
  <2>1. Len(buf) <= Len(stream) /\ \A i \in 1..Len(buf) : buf[i] = stream[Len(stream) - Len(buf) + i]
    BY DEF IInv, StreamEndsWith
  <2>2. ASSUME NEW i \in 1..Len(nb) PROVE nb[i] = ns[Len(ns) - Len(nb) + i]
    <3>1. Len(ns) - Len(nb) + i = Len(stream) - Len(buf) + i
      BY <1>1, <1>2, <1>3
    <3>2. CASE i <= Len(buf)
      <4>1. Len(stream) - Len(buf) + i \in 1..Len(stream)
        BY <1>1, <2>1, <2>2, <3>2
      <4> QED
        BY <1>1, <1>2, <1>3, <2>1, <3>1, <3>2, <4>1
    <3>3. CASE i = Len(buf) + 1
      BY <1>1, <1>2, <1>3, <3>1, <3>3
    <3> QED
      BY <1>1, <1>2, <2>2, <3>2, <3>3
  <2> QED
    BY <1>1, <1>2, <1>3, <2>1, <2>2 DEF StreamEndsWith
<1> QED
  BY <1>2, <1>4, <1>5 DEF nb, ns

\* When the accepted byte completes buf, the result is a frame.
LEMMA CompleteIsFrame ==
  ASSUME IInv, NEW b \in Byte, Accepts(buf, b), Completes(Append(buf, b))
  PROVE  IsFrame(Append(buf, b))
<1> DEFINE nb == Append(buf, b)
<1>1. /\ nb \in Seq(Byte) /\ Len(nb) = Len(buf) + 1 /\ HeaderSoFar(nb)
      /\ nb[Len(buf) + 1] = b
  BY AcceptExtends
<1>2. buf \in Seq(Byte) /\ Len(buf) \in Nat
  BY DEF IInv, TypeOK
<1>3. \A i \in 1..Len(buf) : nb[i] = buf[i]
  BY <1>2, AppendProperties
<1>4. SubSeq(nb, 1, Len(nb) - 1) = buf
  <2>1. \A i \in 1..Len(buf) : nb[i] \in Byte
    BY <1>1, <1>2
  <2>2. Len(nb) - 1 = Len(buf)
    BY <1>1, <1>2
  <2> HIDE DEF nb
  <2>3. /\ SubSeq(nb, 1, Len(buf)) \in Seq(Byte)
        /\ Len(SubSeq(nb, 1, Len(buf))) = IF 1 <= Len(buf) THEN Len(buf) - 1 + 1 ELSE 0
        /\ \A i \in 1..(Len(buf) - 1 + 1) : SubSeq(nb, 1, Len(buf))[i] = nb[1 + i - 1]
    BY <1>2, <2>1, SubSeqProperties
  <2>4. Len(SubSeq(nb, 1, Len(buf))) = Len(buf)
    BY <1>2, <2>3
  <2>5. \A i \in 1..Len(buf) : SubSeq(nb, 1, Len(buf))[i] = buf[i]
    BY <1>2, <1>3, <2>3
  <2> QED
    BY <1>2, <2>2, <2>3, <2>4, <2>5, SeqEqual
<1> HIDE DEF nb
<1>5. Len(nb) >= HeaderLen /\ Len(nb) = TotalLen(nb[HeaderLen])
  BY DEF Completes, nb
<1>6. nb[HeaderLen] \in Byte
  BY <1>1, <1>5, Lengths
<1>7. Len(buf) = HeaderLen + nb[HeaderLen]
  BY <1>1, <1>2, <1>5, <1>6, Lengths DEF Byte
<1>8. buf[HeaderLen] = nb[HeaderLen]
  BY <1>2, <1>3, <1>6, <1>7, Lengths DEF Byte
<1>9. b = Checksum(buf)
  BY <1>2, <1>6, <1>7, <1>8, Lengths DEF Accepts, Byte
<1>10. \A i \in 1..Len(Magic) : nb[i] = Magic[i]
  <2>1. Len(nb) \in Nat /\ Len(Magic) \in Nat /\ Len(Magic) < Len(nb)
    BY <1>1, <1>2, <1>5, Lengths
  <2>2. \A i \in 1..Len(nb) : i <= Len(Magic) => nb[i] = Magic[i]
    BY <1>1 DEF HeaderSoFar
  <2> QED
    BY <2>1, <2>2
<1>11. nb[Len(Magic) + 1] = Version
  <2>1. Len(nb) > Len(Magic)
    BY <1>1, <1>2, <1>5, Lengths
  <2> QED
    BY <1>1, <2>1 DEF HeaderSoFar
<1>12. nb[Len(nb)] = Checksum(SubSeq(nb, 1, Len(nb) - 1))
  BY <1>1, <1>4, <1>9
<1> QED
  BY <1>5, <1>10, <1>11, <1>12 DEF IsFrame, nb

-----------------------------------------------------------------------------
(* One byte *)

LEMMA FeedInv == ASSUME IInv, NEW b \in Byte, FeedByte(b) PROVE IInv'
<1> DEFINE nb == Append(buf, b)
           ns == Append(stream, b)
           d0 == [end |-> Len(ns), frame |-> nb]
<1>1. /\ buf \in Seq(Byte) /\ stream \in Seq(Byte)
      /\ Len(buf) \in Nat /\ Len(stream) \in Nat /\ Len(buf) <= Len(stream)
  BY DEF IInv, TypeOK, StreamEndsWith
<1>2. /\ ns \in Seq(Byte) /\ Len(ns) = Len(stream) + 1
      /\ \A i \in 1..Len(stream) : ns[i] = stream[i]
  BY <1>1, AppendProperties
<1>3. stream' = ns /\ armed' = armed
  BY DEF FeedByte
<1>4. Len(buf) < kBufferSize
  BY IncompleteIsShort DEF IInv
<1>5. \/ buf' = <<>>
      \/ Accepts(buf, b) /\ ~Completes(nb) /\ buf' = nb
  BY <1>4 DEF FeedByte, NextBuf
<1>6. \/ dispatched' = dispatched
      \/ /\ Accepts(buf, b) /\ Completes(nb) /\ buf' = <<>>
         /\ nb[HeaderLen - 1] = RpcType /\ dispatched' = dispatched \cup {d0}
  BY <1>3, <1>4 DEF FeedByte, NextBuf, IsDispatched
<1>7. Incomplete' /\ HeaderSoFar(buf') /\ StreamEndsWith(buf', stream') /\ buf' \in Seq(Byte)
  <2>1. CASE buf' = <<>>
    BY <1>2, <1>3, <2>1, Lengths DEF Incomplete, HeaderSoFar, StreamEndsWith
  <2>2. CASE Accepts(buf, b) /\ ~Completes(nb) /\ buf' = nb
    <3>1. /\ nb \in Seq(Byte) /\ Len(nb) = Len(buf) + 1 /\ HeaderSoFar(nb)
          /\ StreamEndsWith(nb, ns)
      BY <2>2, AcceptExtends
    <3>2. \A i \in 1..Len(buf) : nb[i] = buf[i]
      BY <1>1, AppendProperties
    <3> HIDE DEF nb
    <3>3. Len(nb) < HeaderLen \/ Len(nb) < TotalLen(nb[HeaderLen])
      <4>1. SUFFICES ASSUME Len(nb) >= HeaderLen PROVE Len(nb) < TotalLen(nb[HeaderLen])
        BY <1>1, <3>1, Lengths
      <4>2. nb[HeaderLen] \in Byte
        BY <3>1, <4>1, Lengths
      <4>3. Len(nb) # TotalLen(nb[HeaderLen])
        BY <2>2, <4>1 DEF Completes
      <4>4. Len(nb) <= TotalLen(nb[HeaderLen])
        <5>1. CASE Len(buf) < HeaderLen
          <6>1. TotalLen(nb[HeaderLen]) > HeaderLen
            BY <4>2, Lengths DEF Byte
          <6>2. Len(nb) <= HeaderLen /\ TotalLen(nb[HeaderLen]) \in Nat /\ HeaderLen \in Nat
            BY <1>1, <3>1, <4>2, <5>1, Lengths
          <6> QED
            BY <1>1, <3>1, <6>1, <6>2
        <5>2. CASE Len(buf) >= HeaderLen
          <6>1. HeaderLen \in 1..Len(buf)
            BY <1>1, <5>2, Lengths
          <6>2. nb[HeaderLen] = buf[HeaderLen]
            BY <3>2, <6>1
          <6>3. Len(buf) < TotalLen(nb[HeaderLen])
            BY <5>2, <6>1, <6>2, Lengths DEF IInv, Incomplete
          <6>4. TotalLen(nb[HeaderLen]) \in Nat
            BY <4>2, Lengths
          <6> QED
            BY <1>1, <3>1, <6>3, <6>4
        <5> QED
          BY <1>1, <5>1, <5>2, Lengths
      <4> QED
        BY <1>1, <3>1, <4>2, <4>3, <4>4, Lengths
    <3> QED
      BY <1>3, <2>2, <3>1, <3>3 DEF Incomplete
  <2> QED
    BY <1>5, <2>1, <2>2
<1>8. ASSUME Accepts(buf, b), Completes(nb), nb[HeaderLen - 1] = RpcType
      PROVE  /\ d0.end = Len(ns) /\ d0.frame = nb /\ d0 \in [end : Nat, frame : Seq(Byte)]
             /\ IsFrame(nb) /\ Len(nb) = Len(buf) + 1 /\ Len(nb) <= Len(ns)
             /\ nb = SubSeq(ns, d0.end - Len(nb) + 1, d0.end)
  <2>1. /\ nb \in Seq(Byte) /\ Len(nb) = Len(buf) + 1 /\ StreamEndsWith(nb, ns)
    BY <1>8, AcceptExtends
  <2>2. IsFrame(nb)
    BY <1>8, CompleteIsFrame
  <2>3. nb = SubSeq(ns, Len(ns) - Len(nb) + 1, Len(ns))
    <3> DEFINE m == Len(ns) - Len(nb) + 1
               n == Len(ns)
    <3> HIDE DEF nb, ns
    <3>1. m \in 1..n /\ n \in Nat /\ Len(nb) = n - m + 1
      BY <1>1, <1>2, <2>1
    <3>2. \A i \in m..n : ns[i] \in Byte
      BY <1>2, <3>1
    <3>3. \A i \in 1..Len(nb) : nb[i] = ns[m + i - 1]
      BY <1>1, <1>2, <2>1 DEF StreamEndsWith
    <3> HIDE DEF m, n
    <3>4. /\ SubSeq(ns, m, n) \in Seq(Byte)
          /\ Len(SubSeq(ns, m, n)) = IF m <= n THEN n - m + 1 ELSE 0
          /\ \A i \in 1..(n - m + 1) : SubSeq(ns, m, n)[i] = ns[m + i - 1]
      BY <3>1, <3>2, SubSeqProperties
    <3>5. Len(SubSeq(ns, m, n)) = Len(nb)
      BY <3>1, <3>4
    <3>6. \A i \in 1..Len(nb) : nb[i] = SubSeq(ns, m, n)[i]
      BY <3>1, <3>3, <3>4
    <3>7. nb = SubSeq(ns, m, n)
      BY <2>1, <3>4, <3>5, <3>6, SeqEqual
    <3> QED
      BY <3>7 DEF m, n
  <2>4. Len(nb) <= Len(ns)
    BY <1>1, <1>2, <2>1
  <2> HIDE DEF nb, ns
  <2>5. d0.end = Len(ns) /\ d0.frame = nb /\ d0 \in [end : Nat, frame : Seq(Byte)]
    BY <1>1, <1>2, <2>1
  <2> QED
    BY <2>1, <2>2, <2>3, <2>4, <2>5
<1>9. TypeOK'
  <2>1. dispatched' \subseteq [end : Nat, frame : Seq(Byte)]
    BY <1>6, <1>8 DEF IInv, TypeOK
  <2>2. idleAt' \subseteq Nat
    <3>1. idleAt' = IF buf' = <<>> THEN idleAt \cup {Len(stream')} ELSE idleAt
      BY DEF FeedByte
    <3>2. idleAt \subseteq Nat /\ Len(stream') \in Nat
      BY <1>2, <1>3 DEF IInv, TypeOK
    <3> QED
      BY <3>1, <3>2
  <2> QED
    BY <1>2, <1>3, <1>7, <2>1, <2>2 DEF IInv, TypeOK
<1>10. \A d \in dispatched : /\ d.end \in Nat /\ d.frame \in Seq(Byte)
                             /\ Len(d.frame) \in Nat
                             /\ d.end <= Len(stream) - Len(buf)
  BY DEF IInv, TypeOK, AfterDispatched
<1>11. AfterDispatched'
  <2> HIDE DEF ns, nb
  <2>1. Len(ns) - Len(buf') >= Len(stream) - Len(buf)
    BY <1>1, <1>2, <1>5, AcceptExtends DEF nb
  <2>2. ASSUME NEW d \in dispatched PROVE d.end <= Len(ns) - Len(buf')
    BY <1>1, <1>2, <1>7, <1>10, <2>1
  <2>3. CASE dispatched' = dispatched
    BY <1>3, <2>2, <2>3 DEF AfterDispatched
  <2>4. CASE /\ Accepts(buf, b) /\ Completes(nb) /\ buf' = <<>>
             /\ nb[HeaderLen - 1] = RpcType /\ dispatched' = dispatched \cup {d0}
    <3>1. d0.end <= Len(ns) - Len(buf')
      BY <1>2, <1>8, <2>4
    <3> QED
      BY <1>3, <2>2, <2>4, <3>1 DEF AfterDispatched
  <2> QED
    BY <1>6, <2>3, <2>4
<1>12. DispatchedWhole'
  <2> HIDE DEF ns, nb, d0
  <2>1. ASSUME NEW d \in dispatched
        PROVE  /\ IsFrame(d.frame) /\ d.frame[HeaderLen - 1] = RpcType
               /\ d.end \in Len(d.frame)..Len(ns)
               /\ d.frame = SubSeq(ns, d.end - Len(d.frame) + 1, d.end)
    <3>1. /\ IsFrame(d.frame) /\ d.frame[HeaderLen - 1] = RpcType
          /\ d.end \in Len(d.frame)..Len(stream)
          /\ d.frame = SubSeq(stream, d.end - Len(d.frame) + 1, d.end)
      BY DEF IInv, DispatchedWhole
    <3>2. d.end \in Nat /\ d.frame \in Seq(Byte) /\ Len(d.frame) \in Nat
      BY <1>10
    <3> DEFINE m == d.end - Len(d.frame) + 1
               n == d.end
    <3>3. Len(d.frame) > 0
      BY <3>1, <3>2, Lengths DEF IsFrame
    <3>4. m \in 1..n /\ n <= Len(stream) /\ n \in Nat
      BY <3>1, <3>2, <3>3
    <3>5. SubSeq(ns, m, n) = SubSeq(stream, m, n)
      <4>1. ns = stream \o <<b>> /\ <<b>> \in Seq(Byte)
        BY <1>1, AppendIsConcat DEF ns
      <4>2. m \in 1..Len(stream) /\ n \in 1..Len(stream)
        BY <1>1, <3>4
      <4> HIDE DEF m, n
      <4>3. SubSeq(stream \o <<b>>, m, n) = SubSeq(stream, m, n)
        BY <1>1, <4>1, <4>2, SubSeqOfConcat1
      <4> QED
        BY <4>1, <4>3
    <3>6. d.end \in Len(d.frame)..Len(ns)
      BY <1>1, <1>2, <3>1, <3>2
    <3>7. d.frame = SubSeq(ns, d.end - Len(d.frame) + 1, d.end)
      BY <3>1, <3>5
    <3> QED
      BY <3>1, <3>6, <3>7
  <2>2. CASE dispatched' = dispatched
    BY <1>3, <2>1, <2>2 DEF DispatchedWhole
  <2>3. CASE /\ Accepts(buf, b) /\ Completes(nb) /\ buf' = <<>>
             /\ nb[HeaderLen - 1] = RpcType /\ dispatched' = dispatched \cup {d0}
    <3>1. /\ d0.end = Len(ns) /\ d0.frame = nb /\ IsFrame(nb)
          /\ Len(nb) <= Len(ns) /\ Len(nb) = Len(buf) + 1
          /\ nb = SubSeq(ns, d0.end - Len(nb) + 1, d0.end)
          /\ nb[HeaderLen - 1] = RpcType
      BY <1>8, <2>3
    <3>2. d0.end \in Len(nb)..Len(ns)
      BY <1>1, <1>2, <3>1
    <3> QED
      BY <1>3, <2>1, <2>3, <3>1, <3>2 DEF DispatchedWhole
  <2> QED
    BY <1>6, <2>2, <2>3
<1>13. NoOverlap'
  <2> HIDE DEF ns, nb, d0
  <2>1. CASE dispatched' = dispatched
    BY <2>1 DEF IInv, NoOverlap
  <2>2. CASE /\ Accepts(buf, b) /\ Completes(nb) /\ buf' = <<>>
             /\ nb[HeaderLen - 1] = RpcType /\ dispatched' = dispatched \cup {d0}
    <3>1. d0.end = Len(stream) + 1 /\ d0.frame = nb /\ Len(nb) = Len(buf) + 1
      BY <1>2, <1>8, <2>2
    <3>2. ASSUME NEW d \in dispatched
          PROVE  d.end <= d0.end - Len(d0.frame) /\ ~(d0.end < d.end)
      BY <1>1, <1>10, <3>1, <3>2
    <3> QED
      BY <1>1, <2>2, <3>1, <3>2 DEF IInv, NoOverlap
  <2> QED
    BY <1>6, <2>1, <2>2
<1> QED
  BY <1>7, <1>9, <1>11, <1>12, <1>13 DEF IInv

LEMMA CloseInv == ASSUME IInv, CloseWindow PROVE IInv'
<1>1. buf' = <<>> /\ Len(buf') = 0 /\ stream' = stream /\ dispatched' = dispatched
  BY DEF CloseWindow
<1>2. stream \in Seq(Byte) /\ Len(stream) \in Nat
  BY DEF IInv, TypeOK
<1>3. TypeOK'
  <2>1. armed' \in BOOLEAN /\ idleAt' = idleAt
    BY DEF CloseWindow
  <2>2. buf' \in Seq(Byte)
    BY <1>1, EmptySeq
  <2> QED
    BY <1>1, <2>1, <2>2 DEF IInv, TypeOK
<1>4. Incomplete' /\ HeaderSoFar(buf') /\ StreamEndsWith(buf', stream')
  BY <1>1, <1>2, Lengths DEF Incomplete, HeaderSoFar, StreamEndsWith
<1>5. AfterDispatched'
  <2> SUFFICES ASSUME NEW d \in dispatched PROVE d.end <= Len(stream) - 0
    BY <1>1 DEF AfterDispatched
  <2>1. d.end \in Len(d.frame)..Len(stream) /\ Len(d.frame) \in Nat
    BY DEF IInv, TypeOK, DispatchedWhole
  <2> QED
    BY <1>2, <2>1
<1> QED
  BY <1>1, <1>3, <1>4, <1>5 DEF IInv, DispatchedWhole, NoOverlap

THEOREM Invariance == Spec => []IInv
<1>1. IInv /\ [Next]_vars => IInv'
  <2> SUFFICES ASSUME IInv, [Next]_vars PROVE IInv'
    OBVIOUS
  <2>1. CASE UNCHANGED vars
    BY <2>1
    DEF vars, IInv, TypeOK, Incomplete, HeaderSoFar, StreamEndsWith,
        AfterDispatched, DispatchedWhole, NoOverlap
  <2> QED
    BY <2>1, FeedInv, CloseInv DEF Next
<1> QED
  BY InitInv, <1>1, PTL DEF Spec

-----------------------------------------------------------------------------
(* The theorems *)

\* The parser's state stays in its type whatever bytes arrive.
THEOREM TypeCorrect == Spec => []TypeOK
BY Invariance, PTL DEF IInv

\* buf_ is never written past the longest frame, for every alphabet and every
\* buffer that holds one (improv_wifi.cpp:51-62).
THEOREM BufferNeverFull == Spec => []NeverFull
<1>1. IInv => NeverFull
  BY IncompleteIsShort DEF IInv, NeverFull
<1> QED
  BY <1>1, Invariance, PTL

\* Only complete and correct frames are acted upon, and no byte is taken for two
\* (improv_wifi.cpp:50-104).
THEOREM ParserSound == Spec => []DispatchedAreFrames
BY Invariance, PTL DEF IInv, DispatchedAreFrames

-----------------------------------------------------------------------------
(* What the parser owes to a frame that starts while it is at rest *)

Short(s) == Len(s) < HeaderLen \/ Len(s) < TotalLen(s[HeaderLen])

\* From a position of rest on, the buffer follows the stream for as long as the
\* stream looks like a frame.
RestInv ==
  /\ \A i \in idleAt : i <= Len(stream)
  /\ armed => \A i \in idleAt :
       LET s == SubSeq(stream, i + 1, Len(stream)) IN
         HeaderSoFar(s) /\ Short(s) => buf = s

\* No frame can be under way when nothing that could begin one is near.
Quiet(s, i) == \A k \in (i - MaxFrameLen + 2)..i : s[k] # Magic[1]
QuietInv ==
  \A i \in (MaxFrameLen - 1)..Len(stream) : Quiet(stream, i) => i \in idleAt

LEMMA TailGrows ==
  ASSUME NEW s \in Seq(Byte), NEW b \in Byte, NEW i \in 0..Len(s)
  PROVE  /\ SubSeq(s, i + 1, Len(s)) \in Seq(Byte)
         /\ Len(SubSeq(s, i + 1, Len(s))) = Len(s) - i
         /\ SubSeq(Append(s, b), i + 1, Len(s) + 1) = Append(SubSeq(s, i + 1, Len(s)), b)
<1> DEFINE r == SubSeq(s, i + 1, Len(s))
           a == Append(s, b)
           q == SubSeq(a, i + 1, Len(s) + 1)
<1>1. Len(s) \in Nat /\ i \in Nat /\ i <= Len(s)
  BY LenProperties
<1>2. /\ a \in Seq(Byte) /\ Len(a) = Len(s) + 1
      /\ \A k \in 1..Len(s) : a[k] = s[k]
      /\ a[Len(s) + 1] = b
  BY AppendProperties
<1> HIDE DEF a
<1>3. /\ r \in Seq(Byte) /\ Len(r) = Len(s) - i
      /\ \A k \in 1..(Len(s) - i) : r[k] = s[i + k]
  <2>1. \A k \in (i + 1)..Len(s) : s[k] \in Byte
    BY <1>1, ElementOfSeq
  <2>2. /\ SubSeq(s, i + 1, Len(s)) \in Seq(Byte)
        /\ Len(SubSeq(s, i + 1, Len(s))) = IF i + 1 <= Len(s) THEN Len(s) - (i + 1) + 1 ELSE 0
        /\ \A k \in 1..(Len(s) - (i + 1) + 1) :
             SubSeq(s, i + 1, Len(s))[k] = s[(i + 1) + k - 1]
    BY <1>1, <2>1, SubSeqProperties
  <2>3. Len(r) = Len(s) - i
    BY <1>1, <2>2
  <2>4. ASSUME NEW k \in 1..(Len(s) - i) PROVE r[k] = s[i + k]
    <3>1. k \in 1..(Len(s) - (i + 1) + 1) /\ (i + 1) + k - 1 = i + k
      BY <1>1
    <3> QED
      BY <2>2, <3>1
  <2> QED
    BY <2>2, <2>3, <2>4
<1>4. /\ q \in Seq(Byte) /\ Len(q) = Len(s) + 1 - i
      /\ \A k \in 1..(Len(s) + 1 - i) : q[k] = a[i + k]
  <2>1. \A k \in (i + 1)..(Len(s) + 1) : a[k] \in Byte
    BY <1>1, <1>2, ElementOfSeq
  <2>2. /\ q \in Seq(Byte)
        /\ Len(q) = IF i + 1 <= Len(s) + 1 THEN (Len(s) + 1) - (i + 1) + 1 ELSE 0
        /\ \A k \in 1..((Len(s) + 1) - (i + 1) + 1) : q[k] = a[(i + 1) + k - 1]
    BY <1>1, <2>1, SubSeqProperties
  <2>3. Len(q) = Len(s) + 1 - i
    BY <1>1, <2>2
  <2>4. ASSUME NEW k \in 1..(Len(s) + 1 - i) PROVE q[k] = a[i + k]
    <3>1. k \in 1..((Len(s) + 1) - (i + 1) + 1) /\ (i + 1) + k - 1 = i + k
      BY <1>1
    <3> QED
      BY <2>2, <3>1
  <2> QED
    BY <2>2, <2>3, <2>4
<1> HIDE DEF r, q
<1>5. /\ Append(r, b) \in Seq(Byte) /\ Len(Append(r, b)) = Len(r) + 1
      /\ \A k \in 1..Len(r) : Append(r, b)[k] = r[k]
      /\ Append(r, b)[Len(r) + 1] = b
  BY <1>3, AppendProperties
<1>6. ASSUME NEW k \in 1..Len(q) PROVE q[k] = Append(r, b)[k]
  <2>1. CASE k \in 1..Len(r)
    <3>1. k \in 1..(Len(s) - i) /\ i + k \in 1..Len(s)
      BY <1>1, <1>3, <2>1
    <3> QED
      BY <1>2, <1>3, <1>4, <1>5, <2>1, <3>1
  <2>2. CASE k = Len(r) + 1
    <3>1. i + k = Len(s) + 1
      BY <1>1, <1>3, <2>2
    <3> QED
      BY <1>2, <1>4, <1>5, <2>2, <3>1
  <2>3. Len(q) = Len(r) + 1 /\ Len(r) \in Nat
    BY <1>1, <1>3, <1>4
  <2>4. k \in 1..Len(r) \/ k = Len(r) + 1
    BY <2>3
  <2> QED
    BY <2>1, <2>2, <2>4
<1>7. q = Append(r, b)
  <2>1. Len(q) = Len(Append(r, b))
    BY <1>1, <1>3, <1>4, <1>5
  <2> QED
    BY <1>4, <1>5, <1>6, <2>1, SeqEqual
<1> QED
  BY <1>3, <1>7 DEF r, q, a

LEMMA InnerStays ==
  ASSUME NEW s \in Seq(Byte), NEW b \in Byte, NEW i \in Nat, NEW j \in (i + 1)..Len(s)
  PROVE  SubSeq(Append(s, b), i + 1, j) = SubSeq(s, i + 1, j)
<1>1. i + 1 \in 1..Len(s) /\ j \in 1..Len(s) /\ Len(s) \in Nat
  BY LenProperties
<1>2. Append(s, b) = s \o <<b>> /\ <<b>> \in Seq(Byte)
  BY AppendIsConcat
<1> QED
  BY <1>1, <1>2, SubSeqOfConcat1

\* Whatever looks like a frame looked like one before its last byte.
LEMMA ShortBefore ==
  ASSUME NEW s \in Seq(Byte), NEW b \in Byte,
         HeaderSoFar(Append(s, b)), Short(Append(s, b)) \/ IsFrame(Append(s, b))
  PROVE  HeaderSoFar(s) /\ Short(s)
<1> DEFINE a == Append(s, b)
<1>1. /\ a \in Seq(Byte) /\ Len(a) = Len(s) + 1 /\ Len(s) \in Nat
      /\ \A k \in 1..Len(s) : a[k] = s[k]
  BY AppendProperties, LenProperties
<1>2. HeaderSoFar(a) /\ (Short(a) \/ IsFrame(a))
  OBVIOUS
<1> HIDE DEF a
<1>3. HeaderSoFar(s)
  <2>1. ASSUME NEW i \in 1..Len(s), i <= Len(Magic) PROVE s[i] = Magic[i]
    <3>1. i \in 1..Len(a)
      BY <1>1
    <3> QED
      BY <1>1, <1>2, <2>1, <3>1 DEF HeaderSoFar
  <2>2. ASSUME Len(s) > Len(Magic) PROVE s[Len(Magic) + 1] = Version
    <3>1. Len(Magic) + 1 \in 1..Len(s) /\ Len(a) > Len(Magic)
      BY <1>1, <2>2, Lengths
    <3>2. a[Len(Magic) + 1] = Version
      BY <1>2, <3>1 DEF HeaderSoFar
    <3> QED
      BY <1>1, <3>1, <3>2
  <2> QED
    BY <2>1, <2>2 DEF HeaderSoFar
<1>4. ASSUME Len(s) >= HeaderLen PROVE Len(s) < TotalLen(s[HeaderLen])
  <2>1. HeaderLen \in 1..Len(s) /\ ~(Len(a) < HeaderLen)
    BY <1>1, <1>4, Lengths
  <2>2. a[HeaderLen] = s[HeaderLen] /\ s[HeaderLen] \in Byte
    BY <1>1, <2>1, ElementOfSeq
  <2>3. Len(a) <= TotalLen(a[HeaderLen])
    <3>1. TotalLen(a[HeaderLen]) \in Nat
      BY <2>2, Lengths
    <3> QED
      BY <1>1, <1>2, <2>1, <3>1 DEF Short, IsFrame
  <2>4. TotalLen(s[HeaderLen]) \in Nat
    BY <2>2, Lengths
  <2> QED
    BY <1>1, <2>2, <2>3, <2>4
<1>5. Len(s) < HeaderLen \/ Len(s) >= HeaderLen
  BY <1>1, Lengths
<1> QED
  BY <1>3, <1>4, <1>5 DEF Short

\* The buffer takes the next byte of what still looks like a frame.
LEMMA ShortIsKept ==
  ASSUME IInv, NEW b \in Byte, HeaderSoFar(Append(buf, b)), Short(Append(buf, b))
  PROVE  NextBuf(buf, b) = Append(buf, b)
<1> DEFINE a == Append(buf, b)
<1>1. buf \in Seq(Byte) /\ Len(buf) \in Nat
  BY DEF IInv, TypeOK
<1>2. /\ a \in Seq(Byte) /\ Len(a) = Len(buf) + 1
      /\ \A k \in 1..Len(buf) : a[k] = buf[k]
      /\ a[Len(buf) + 1] = b
  BY <1>1, AppendProperties
<1>3. HeaderSoFar(a) /\ Short(a)
  OBVIOUS
<1>4. ~Completes(a)
  <2> HIDE DEF a
  <2>1. SUFFICES ASSUME Len(a) >= HeaderLen PROVE Len(a) # TotalLen(a[HeaderLen])
    BY DEF Completes
  <2>2. a[HeaderLen] \in Byte
    BY <1>2, <2>1, Lengths
  <2> QED
    BY <1>1, <1>2, <1>3, <2>1, <2>2, Lengths DEF Short
<1>5. Accepts(buf, b)
  <2> HIDE DEF a
  <2>1. CASE Len(buf) < Len(Magic)
    <3>1. Len(buf) + 1 \in 1..Len(a) /\ Len(buf) + 1 <= Len(Magic)
      BY <1>1, <1>2, <2>1, Lengths
    <3> QED
      BY <1>2, <1>3, <2>1, <3>1 DEF HeaderSoFar, Accepts
  <2>2. CASE Len(buf) = Len(Magic)
    BY <1>1, <1>2, <1>3, <2>2, Lengths DEF HeaderSoFar, Accepts
  <2>3. CASE Len(buf) \in {HeaderLen - 2, HeaderLen - 1}
    BY <2>3 DEF Accepts
  <2>4. CASE Len(buf) >= HeaderLen
    <3>1. HeaderLen \in 1..Len(buf) /\ ~(Len(a) < HeaderLen)
      BY <1>1, <1>2, <2>4, Lengths
    <3>2. a[HeaderLen] = buf[HeaderLen] /\ buf[HeaderLen] \in Byte
      BY <1>1, <1>2, <3>1, ElementOfSeq
    <3>3. Len(a) < TotalLen(buf[HeaderLen])
      BY <1>3, <3>1, <3>2 DEF Short
    <3>4. Len(buf) < HeaderLen + buf[HeaderLen]
      BY <1>1, <1>2, <3>2, <3>3, Lengths DEF Byte
    <3> QED
      BY <2>4, <3>4 DEF Accepts
  <2> QED
    BY <1>1, <2>1, <2>2, <2>3, <2>4, Lengths
<1>6. ~(Len(buf) >= kBufferSize)
  BY <1>1, IncompleteIsShort, BufferAssumption DEF IInv
<1> QED
  BY <1>4, <1>5, <1>6 DEF NextBuf

\* The last byte of a request is acted upon.
LEMMA FrameIsDispatched ==
  ASSUME IInv, NEW b \in Byte, IsFrame(Append(buf, b)), Append(buf, b)[HeaderLen - 1] = RpcType
  PROVE  IsDispatched(buf, b)
<1> DEFINE a == Append(buf, b)
<1>1. buf \in Seq(Byte) /\ Len(buf) \in Nat
  BY DEF IInv, TypeOK
<1>2. /\ a \in Seq(Byte) /\ Len(a) = Len(buf) + 1
      /\ \A k \in 1..Len(buf) : a[k] = buf[k]
      /\ a[Len(buf) + 1] = b
  BY <1>1, AppendProperties
<1>3. IsFrame(a) /\ a[HeaderLen - 1] = RpcType
  OBVIOUS
<1>4. SubSeq(a, 1, Len(a) - 1) = buf
  <2>1. a = buf \o <<b>> /\ <<b>> \in Seq(Byte) /\ Len(a) - 1 = Len(buf)
    BY <1>1, <1>2, AppendIsConcat
  <2> HIDE DEF a
  <2>2. CASE Len(buf) = 0
    <3>1. SubSeq(a, 1, 0) = <<>>
      BY SubSeqEmpty
    <3>2. buf = <<>>
      BY <1>1, <2>2, EmptySeq
    <3> QED
      BY <2>1, <2>2, <3>1, <3>2
  <2>3. CASE Len(buf) > 0
    <3>1. \A k \in 1..Len(buf) : a[k] \in Byte
      BY <1>1, <1>2, ElementOfSeq
    <3>2. /\ SubSeq(a, 1, Len(buf)) \in Seq(Byte)
          /\ Len(SubSeq(a, 1, Len(buf))) = IF 1 <= Len(buf) THEN Len(buf) - 1 + 1 ELSE 0
          /\ \A k \in 1..(Len(buf) - 1 + 1) : SubSeq(a, 1, Len(buf))[k] = a[1 + k - 1]
      BY <1>1, <3>1, SubSeqProperties
    <3>3. Len(SubSeq(a, 1, Len(buf))) = Len(buf)
      BY <1>1, <2>3, <3>2
    <3>4. \A k \in 1..Len(buf) : SubSeq(a, 1, Len(buf))[k] = buf[k]
      BY <1>1, <1>2, <3>2
    <3>5. SubSeq(a, 1, Len(buf)) = buf
      BY <1>1, <3>2, <3>3, <3>4, SeqEqual
    <3> QED
      BY <2>1, <3>5
  <2> QED
    BY <1>1, <2>2, <2>3
<1> HIDE DEF a
<1>5. /\ Len(a) >= HeaderLen /\ Len(a) = TotalLen(a[HeaderLen]) /\ Completes(a)
      /\ a[Len(a)] = Checksum(buf)
  BY <1>3, <1>4 DEF IsFrame, Completes
<1>6. a[HeaderLen] \in Byte
  BY <1>2, <1>5, Lengths
<1>7. Len(buf) >= HeaderLen /\ Len(buf) = HeaderLen + a[HeaderLen]
  BY <1>1, <1>2, <1>5, <1>6, Lengths DEF Byte
<1>8. a[HeaderLen] = buf[HeaderLen]
  <2>1. HeaderLen \in 1..Len(buf)
    BY <1>1, <1>7, Lengths
  <2> QED
    BY <1>2, <2>1
<1>9. b = Checksum(buf)
  BY <1>2, <1>5
<1>10. Accepts(buf, b)
  BY <1>7, <1>8, <1>9 DEF Accepts
<1>11. Len(buf) < kBufferSize
  BY IncompleteIsShort DEF IInv
<1> QED
  BY <1>3, <1>5, <1>10, <1>11 DEF IsDispatched, a

LEMMA FeedRest == ASSUME IInv, RestInv, NEW b \in Byte, FeedByte(b) PROVE RestInv'
<1>1. /\ stream \in Seq(Byte) /\ Len(stream) \in Nat /\ idleAt \subseteq Nat
  BY DEF IInv, TypeOK
<1>2. stream' = Append(stream, b) /\ Len(stream') = Len(stream) + 1
  BY <1>1, AppendProperties DEF FeedByte
<1>3. armed /\ buf' = NextBuf(buf, b)
      /\ idleAt' = IF buf' = <<>> THEN idleAt \cup {Len(stream')} ELSE idleAt
  BY DEF FeedByte
<1>4. \A i \in idleAt' : i <= Len(stream')
  BY <1>1, <1>2, <1>3 DEF RestInv
<1>5. ASSUME NEW i \in idleAt', HeaderSoFar(SubSeq(stream', i + 1, Len(stream'))),
             Short(SubSeq(stream', i + 1, Len(stream')))
      PROVE  buf' = SubSeq(stream', i + 1, Len(stream'))
  <2>1. CASE i \in idleAt
    <3>1. i \in 0..Len(stream)
      BY <1>1, <2>1 DEF RestInv
    <3> DEFINE r == SubSeq(stream, i + 1, Len(stream))
    <3>2. r \in Seq(Byte) /\ SubSeq(stream', i + 1, Len(stream')) = Append(r, b)
      BY <1>1, <1>2, <3>1, TailGrows
    <3>3. HeaderSoFar(r) /\ Short(r)
      BY <1>5, <3>2, ShortBefore
    <3>4. buf = r
      BY <1>3, <2>1, <3>3 DEF RestInv
    <3> HIDE DEF r
    <3> QED
      BY <1>3, <1>5, <3>2, <3>4, ShortIsKept
  <2>2. CASE i \notin idleAt
    <3>1. i = Len(stream) + 1 /\ buf' = <<>>
      BY <1>2, <1>3, <2>2
    <3>2. SubSeq(stream', i + 1, Len(stream')) = <<>>
      <4>1. i + 1 \in Int /\ Len(stream') \in Int /\ Len(stream') < i + 1
        BY <1>1, <1>2, <3>1
      <4> QED
        BY <4>1, SubSeqEmpty
    <3> QED
      BY <3>1, <3>2
  <2> QED
    BY <2>1, <2>2
<1> QED
  BY <1>4, <1>5 DEF RestInv

LEMMA FeedClean ==
  ASSUME IInv, RestInv, CleanFramesDispatched, NEW b \in Byte, FeedByte(b)
  PROVE  CleanFramesDispatched'
<1>1. /\ stream \in Seq(Byte) /\ Len(stream) \in Nat /\ idleAt \subseteq Nat
  BY DEF IInv, TypeOK
<1>2. stream' = Append(stream, b) /\ Len(stream') = Len(stream) + 1
  BY <1>1, AppendProperties DEF FeedByte
<1>3. /\ armed /\ idleAt' \subseteq idleAt \cup {Len(stream')} /\ dispatched \subseteq dispatched'
      /\ IsDispatched(buf, b) => [end |-> Len(stream'), frame |-> Append(buf, b)] \in dispatched'
  BY DEF FeedByte
<1> SUFFICES ASSUME NEW i \in idleAt', NEW j \in (i + HeaderLen)..Len(stream'),
                    IsFrame(SubSeq(stream', i + 1, j)),
                    SubSeq(stream', i + 1, j)[HeaderLen - 1] = RpcType
             PROVE  [end |-> j, frame |-> SubSeq(stream', i + 1, j)] \in dispatched'
  BY DEF CleanFramesDispatched
<1>4. i \in idleAt /\ i \in Nat /\ j \in Nat
  <2>1. HeaderLen \in Nat /\ HeaderLen > 0
    BY Lengths
  <2>2. i # Len(stream')
    BY <1>1, <1>2, <2>1
  <2> QED
    BY <1>1, <1>2, <1>3, <2>1, <2>2
<1>5. CASE j <= Len(stream)
  <2>1. j \in (i + 1)..Len(stream) /\ j \in (i + HeaderLen)..Len(stream)
    BY <1>1, <1>4, <1>5, Lengths
  <2>2. SubSeq(stream', i + 1, j) = SubSeq(stream, i + 1, j)
    BY <1>1, <1>2, <1>4, <2>1, InnerStays
  <2>3. [end |-> j, frame |-> SubSeq(stream, i + 1, j)] \in dispatched
    BY <1>4, <2>1, <2>2 DEF CleanFramesDispatched
  <2> QED
    BY <1>3, <2>2, <2>3
<1>6. CASE j > Len(stream)
  <2>1. j = Len(stream') /\ i \in 0..Len(stream)
    BY <1>1, <1>2, <1>4, <1>6 DEF RestInv
  <2> DEFINE r == SubSeq(stream, i + 1, Len(stream))
  <2>2. r \in Seq(Byte) /\ SubSeq(stream', i + 1, j) = Append(r, b)
    BY <1>1, <1>2, <2>1, TailGrows
  <2>3. HeaderSoFar(Append(r, b))
    <3> DEFINE f == Append(r, b)
    <3>1. IsFrame(f)
      BY <2>2
    <3> HIDE DEF f
    <3>2. HeaderSoFar(f)
      BY <3>1, Lengths DEF IsFrame, HeaderSoFar
    <3> QED
      BY <3>2 DEF f
  <2>4. HeaderSoFar(r) /\ Short(r)
    BY <2>2, <2>3, ShortBefore
  <2>5. buf = r
    BY <1>3, <1>4, <2>4 DEF RestInv
  <2> HIDE DEF r
  <2>6. IsDispatched(buf, b)
    BY <2>2, <2>5, FrameIsDispatched
  <2> QED
    BY <1>3, <2>1, <2>2, <2>5, <2>6
<1> QED
  BY <1>1, <1>4, <1>5, <1>6

LEMMA FeedQuiet == ASSUME IInv, QuietInv, NEW b \in Byte, FeedByte(b) PROVE QuietInv'
<1>1. /\ stream \in Seq(Byte) /\ Len(stream) \in Nat /\ buf' \in Seq(Byte)
      /\ IInv'
  BY FeedInv DEF IInv, TypeOK
<1>2. /\ stream' = Append(stream, b) /\ Len(stream') = Len(stream) + 1
      /\ \A k \in 1..Len(stream) : stream'[k] = stream[k]
  BY <1>1, AppendProperties DEF FeedByte
<1>3. idleAt' = IF buf' = <<>> THEN idleAt \cup {Len(stream')} ELSE idleAt
  BY DEF FeedByte
<1> SUFFICES ASSUME NEW i \in (MaxFrameLen - 1)..Len(stream'), Quiet(stream', i)
             PROVE  i \in idleAt'
  BY DEF QuietInv
<1>4. CASE i <= Len(stream)
  <2>1. \A k \in (i - MaxFrameLen + 2)..i : k \in 1..Len(stream)
    BY <1>1, <1>4, Lengths
  <2>2. Quiet(stream, i)
    BY <1>2, <2>1 DEF Quiet
  <2>3. i \in (MaxFrameLen - 1)..Len(stream)
    BY <1>1, <1>4, Lengths
  <2> QED
    BY <1>3, <2>2, <2>3 DEF QuietInv
<1>5. CASE i > Len(stream)
  <2>1. i = Len(stream')
    BY <1>1, <1>2, <1>5, Lengths
  <2>2. /\ Len(buf') < MaxFrameLen /\ Len(buf') \in Nat
        /\ HeaderSoFar(buf') /\ StreamEndsWith(buf', stream')
    <3>1. Len(buf) < MaxFrameLen /\ Len(buf) \in Nat
      BY IncompleteIsShort DEF IInv, TypeOK
    <3>2. Incomplete' /\ HeaderSoFar(buf') /\ StreamEndsWith(buf', stream')
      BY <1>1 DEF IInv, HeaderSoFar, StreamEndsWith
    <3>3. Len(buf') < MaxFrameLen
      <4>1. CASE Len(buf') < HeaderLen
        BY <1>1, <4>1, Lengths
      <4>2. CASE Len(buf') >= HeaderLen
        <5>1. buf'[HeaderLen] \in Byte
          BY <1>1, <4>2, Lengths
        <5> QED
          BY <1>1, <3>2, <4>2, <5>1, Lengths DEF Incomplete
      <4> QED
        BY <1>1, <4>1, <4>2, Lengths
    <3> QED
      BY <1>1, <3>2, <3>3
  <2>3. Len(buf') = 0
    <3> SUFFICES ASSUME Len(buf') > 0 PROVE FALSE
      BY <2>2
    <3>1. 1 \in 1..Len(buf') /\ 1 <= Len(Magic)
      BY <2>2, Lengths
    <3>2. buf'[1] = Magic[1] /\ buf'[1] = stream'[Len(stream') - Len(buf') + 1]
      BY <2>2, <3>1 DEF HeaderSoFar, StreamEndsWith
    <3>3. Len(stream') - Len(buf') + 1 \in (i - MaxFrameLen + 2)..i
      BY <1>1, <1>2, <2>1, <2>2, Lengths
    <3> QED
      BY <3>2, <3>3 DEF Quiet
  <2>4. buf' = <<>>
    BY <1>1, <2>3, EmptySeq
  <2> QED
    BY <1>3, <2>1, <2>4
<1> QED
  BY <1>1, <1>2, <1>4, <1>5, Lengths

\* A request that starts while the parser is at rest is acted upon, as soon as
\* its checksum is in (improv_wifi.cpp:50-68).
THEOREM CleanFramesAreDispatched == Spec => [](RestInv /\ CleanFramesDispatched)
<1>1. Init => RestInv /\ CleanFramesDispatched
  <2> SUFFICES ASSUME Init PROVE RestInv /\ CleanFramesDispatched
    OBVIOUS
  <2>1. stream = <<>> /\ Len(stream) = 0 /\ buf = <<>> /\ idleAt = {0}
    BY DEF Init
  <2>2. SubSeq(stream, 0 + 1, Len(stream)) = <<>>
    BY <2>1, SubSeqEmpty
  <2>3. \A j \in (0 + HeaderLen)..0 : FALSE
    BY Lengths
  <2> QED
    BY <2>1, <2>2, <2>3 DEF RestInv, CleanFramesDispatched
<1>2. IInv /\ RestInv /\ CleanFramesDispatched /\ [Next]_vars => (RestInv /\ CleanFramesDispatched)'
  <2> SUFFICES ASSUME IInv, RestInv, CleanFramesDispatched, [Next]_vars
               PROVE  RestInv' /\ CleanFramesDispatched'
    OBVIOUS
  <2>1. CASE UNCHANGED vars
    BY <2>1 DEF vars, RestInv, CleanFramesDispatched
  <2>2. CASE CloseWindow
    BY <2>2 DEF CloseWindow, RestInv, CleanFramesDispatched
  <2> QED
    BY <2>1, <2>2, FeedRest, FeedClean DEF Next
<1> QED
  BY <1>1, <1>2, Invariance, PTL DEF Spec

THEOREM CleanFramesHeard == Spec => []CleanFramesDispatched
BY CleanFramesAreDispatched, PTL

\* Whatever came before, a request is heard after enough bytes that are not 'I'
\* (improv_wifi.cpp:50-88).
THEOREM ParserResynchronises == Spec => []Resynchronises
<1>1. Init => QuietInv
  BY Lengths DEF Init, QuietInv
<1>2. IInv /\ QuietInv /\ [Next]_vars => QuietInv'
  <2> SUFFICES ASSUME IInv, QuietInv, [Next]_vars PROVE QuietInv'
    OBVIOUS
  <2>1. CASE UNCHANGED vars \/ CloseWindow
    BY <2>1 DEF vars, CloseWindow, QuietInv, Quiet
  <2> QED
    BY <2>1, FeedQuiet DEF Next
<1>3. CleanFramesDispatched /\ QuietInv => Resynchronises
  BY DEF CleanFramesDispatched, QuietInv, Quiet, Resynchronises
<1> QED
  BY <1>1, <1>2, <1>3, CleanFramesHeard, Invariance, PTL DEF Spec

-----------------------------------------------------------------------------
(* What is inside a payload: requests *)

\* A bounded sequence is a sequence.
LEMMA BoundedIsSeq ==
  ASSUME NEW S, NEW m \in Nat, NEW s \in BoundedSeq(S, m)
  PROVE  s \in Seq(S) /\ Len(s) \in 0..m
<1>1. PICK k \in 0..m : s \in [1..k -> S]
  BY DEF BoundedSeq, SeqOf
<1>2. k \in Nat /\ s \in Seq(S) /\ DOMAIN s = 1..k
  BY <1>1, SeqDef
<1>3. Len(s) = k
  BY <1>2, LenProperties
<1> QED BY <1>1, <1>2, <1>3

\* What is cut out of a sequence is what was there.
IsPiece(t, d, m, l) == t \in Seq(Nat) /\ Len(t) = l /\ \A i \in 1..l : t[i] = d[m + i - 1]

LEMMA Piece ==
  ASSUME NEW d \in Seq(Nat), NEW m \in Nat, NEW q \in Nat, NEW l \in Nat,
         m > 0, q <= Len(d), q = m + l - 1
  PROVE  IsPiece(SubSeq(d, m, q), d, m, l)
<1>1. \A i \in m..q : d[i] \in Nat
  <2> TAKE i \in m..q
  <2>1. i \in 1..Len(d)
    BY LenProperties
  <2> QED BY <2>1, ElementOfSeq
<1> DEFINE p == SubSeq(d, m, q)
<1>2. m \in Int /\ q \in Int
  OBVIOUS
<1>3. /\ p \in Seq(Nat) /\ Len(p) = IF m <= q THEN q - m + 1 ELSE 0
      /\ \A i \in 1..(q - m + 1) : p[i] = d[m + i - 1]
  BY <1>1, <1>2, SubSeqProperties
<1> HIDE DEF p
<1>4. q - m + 1 = l /\ Len(p) = l
  BY <1>3
<1>5. p \in Seq(Nat) /\ Len(p) = l /\ \A i \in 1..l : p[i] = d[m + i - 1]
  BY <1>3, <1>4
<1> QED BY <1>5 DEF p, IsPiece

LEMMA FieldBytes ==
  ASSUME NEW s \in Seq(Nat)
  PROVE  /\ Field(s) \in Seq(Nat) /\ Len(Field(s)) = Len(s) + 1 /\ Len(s) \in Nat
         /\ Field(s)[1] = Len(s) /\ \A i \in 1..Len(s) : Field(s)[i + 1] = s[i]
<1>1. Len(s) \in Nat
  BY LenProperties
<1> DEFINE h == <<Len(s)>>
<1>2. h \in Seq(Nat) /\ Len(h) = 1 /\ h[1] = Len(s)
  BY <1>1
<1> HIDE DEF h
<1>3. /\ h \o s \in Seq(Nat) /\ Len(h \o s) = Len(h) + Len(s)
      /\ \A i \in 1..(Len(h) + Len(s)) : (h \o s)[i] = IF i <= Len(h) THEN h[i] ELSE s[i - Len(h)]
  BY <1>2, ConcatProperties
<1>4. (h \o s)[1] = Len(s)
  BY <1>1, <1>2, <1>3
<1>5. ASSUME NEW i \in 1..Len(s) PROVE (h \o s)[i + 1] = s[i]
  <2>1. i + 1 \in 1..(1 + Len(s)) /\ ~(i + 1 <= 1) /\ i + 1 - 1 = i
    BY <1>1
  <2> QED BY <1>2, <1>3, <2>1
<1>6. Field(s) = h \o s
  BY DEF Field, h
<1> QED BY <1>1, <1>2, <1>3, <1>4, <1>5, <1>6

LEMMA RequestBytes ==
  ASSUME NEW c \in Nat, NEW body \in Seq(Nat)
  PROVE  /\ Request(c, body) \in Seq(Nat) /\ Len(Request(c, body)) = Len(body) + 2
         /\ Len(body) \in Nat
         /\ Request(c, body)[1] = c /\ Request(c, body)[2] = Len(body)
         /\ \A i \in 1..Len(body) : Request(c, body)[i + 2] = body[i]
<1>1. Len(body) \in Nat
  BY LenProperties
<1> DEFINE h == <<c, Len(body)>>
<1>2. h \in Seq(Nat) /\ Len(h) = 2 /\ h[1] = c /\ h[2] = Len(body)
  BY <1>1
<1> HIDE DEF h
<1>3. /\ h \o body \in Seq(Nat) /\ Len(h \o body) = Len(h) + Len(body)
      /\ \A i \in 1..(Len(h) + Len(body)) :
           (h \o body)[i] = IF i <= Len(h) THEN h[i] ELSE body[i - Len(h)]
  BY <1>2, ConcatProperties
<1>4. (h \o body)[1] = c /\ (h \o body)[2] = Len(body)
  BY <1>1, <1>2, <1>3
<1>5. ASSUME NEW i \in 1..Len(body) PROVE (h \o body)[i + 2] = body[i]
  <2>1. i + 2 \in 1..(2 + Len(body)) /\ ~(i + 2 <= 2) /\ i + 2 - 2 = i
    BY <1>1
  <2> QED BY <1>2, <1>3, <2>1
<1>6. Request(c, body) = h \o body
  BY DEF Request, h
<1> QED BY <1>1, <1>2, <1>3, <1>4, <1>5, <1>6

\* Where the two fields of the credentials are.
HoldsFields(d, c, s, p) ==
  /\ d \in Seq(Nat) /\ Len(d) = 4 + Len(s) + Len(p)
  /\ d[1] = c /\ d[2] = Len(d) - 2 /\ d[3] = Len(s) /\ d[4 + Len(s)] = Len(p)
  /\ \A i \in 1..Len(s) : d[3 + i] = s[i]
  /\ \A i \in 1..Len(p) : d[4 + Len(s) + i] = p[i]

LEMMA SettingsBytes ==
  ASSUME NEW c \in Nat, NEW s \in Seq(Nat), NEW p \in Seq(Nat)
  PROVE  HoldsFields(Request(c, Field(s) \o Field(p)), c, s, p)
<1> DEFINE f == Field(s)
           g == Field(p)
           body == f \o g
           d == Request(c, body)
<1>1. /\ f \in Seq(Nat) /\ Len(f) = Len(s) + 1 /\ Len(s) \in Nat
      /\ f[1] = Len(s) /\ \A i \in 1..Len(s) : f[i + 1] = s[i]
  BY FieldBytes
<1>2. /\ g \in Seq(Nat) /\ Len(g) = Len(p) + 1 /\ Len(p) \in Nat
      /\ g[1] = Len(p) /\ \A i \in 1..Len(p) : g[i + 1] = p[i]
  BY FieldBytes
<1> HIDE DEF f, g
<1>3. /\ body \in Seq(Nat) /\ Len(body) = Len(f) + Len(g)
      /\ \A i \in 1..(Len(f) + Len(g)) : body[i] = IF i <= Len(f) THEN f[i] ELSE g[i - Len(f)]
  <2>1. f \in Seq(Nat) /\ g \in Seq(Nat)
    BY <1>1, <1>2
  <2> QED BY <2>1, ConcatProperties
<1> HIDE DEF body
<1>4. /\ d \in Seq(Nat) /\ Len(d) = Len(body) + 2 /\ d[1] = c /\ d[2] = Len(body)
      /\ \A i \in 1..Len(body) : d[i + 2] = body[i]
  BY <1>3, RequestBytes
<1> HIDE DEF d
<1>5. Len(body) = Len(s) + Len(p) + 2
  BY <1>1, <1>2, <1>3
<1>6. \A i \in 1..(Len(s) + 1) : d[i + 2] = f[i]
  <2> TAKE i \in 1..(Len(s) + 1)
  <2>1. Len(f) = Len(s) + 1 /\ Len(g) = Len(p) + 1 /\ Len(s) \in Nat /\ Len(p) \in Nat
    BY <1>1, <1>2
  <2>2. i \in 1..(Len(f) + Len(g)) /\ i <= Len(f) /\ i \in 1..Len(body)
    BY <1>5, <2>1
  <2> QED BY <1>3, <1>4, <2>2
<1>7. \A i \in 1..(Len(p) + 1) : d[Len(s) + 3 + i] = g[i]
  <2> TAKE i \in 1..(Len(p) + 1)
  <2>0. /\ Len(f) = Len(s) + 1 /\ Len(g) = Len(p) + 1 /\ Len(s) \in Nat /\ Len(p) \in Nat
        /\ Len(body) = Len(s) + Len(p) + 2
    BY <1>1, <1>2, <1>5
  <2>1. PICK k \in 1..Len(body) : k = Len(s) + 1 + i
    <3>1. Len(s) + 1 + i \in 1..Len(body)
      BY <2>0
    <3> QED BY <3>1
  <2>2. k \in 1..(Len(f) + Len(g)) /\ ~(k <= Len(f)) /\ k - Len(f) = i /\ k + 2 = Len(s) + 3 + i
    BY <2>0, <2>1
  <2>3. d[k + 2] = g[i]
    BY <1>3, <1>4, <2>2
  <2> QED BY <2>2, <2>3
<1>8. d[3] = Len(s) /\ \A i \in 1..Len(s) : d[3 + i] = s[i]
  <2>1. 1 \in 1..(Len(s) + 1) /\ 1 + 2 = 3
    BY <1>1
  <2>2. ASSUME NEW i \in 1..Len(s) PROVE d[3 + i] = s[i]
    <3>1. i + 1 \in 1..(Len(s) + 1) /\ i + 1 + 2 = 3 + i
      BY <1>1
    <3> QED BY <1>1, <1>6, <3>1
  <2> QED BY <1>1, <1>6, <2>1, <2>2
<1>9. d[4 + Len(s)] = Len(p) /\ \A i \in 1..Len(p) : d[4 + Len(s) + i] = p[i]
  <2>1. 1 \in 1..(Len(p) + 1) /\ Len(s) + 3 + 1 = 4 + Len(s)
    BY <1>1, <1>2
  <2>2. ASSUME NEW i \in 1..Len(p) PROVE d[4 + Len(s) + i] = p[i]
    <3>1. i + 1 \in 1..(Len(p) + 1) /\ Len(s) + 3 + (i + 1) = 4 + Len(s) + i
      BY <1>1, <1>2
    <3> QED BY <1>2, <1>7, <3>1
  <2> QED BY <1>2, <1>7, <2>1, <2>2
<1>10. Len(d) = 4 + Len(s) + Len(p) /\ d[2] = Len(d) - 2
  BY <1>1, <1>2, <1>4, <1>5
<1>11. HoldsFields(d, c, s, p)
  BY <1>4, <1>8, <1>9, <1>10 DEF HoldsFields
<1> QED BY <1>11 DEF d, body, f, g

\* Two payloads with the same fields are the same.
LEMMA SameFields ==
  ASSUME NEW c, NEW s \in Seq(Nat), NEW p \in Seq(Nat), NEW d, NEW e,
         HoldsFields(d, c, s, p), HoldsFields(e, c, s, p)
  PROVE  d = e
<1>1. d \in Seq(Nat) /\ e \in Seq(Nat) /\ Len(d) = Len(e) /\ Len(d) \in Nat
  BY LenProperties DEF HoldsFields
<1>2. PICK a, b \in Nat : a = Len(s) /\ b = Len(p)
  BY LenProperties
<1>3. ASSUME NEW i \in 1..Len(d) PROVE d[i] = e[i]
  <2>1. i \in 1..(4 + a + b)
    BY <1>2 DEF HoldsFields
  <2>2. CASE i \in {1, 2, 3, 4 + a}
    BY <1>2, <2>2 DEF HoldsFields
  <2>3. CASE i > 3 /\ i < 4 + a
    <3>1. PICK k \in 1..a : i = 3 + k
      <4>1. i - 3 \in 1..a /\ i = 3 + (i - 3)
        BY <2>1, <2>3
      <4> QED BY <4>1
    <3> QED BY <1>2, <3>1 DEF HoldsFields
  <2>4. CASE i > 4 + a
    <3>1. PICK k \in 1..b : i = 4 + a + k
      <4>1. i - 4 - a \in 1..b /\ i = 4 + a + (i - 4 - a)
        BY <2>1, <2>4
      <4> QED BY <4>1
    <3> QED BY <1>2, <3>1 DEF HoldsFields
  <2> QED BY <2>1, <2>2, <2>3, <2>4
<1> QED BY <1>1, <1>3, SeqEqual

\* What parsePayload_() takes for credentials was built from them, and what was
\* built from credentials it takes for them.
LEMMA SettingsRead ==
  ASSUME NEW d \in Seq(Nat), Len(d) >= 2, d[2] = Len(d) - 2, d[1] = WifiSettings, FieldsFit(d)
  PROVE  /\ ParsePayload(d).command = WifiSettings
         /\ ParsePayload(d).ssid \in Seq(Nat) /\ ParsePayload(d).password \in Seq(Nat)
         /\ HoldsFields(d, WifiSettings, ParsePayload(d).ssid, ParsePayload(d).password)
<1>1. Len(d) \in Nat /\ \A i \in 1..Len(d) : d[i] \in Nat
  BY LenProperties, ElementOfSeq
<1>2. PICK a \in Nat : a = d[3]
  BY <1>1 DEF FieldsFit
<1>3. PassAt(d) = 4 + a /\ 4 + a <= Len(d) /\ Len(d) >= 4
  <2>1. PassAt(d) = 4 + a
    BY <1>2 DEF PassAt
  <2>2. PassAt(d) <= Len(d) /\ Len(d) - 2 >= 2
    BY DEF FieldsFit
  <2> QED BY <1>1, <2>1, <2>2
<1>4. PICK b \in Nat : b = d[4 + a]
  BY <1>1, <1>3
<1>5. Len(d) = 4 + a + b
  BY <1>3, <1>4 DEF FieldsFit
<1> DEFINE s == SubSeq(d, 4, 3 + a)
           p == SubSeq(d, 5 + a, 4 + a + b)
<1>6. ParsePayload(d) = Settings(s, p)
  <2>1. PassAt(d) + 1 = 5 + a /\ PassAt(d) + d[PassAt(d)] = 4 + a + b
    BY <1>3, <1>4
  <2>2. ~(Len(d) < 2 \/ d[2] # Len(d) - 2) /\ d[1] = WifiSettings
    BY <1>1
  <2> QED BY <1>2, <2>1, <2>2 DEF ParsePayload
<1>7. s \in Seq(Nat) /\ Len(s) = a /\ \A i \in 1..a : s[i] = d[3 + i]
  <2>1. PICK m, q \in Nat : m = 4 /\ q = 3 + a
    OBVIOUS
  <2>2. m > 0 /\ q <= Len(d) /\ q = m + a - 1 /\ s = SubSeq(d, m, q)
    BY <1>1, <1>3, <2>1
  <2> HIDE DEF s
  <2>3. IsPiece(s, d, m, a)
    BY <2>2, Piece
  <2>4. \A i \in 1..a : m + i - 1 = 3 + i
    BY <2>1
  <2> QED BY <2>3, <2>4 DEF IsPiece
<1>8. p \in Seq(Nat) /\ Len(p) = b /\ \A i \in 1..b : p[i] = d[4 + a + i]
  <2>1. PICK m, q \in Nat : m = 5 + a /\ q = 4 + a + b
    OBVIOUS
  <2>2. m > 0 /\ q <= Len(d) /\ q = m + b - 1 /\ p = SubSeq(d, m, q)
    BY <1>1, <1>5, <2>1
  <2> HIDE DEF p
  <2>3. IsPiece(p, d, m, b)
    BY <2>2, Piece
  <2>4. \A i \in 1..b : m + i - 1 = 4 + a + i
    BY <2>1
  <2> QED BY <2>3, <2>4 DEF IsPiece
<1> HIDE DEF s, p
<1>9. HoldsFields(d, WifiSettings, s, p)
  BY <1>1, <1>2, <1>4, <1>5, <1>7, <1>8 DEF HoldsFields
<1> QED BY <1>6, <1>7, <1>8, <1>9 DEF Settings

LEMMA SettingsParsed ==
  ASSUME NEW s \in Seq(Nat), NEW p \in Seq(Nat), NEW d \in Seq(Nat),
         HoldsFields(d, WifiSettings, s, p)
  PROVE  ParsePayload(d) = Settings(s, p)
<1>1. PICK a, b \in Nat : a = Len(s) /\ b = Len(p)
  BY LenProperties
<1>2. Len(d) = 4 + a + b /\ d[1] = WifiSettings /\ d[2] = Len(d) - 2 /\ d[3] = a /\ d[4 + a] = b
  BY <1>1 DEF HoldsFields
<1>3. FieldsFit(d) /\ Len(d) >= 2
  BY <1>2 DEF FieldsFit, PassAt
<1> DEFINE r == ParsePayload(d)
<1>4. /\ r.ssid \in Seq(Nat) /\ r.password \in Seq(Nat)
      /\ HoldsFields(d, WifiSettings, r.ssid, r.password)
  BY <1>2, <1>3, SettingsRead
<1>5. r = Settings(r.ssid, r.password)
  <2>1. ~(Len(d) < 2 \/ d[2] # Len(d) - 2)
    BY <1>2
  <2> QED BY <1>2, <1>3, <2>1 DEF ParsePayload, Settings
<1> HIDE DEF r
<1>6. Len(r.ssid) \in Nat /\ Len(r.password) \in Nat
  BY <1>4, LenProperties
<1>7. Len(r.ssid) = a
  BY <1>2, <1>4 DEF HoldsFields
<1>8. Len(r.password) = b
  BY <1>2, <1>4, <1>6, <1>7 DEF HoldsFields
<1>9. r.ssid = s
  <2>1. \A i \in 1..a : r.ssid[i] = s[i]
    BY <1>1, <1>4, <1>7 DEF HoldsFields
  <2> QED BY <1>1, <1>4, <1>7, <2>1, SeqEqual
<1>10. r.password = p
  <2>1. \A i \in 1..b : r.password[i] = p[i]
    BY <1>1, <1>4, <1>7, <1>8 DEF HoldsFields
  <2> QED BY <1>1, <1>4, <1>8, <2>1, SeqEqual
<1> QED BY <1>5, <1>9, <1>10 DEF r

LEMMA RequestsAreParsed == RequestsParsed
<1>0. WifiSettings \in Nat /\ MaxPayload \in Nat /\ MaxByte \in Nat /\ Bytes \subseteq Nat
  BY WifiAssumption, PayloadBounds, MaxByteAssumption DEF Bytes
<1>1. ASSUME NEW d \in Payloads
      PROVE  LET r == ParsePayload(d) IN
               IF r.command = WifiSettings
               THEN d = Request(WifiSettings, Field(r.ssid) \o Field(r.password))
               ELSE IF r # Unknown THEN d = Request(r.command, SubSeq(d, 3, Len(d)))
               ELSE \A c \in Bytes \ {WifiSettings} : d # Request(c, SubSeq(d, 3, Len(d)))
  <2>1. d \in Seq(Bytes) /\ Len(d) \in Nat
    BY <1>0, BoundedIsSeq DEF Payloads
  <2>2. d \in Seq(Nat) /\ \A i \in 1..Len(d) : d[i] \in Nat
    BY <1>0, <2>1, SeqMonotonic, ElementOfSeq
  <2> DEFINE r == ParsePayload(d)
             rest == SubSeq(d, 3, Len(d))
             agrees == Len(d) >= 2 /\ d[2] = Len(d) - 2
  <2>3. rest \in Seq(Nat) /\ Len(rest) = (IF Len(d) >= 2 THEN Len(d) - 2 ELSE 0)
        /\ \A i \in 1..(Len(d) - 2) : rest[i] = d[i + 2]
    <3>1. \A i \in 3..Len(d) : d[i] \in Nat
      BY <2>2
    <3>2. /\ rest \in Seq(Nat) /\ Len(rest) = IF 3 <= Len(d) THEN Len(d) - 3 + 1 ELSE 0
          /\ \A i \in 1..(Len(d) - 3 + 1) : rest[i] = d[3 + i - 1]
      BY <2>1, <3>1, SubSeqProperties
    <3> HIDE DEF rest
    <3>3. Len(d) - 3 + 1 = Len(d) - 2 /\ \A i \in 1..(Len(d) - 2) : 3 + i - 1 = i + 2
      BY <2>1
    <3>4. Len(rest) = (IF Len(d) >= 2 THEN Len(d) - 2 ELSE 0)
      BY <2>1, <3>2
    <3> QED BY <3>2, <3>3, <3>4
  <2> HIDE DEF rest
  <2>4. ASSUME agrees, NEW c \in Nat, c = d[1] PROVE d = Request(c, rest)
    <3> DEFINE e == Request(c, rest)
    <3>1. /\ e \in Seq(Nat) /\ Len(e) = Len(rest) + 2 /\ e[1] = c /\ e[2] = Len(rest)
          /\ \A i \in 1..Len(rest) : e[i + 2] = rest[i]
      BY <2>3, RequestBytes
    <3> HIDE DEF e
    <3>2. Len(e) = Len(d) /\ Len(rest) = Len(d) - 2
      BY <2>1, <2>3, <2>4, <3>1
    <3>3. ASSUME NEW i \in 1..Len(d) PROVE d[i] = e[i]
      <4>1. CASE i = 1 \/ i = 2
        BY <2>4, <3>1, <3>2, <4>1
      <4>2. CASE i > 2
        <5>1. PICK k \in 1..(Len(d) - 2) : i = k + 2
          <6>1. i - 2 \in 1..(Len(d) - 2) /\ i = i - 2 + 2
            BY <2>1, <4>2
          <6> QED BY <6>1
        <5> QED BY <2>3, <3>1, <3>2, <5>1
      <4> QED BY <4>1, <4>2
    <3>4. d = e
      BY <2>2, <3>1, <3>2, <3>3, SeqEqual
    <3> QED BY <3>4 DEF e
  <2>5. CASE agrees /\ d[1] = WifiSettings /\ FieldsFit(d)
    <3>1. /\ r.command = WifiSettings /\ r.ssid \in Seq(Nat) /\ r.password \in Seq(Nat)
          /\ HoldsFields(d, WifiSettings, r.ssid, r.password)
      BY <2>2, <2>5, SettingsRead
    <3> HIDE DEF r
    <3>2. HoldsFields(Request(WifiSettings, Field(r.ssid) \o Field(r.password)),
                      WifiSettings, r.ssid, r.password)
      BY <1>0, <3>1, SettingsBytes
    <3>3. d = Request(WifiSettings, Field(r.ssid) \o Field(r.password))
      BY <3>1, <3>2, SameFields
    <3> QED BY <3>1, <3>3 DEF r
  <2>6. CASE agrees /\ d[1] # WifiSettings
    <3>1. r = [Unknown EXCEPT !.command = d[1]] /\ d[1] \in Nat
      BY <2>1, <2>2, <2>6 DEF ParsePayload
    <3>2. r.command = d[1] /\ r # Unknown /\ r.command # WifiSettings
      BY <2>6, <3>1 DEF Unknown
    <3> HIDE DEF r
    <3>3. d = Request(r.command, rest)
      BY <2>4, <2>6, <3>1, <3>2
    <3> QED BY <3>2, <3>3 DEF r, rest
  <2>7. CASE ~agrees \/ (d[1] = WifiSettings /\ ~FieldsFit(d))
    <3>1. r = Unknown
      BY <2>1, <2>7 DEF ParsePayload
    <3>2. r.command # WifiSettings
      BY <1>0, <3>1 DEF Unknown
    <3>3. ASSUME NEW c \in Bytes \ {WifiSettings}, d = Request(c, rest) PROVE FALSE
      <4>1. Len(d) = Len(rest) + 2 /\ d[1] = c /\ d[2] = Len(rest) /\ Len(rest) \in Nat
        BY <1>0, <2>3, <3>3, RequestBytes
      <4>2. agrees
        BY <2>1, <4>1
      <4> QED BY <2>7, <3>3, <4>1, <4>2
    <3> HIDE DEF r
    <3> QED BY <3>1, <3>2, <3>3 DEF r, rest
  <2> QED BY <2>5, <2>6, <2>7
<1>2. ASSUME NEW s \in BoundedSeq(Letters, MaxByte), NEW p \in BoundedSeq(Letters, MaxByte)
      PROVE  LET d == Request(WifiSettings, Field(s) \o Field(p)) IN
               Len(d) <= MaxByte => ParsePayload(d) = Settings(s, p)
  <2> DEFINE d == Request(WifiSettings, Field(s) \o Field(p))
  <2>1. /\ s \in Seq(Bytes) /\ p \in Seq(Bytes) /\ s \in Seq(Nat) /\ p \in Seq(Nat)
        /\ Len(s) \in 0..MaxByte /\ Len(p) \in 0..MaxByte
    <3>1. s \in Seq(Letters) /\ p \in Seq(Letters) /\ Len(s) \in 0..MaxByte /\ Len(p) \in 0..MaxByte
      BY <1>0, BoundedIsSeq
    <3>2. Letters \subseteq Bytes /\ Letters \subseteq Nat
      BY <1>0, PayloadBounds
    <3> QED BY <3>1, <3>2, SeqMonotonic
  <2>2. HoldsFields(d, WifiSettings, s, p)
    BY <1>0, <2>1, SettingsBytes
  <2> HIDE DEF d
  <2>3. Len(d) <= MaxByte => ParsePayload(d) = Settings(s, p)
    BY <2>1, <2>2, SettingsParsed DEF HoldsFields
  <2> QED BY <2>3 DEF d
<1> QED BY <1>1, <1>2 DEF RequestsParsed
-----------------------------------------------------------------------------
(* What a fold computes.  Induction is over a set: the library's theorems take *)
(* an operator, which the provers cannot instantiate.                          *)

\* Every non-empty set of naturals has a least element.
LEMMA LeastNat ==
  ASSUME NEW T \in SUBSET Nat, T # {}
  PROVE  \E m \in T : \A k \in T : m <= k
<1>1. IsWellFoundedOn(OpToRel(<, Nat), Nat)
  BY NatLessThanWellFounded
<1>2. PICK m \in T : \A k \in T : ~ (<<k, m>> \in OpToRel(<, Nat))
  <2>. HIDE DEF OpToRel
  <2> QED BY <1>1, WFMin
<1>3. \A k \in T : k \in Nat /\ (k < m => <<k, m>> \in OpToRel(<, Nat))
  BY DEF OpToRel
<1>4. m \in Nat /\ \A k \in T : k \in Nat /\ ~ (k < m)
  BY <1>2, <1>3
<1>5. \A k \in T : m <= k
  BY <1>4
<1> QED BY <1>5

\* What holds at 0, and at every place behind one where it holds, holds up to n.
LEMMA Induction ==
  ASSUME NEW n \in Nat, NEW S, 0 \in S, \A k \in 1..n : k - 1 \in S => k \in S
  PROVE  \A k \in 0..n : k \in S
<1> DEFINE T == {k \in 0..n : k \notin S}
<1> SUFFICES ASSUME T # {} PROVE FALSE
  OBVIOUS
<1>1. T \in SUBSET Nat
  OBVIOUS
<1>2. PICK m \in T : \A k \in T : m <= k
  <2> HIDE DEF T
  <2> QED BY <1>1, LeastNat
<1>3. m \in 1..n /\ m \notin S
  OBVIOUS
<1>4. m - 1 \in 0..n /\ ~(m <= m - 1)
  BY <1>3
<1>5. m - 1 \in S
  BY <1>2, <1>4
<1> QED BY <1>3, <1>5

LEMMA MaxInSet ==
  ASSUME NEW n \in Nat, NEW s \in SUBSET (1..n), s # {}
  PROVE  Max(s) \in s /\ \A y \in s : y <= Max(s)
<1> DEFINE Bounds == {m \in Nat : \A y \in s : y <= m}
<1>1. PICK m \in Bounds : \A k \in Bounds : m <= k
  <2>1. n \in Bounds
    OBVIOUS
  <2>2. Bounds \in SUBSET Nat
    OBVIOUS
  <2> HIDE DEF Bounds
  <2> QED BY <2>1, <2>2, LeastNat
<1>2. m \in s
  <2> SUFFICES ASSUME m \notin s PROVE FALSE
    OBVIOUS
  <2>1. PICK z \in s : TRUE
    OBVIOUS
  <2>2. m \in Nat /\ m > 0 /\ \A y \in s : y \in Nat /\ y <= m /\ y # m
    BY <2>1
  <2>3. m - 1 \in Bounds
    BY <2>2
  <2>4. m <= m - 1
    BY <1>1, <2>3
  <2> QED BY <2>2, <2>4
<1>3. \E x \in s : \A y \in s : x >= y
  BY <1>2
<1>4. Max(s) \in s /\ \A y \in s : Max(s) >= y
  BY <1>3 DEF Max
<1> QED BY <1>4

LEMMA LessMax ==
  ASSUME NEW n \in Nat, NEW k \in 1..n, NEW s \in SUBSET (1..k), s # {}
  PROVE  Max(s) \in 1..k /\ s \ {Max(s)} \in SUBSET (1..(k - 1))
<1>1. PICK x \in s : x = Max(s) /\ \A y \in s : y <= x
  BY MaxInSet, k \in Nat
<1>2. \A y \in s \ {x} : y \in 1..(k - 1)
  BY <1>1, k \in Nat
<1> QED BY <1>1, <1>2

\* One round of a loop over 1..n, as a function.
Steps(F, n, B) == F \in [B \X (1..n) -> B]

\* MapThenFoldSet recurs over the sets of places.
Recurs(g, n, base, F) ==
  \A s \in SUBSET (1..n) : g[s] = IF s = {} THEN base ELSE F[<<g[s \ {Max(s)}], Max(s)>>]

LEMMA FoldExists ==
  ASSUME NEW n \in Nat, NEW B, NEW base \in B, NEW F \in [B \X (1..n) -> B]
  PROVE  \E g \in [SUBSET (1..n) -> B] : Recurs(g, n, base, F)
<1> DEFINE S == {k \in 0..n : \E g \in [SUBSET (1..k) -> B] : Recurs(g, k, base, F)}
<1>1. 0 \in S
  <2> DEFINE g == [s \in SUBSET (1..0) |-> base]
  <2>1. \A s \in SUBSET (1..0) : s = {}
    OBVIOUS
  <2>2. g \in [SUBSET (1..0) -> B] /\ Recurs(g, 0, base, F)
    BY <2>1 DEF Recurs
  <2> HIDE DEF g
  <2>3. \E f \in [SUBSET (1..0) -> B] : Recurs(f, 0, base, F)
    BY <2>2
  <2>4. 0 \in 0..n
    OBVIOUS
  <2> QED BY <2>3, <2>4
<1>2. ASSUME NEW k \in 1..n, k - 1 \in S PROVE k \in S
  <2>1. PICK g \in [SUBSET (1..(k - 1)) -> B] : Recurs(g, k - 1, base, F)
    BY <1>2
  <2> DEFINE Value(s) == IF s = {} THEN base ELSE F[<<g[s \ {Max(s)}], Max(s)>>]
             h == [s \in SUBSET (1..k) |-> Value(s)]
  <2>2. ASSUME NEW s \in SUBSET (1..k)
        PROVE  Value(s) \in B /\ Value(s) = IF s = {} THEN base ELSE F[<<h[s \ {Max(s)}], Max(s)>>]
    <3>1. CASE s = {}
      BY <3>1
    <3>2. CASE s # {}
      <4> DEFINE t == s \ {Max(s)}
      <4>1. Max(s) \in 1..k /\ t \in SUBSET (1..(k - 1))
        BY <3>2, LessMax
      <4>2. t \in SUBSET (1..k) /\ Max(s) \in 1..n
        BY <4>1
      <4>3. h[t] = Value(t)
        BY <4>2
      <4>4. Value(t) = g[t]
        BY <2>1, <4>1 DEF Recurs
      <4>5. g[t] \in B
        BY <4>1
      <4>6. F[<<g[t], Max(s)>>] \in B
        BY <4>2, <4>5
      <4>7. Value(s) = F[<<g[t], Max(s)>>]
        BY <3>2
      <4> HIDE DEF t, h, Value
      <4>8. F[<<h[t], Max(s)>>] = F[<<g[t], Max(s)>>]
        BY <4>3, <4>4
      <4> QED BY <3>2, <4>6, <4>7, <4>8 DEF t
    <3> QED BY <3>1, <3>2
  <2>3. h \in [SUBSET (1..k) -> B]
    <3> HIDE DEF Value
    <3> QED BY <2>2
  <2>4. Recurs(h, k, base, F)
    <3>1. ASSUME NEW s \in SUBSET (1..k)
          PROVE  h[s] = IF s = {} THEN base ELSE F[<<h[s \ {Max(s)}], Max(s)>>]
      <4>1. h[s] = Value(s)
        OBVIOUS
      <4> HIDE DEF h, Value
      <4> QED BY <4>1, <2>2
    <3> HIDE DEF h
    <3> QED BY <3>1 DEF Recurs
  <2> HIDE DEF h
  <2> QED BY <2>3, <2>4
<1> HIDE DEF S
<1>3. n \in S
  BY <1>1, <1>2, Induction
<1> QED BY <1>3 DEF S

\* The sets it passes through on its way are those of the first places.
LEMMA Initial ==
  ASSUME NEW n \in Nat, NEW k \in 1..n
  PROVE  /\ 1..k \in SUBSET (1..n) /\ 1..k # {} /\ Max(1..k) = k
         /\ (1..k) \ {k} = 1..(k - 1) /\ 1..(k - 1) \in SUBSET (1..n)
<1>1. k \in Nat /\ k >= 1 /\ k <= n
  OBVIOUS
<1>2. k \in 1..k
  BY <1>1
<1>3. Max(1..k) = k
  <2>1. Max(1..k) \in 1..k /\ \A y \in 1..k : y <= Max(1..k)
    BY <1>1, <1>2, MaxInSet
  <2> QED BY <2>1, <1>2
<1>4. \A y : y \in (1..k) \ {k} <=> y \in 1..(k - 1)
  BY <1>1
<1>5. \A y \in 1..k : y \in 1..n
  BY <1>1
<1> QED BY <1>2, <1>3, <1>4, <1>5

LEMMA None == 1..0 = {} /\ \A n \in Nat : 1..0 \in SUBSET (1..n)
OBVIOUS

\* As far as its values are known to be in B.
RecursIn(g, n, B, base, F) ==
  /\ g[{}] = base
  /\ \A s \in SUBSET (1..n) : s # {} /\ g[s \ {Max(s)}] \in B =>
       g[s] = F[<<g[s \ {Max(s)}], Max(s)>>]

Loops(v, n, base, F) == v[0] = base /\ \A k \in 1..n : v[k] = F[<<v[k - 1], k>>]

\* Whatever else it is, a function that recurs so on the values in B passes
\* through the values of a loop over 1..n.
LEMMA FoldIsLoop ==
  ASSUME NEW n \in Nat, NEW B, NEW base \in B, NEW F, NEW g, Steps(F, n, B),
         RecursIn(g, n, B, base, F)
  PROVE  \E v : v \in [0..n -> B] /\ Loops(v, n, base, F) /\ v[n] = g[1..n]
<1> USE DEF Steps
<1> DEFINE v == [k \in 0..n |-> g[1..k]]
           S == {k \in 0..n : v[k] \in B}
<1>1. v[0] = base /\ 0 \in 0..n
  BY None DEF RecursIn
<1>2. ASSUME NEW k \in 1..n, v[k - 1] \in B PROVE v[k] \in B /\ v[k] = F[<<v[k - 1], k>>]
  <2>1. v[k - 1] = g[1..(k - 1)] /\ v[k] = g[1..k]
    OBVIOUS
  <2>2. g[1..k] = F[<<g[1..(k - 1)], k>>]
    <3>1. PICK s \in SUBSET (1..n) : s = 1..k
      BY Initial
    <3>2. s # {} /\ Max(s) = k /\ s \ {Max(s)} = 1..(k - 1)
      BY <3>1, Initial
    <3>3. g[s \ {Max(s)}] \in B
      BY <1>2, <2>1, <3>2
    <3> QED BY <3>1, <3>2, <3>3 DEF RecursIn
  <2> HIDE DEF v
  <2>3. v[k] = F[<<v[k - 1], k>>]
    BY <2>1, <2>2
  <2> QED BY <1>2, <2>3
<1>3. \A k \in 0..n : k \in S
  <2>1. 0 \in S
    BY <1>1
  <2>2. ASSUME NEW k \in 1..n, k - 1 \in S PROVE k \in S
    <3> HIDE DEF v
    <3>1. v[k - 1] \in B
      BY <2>2
    <3>2. k \in 0..n
      OBVIOUS
    <3> QED BY <1>2, <3>1, <3>2
  <2> HIDE DEF S
  <2> QED BY <2>1, <2>2, Induction
<1>4. \A k \in 0..n : v[k] \in B
  BY <1>3
<1>5. v \in [0..n -> B] /\ v[n] = g[1..n]
  BY <1>4
<1>6. ASSUME NEW k \in 1..n PROVE v[k] = F[<<v[k - 1], k>>]
  <2>1. k - 1 \in 0..n
    OBVIOUS
  <2> HIDE DEF v
  <2> QED BY <1>2, <1>4, <2>1
<1> HIDE DEF v
<1> QED BY <1>1, <1>5, <1>6 DEF Loops

-----------------------------------------------------------------------------
(* What is inside a payload: responses *)

\* The two folds of a response, a step and a round of each: its length, and its
\* bytes.
LengthRound(fields, s, g) == IF s = {} THEN 0 ELSE g[s \ {Max(s)}] + 1 + Len(fields[Max(s)])
BodyRound(fields, s, g) == IF s = {} THEN <<>> ELSE g[s \ {Max(s)}] \o Field(fields[Max(s)])
Body(fields) == FoldLeft(LAMBDA b, s : b \o Field(s), <<>>, fields)

\* Where each field ends in the body, and the bytes up to there.
Ends(fields, n, v) ==
  v \in [0..n -> Nat] /\ v[0] = 0 /\ \A k \in 1..n : v[k] = v[k - 1] + 1 + Len(fields[k])
Grows(fields, n, w) ==
  w \in [0..n -> Seq(Nat)] /\ w[0] = <<>> /\ \A k \in 1..n : w[k] = w[k - 1] \o Field(fields[k])

LEMMA TotalIsLoop ==
  ASSUME NEW n \in Nat, NEW fields \in [1..n -> Seq(Nat)]
  PROVE  \E v : Ends(fields, n, v) /\ v[n] = TotalLength(fields)
<1> DEFINE B == Nat
           g == CHOOSE f : f = [s \in SUBSET (DOMAIN fields) |-> LengthRound(fields, s, f)]
           F == [p \in B \X (1..n) |-> p[1] + 1 + Len(fields[p[2]])]
<1>1. TotalLength(fields) = FoldLeft(LAMBDA b, s : b + 1 + Len(s), 0, fields)
  BY DEF TotalLength
<1>2. FoldLeft(LAMBDA b, s : b + 1 + Len(s), 0, fields) = g[DOMAIN fields]
  BY DEF FoldLeft, MapThenFoldSet, LengthRound
<1>3. DOMAIN fields = 1..n /\ \A k \in 1..n : Len(fields[k]) \in Nat
  BY LenProperties
<1>4. Steps(F, n, B)
  BY <1>3 DEF Steps
<1>5. \A b \in B, k \in 1..n : F[<<b, k>>] = b + 1 + Len(fields[k])
  OBVIOUS
<1> HIDE DEF F
<1>6. PICK h \in [SUBSET (1..n) -> B] : Recurs(h, n, 0, F)
  BY <1>4, FoldExists DEF Steps
<1>7. ASSUME NEW f, NEW s \in SUBSET (1..n), s # {}, f[s \ {Max(s)}] \in B
      PROVE  LengthRound(fields, s, f) = F[<<f[s \ {Max(s)}], Max(s)>>]
  <2>1. PICK m \in 1..n : m = Max(s)
    BY <1>7, MaxInSet
  <2>2. PICK b \in B : b = f[s \ {Max(s)}]
    BY <1>7
  <2> HIDE DEF B
  <2>3. F[<<b, m>>] = b + 1 + Len(fields[m])
    BY <1>5
  <2> QED BY <1>7, <2>1, <2>2, <2>3 DEF LengthRound
<1>8. h = [s \in SUBSET (1..n) |-> LengthRound(fields, s, h)]
  <2>1. ASSUME NEW s \in SUBSET (1..n) PROVE h[s] = LengthRound(fields, s, h)
    <3>1. s # {} => s \ {Max(s)} \in SUBSET (1..n)
      OBVIOUS
    <3> HIDE DEF B
    <3> QED BY <1>6, <1>7, <3>1 DEF Recurs, LengthRound
  <2> QED BY <2>1
<1>9. g = [s \in SUBSET (1..n) |-> LengthRound(fields, s, g)]
  <2>1. g = CHOOSE f : f = [s \in SUBSET (1..n) |-> LengthRound(fields, s, f)]
    BY <1>3
  <2> QED BY <1>8, <2>1
<1>10. g[1..n] = TotalLength(fields)
  BY <1>1, <1>2, <1>3
<1> HIDE DEF g
<1>11. g[{}] = 0
  BY <1>9 DEF LengthRound
<1>12. RecursIn(g, n, B, 0, F)
  <2> HIDE DEF B
  <2> QED BY <1>7, <1>9, <1>11 DEF RecursIn
<1>13. PICK v \in [0..n -> B] : Loops(v, n, 0, F) /\ v[n] = g[1..n]
  <2>1. 0 \in B
    OBVIOUS
  <2> HIDE DEF B
  <2> QED BY <1>4, <1>12, <2>1, FoldIsLoop
<1>14. \A k \in 1..n : v[k] = v[k - 1] + 1 + Len(fields[k])
  <2> TAKE k \in 1..n
  <2>1. v[k - 1] \in B
    <3>1. k - 1 \in 0..n
      OBVIOUS
    <3> QED BY <3>1
  <2> HIDE DEF B
  <2> QED BY <1>5, <1>13, <2>1 DEF Loops
<1> QED BY <1>10, <1>13, <1>14 DEF Loops, Ends

LEMMA BodyIsLoop ==
  ASSUME NEW n \in Nat, NEW fields \in [1..n -> Seq(Nat)]
  PROVE  \E w : Grows(fields, n, w) /\ w[n] = Body(fields)
<1> DEFINE B == Seq(Nat)
           g == CHOOSE f : f = [s \in SUBSET (DOMAIN fields) |-> BodyRound(fields, s, f)]
           F == [p \in B \X (1..n) |-> p[1] \o Field(fields[p[2]])]
<1>1. Body(fields) = FoldLeft(LAMBDA b, s : b \o Field(s), <<>>, fields)
  BY DEF Body
<1>2. FoldLeft(LAMBDA b, s : b \o Field(s), <<>>, fields) = g[DOMAIN fields]
  BY DEF FoldLeft, MapThenFoldSet, BodyRound
<1>3. DOMAIN fields = 1..n
  OBVIOUS
<1>4. Steps(F, n, B)
  <2>1. ASSUME NEW b \in B, NEW k \in 1..n PROVE b \o Field(fields[k]) \in B
    <3>1. Field(fields[k]) \in Seq(Nat)
      BY FieldBytes
    <3> QED BY <3>1, ConcatProperties
  <2> HIDE DEF B
  <2> QED BY <2>1 DEF Steps
<1>5. \A b \in B, k \in 1..n : F[<<b, k>>] = b \o Field(fields[k])
  OBVIOUS
<1> HIDE DEF F
<1>6. PICK h \in [SUBSET (1..n) -> B] : Recurs(h, n, <<>>, F)
  BY <1>4, EmptySeq, FoldExists DEF Steps
<1>7. ASSUME NEW f, NEW s \in SUBSET (1..n), s # {}, f[s \ {Max(s)}] \in B
      PROVE  BodyRound(fields, s, f) = F[<<f[s \ {Max(s)}], Max(s)>>]
  <2>1. PICK m \in 1..n : m = Max(s)
    BY <1>7, MaxInSet
  <2>2. PICK b \in B : b = f[s \ {Max(s)}]
    BY <1>7
  <2> HIDE DEF B
  <2>3. F[<<b, m>>] = b \o Field(fields[m])
    BY <1>5
  <2> QED BY <1>7, <2>1, <2>2, <2>3 DEF BodyRound
<1>8. h = [s \in SUBSET (1..n) |-> BodyRound(fields, s, h)]
  <2>1. ASSUME NEW s \in SUBSET (1..n) PROVE h[s] = BodyRound(fields, s, h)
    <3>1. s # {} => s \ {Max(s)} \in SUBSET (1..n)
      OBVIOUS
    <3> HIDE DEF B
    <3> QED BY <1>6, <1>7, <3>1 DEF Recurs, BodyRound
  <2> QED BY <2>1
<1>9. g = [s \in SUBSET (1..n) |-> BodyRound(fields, s, g)]
  <2>1. g = CHOOSE f : f = [s \in SUBSET (1..n) |-> BodyRound(fields, s, f)]
    BY <1>3
  <2> QED BY <1>8, <2>1
<1>10. g[1..n] = Body(fields)
  BY <1>1, <1>2, <1>3
<1> HIDE DEF g
<1>11. g[{}] = <<>>
  BY <1>9 DEF BodyRound
<1>12. RecursIn(g, n, B, <<>>, F)
  <2> HIDE DEF B
  <2> QED BY <1>7, <1>9, <1>11 DEF RecursIn
<1>13. PICK w \in [0..n -> B] : Loops(w, n, <<>>, F) /\ w[n] = g[1..n]
  <2>1. <<>> \in B
    BY EmptySeq
  <2> HIDE DEF B
  <2> QED BY <1>4, <1>12, <2>1, FoldIsLoop
<1>14. \A k \in 1..n : w[k] = w[k - 1] \o Field(fields[k])
  <2> TAKE k \in 1..n
  <2>1. w[k - 1] \in B
    <3>1. k - 1 \in 0..n
      OBVIOUS
    <3> QED BY <3>1
  <2> HIDE DEF B
  <2> QED BY <1>5, <1>13, <2>1 DEF Loops
<1> QED BY <1>10, <1>13, <1>14 DEF Loops, Grows

LEMMA EndsAgree ==
  ASSUME NEW n \in Nat, NEW m \in 0..n, NEW f, NEW g, NEW u, NEW v,
         Ends(f, n, v), Ends(g, m, u), \A k \in 1..m : f[k] = g[k]
  PROVE  \A k \in 0..m : v[k] = u[k]
<1> DEFINE S == {k \in 0..m : v[k] = u[k]}
<1>1. 0 \in S
  BY DEF Ends
<1>2. ASSUME NEW k \in 1..m, k - 1 \in S PROVE k \in S
  <2>1. k \in 1..n /\ k \in 0..m
    OBVIOUS
  <2>2. v[k - 1] = u[k - 1]
    BY <1>2
  <2>3. v[k] = v[k - 1] + 1 + Len(f[k]) /\ u[k] = u[k - 1] + 1 + Len(g[k]) /\ f[k] = g[k]
    BY <2>1 DEF Ends
  <2> QED BY <2>1, <2>2, <2>3
<1> HIDE DEF S
<1>3. m \in Nat
  OBVIOUS
<1>4. \A k \in 0..m : k \in S
  BY <1>1, <1>2, <1>3, Induction
<1> QED BY <1>4 DEF S

\* The field behind the first k of them starts where those end.
LEMMA TotalOfPrefix ==
  ASSUME NEW n \in Nat, NEW fields \in [1..n -> Seq(Nat)], NEW k \in 0..n,
         NEW v, Ends(fields, n, v)
  PROVE  TotalLength(SubSeq(fields, 1, k)) = v[k]
<1> DEFINE g == SubSeq(fields, 1, k)
<1>1. k \in Nat /\ \A i \in 1..k : i \in 1..n
  OBVIOUS
<1>2. g \in [1..k -> Seq(Nat)] /\ \A i \in 1..k : fields[i] = g[i]
  <2>1. \A i \in 1..k : fields[i] \in Seq(Nat)
    BY <1>1
  <2>2. g \in Seq(Seq(Nat)) /\ Len(g) = (IF 1 <= k THEN k - 1 + 1 ELSE 0)
        /\ \A i \in 1..(k - 1 + 1) : g[i] = fields[1 + i - 1]
    BY <1>1, <2>1, SubSeqProperties
  <2> HIDE DEF g
  <2>3. Len(g) = k /\ k - 1 + 1 = k /\ \A i \in 1..k : 1 + i - 1 = i
    BY <1>1, <2>2
  <2>4. g \in [1..Len(g) -> Seq(Nat)]
    BY <2>2, LenProperties
  <2> QED BY <2>2, <2>3, <2>4
<1> HIDE DEF g
<1>3. PICK u : Ends(g, k, u) /\ u[k] = TotalLength(g)
  BY <1>1, <1>2, TotalIsLoop
<1>4. v[k] = u[k]
  <2>1. k \in 0..k
    BY <1>1
  <2>2. \A i \in 0..k : v[i] = u[i]
    BY <1>1, <1>2, <1>3, EndsAgree
  <2> QED BY <2>1, <2>2
<1> QED BY <1>3, <1>4 DEF g

\* The first k fields, each behind the one before.
Carries(b, fields, v, k) ==
  /\ b \in Seq(Nat) /\ Len(b) = v[k]
  /\ \A i \in 1..k :
       /\ v[i - 1] + 1 + Len(fields[i]) <= v[k]
       /\ b[v[i - 1] + 1] = Len(fields[i])
       /\ \A j \in 1..Len(fields[i]) : b[v[i - 1] + 1 + j] = fields[i][j]

LEMMA BodyCarries ==
  ASSUME NEW n \in Nat, NEW fields \in [1..n -> Seq(Nat)],
         NEW v, Ends(fields, n, v), NEW w, Grows(fields, n, w)
  PROVE  \A k \in 0..n : Carries(w[k], fields, v, k)
<1> DEFINE S == {k \in 0..n : Carries(w[k], fields, v, k)}
<1>1. 0 \in S
  <2>1. w[0] = <<>> /\ v[0] = 0 /\ Len(<<>>) = 0 /\ <<>> \in Seq(Nat) /\ 1..0 = {}
    BY EmptySeq DEF Ends, Grows
  <2>2. Carries(w[0], fields, v, 0)
    BY <2>1 DEF Carries
  <2>3. 0 \in 0..n
    OBVIOUS
  <2> QED BY <2>2, <2>3
<1>2. ASSUME NEW k \in 1..n, k - 1 \in S PROVE k \in S
  <2>1. k \in Nat /\ k - 1 \in 0..n /\ k \in 0..n /\ k \in 1..k
    OBVIOUS
  <2>2. Carries(w[k - 1], fields, v, k - 1)
    BY <1>2
  <2>3. PICK a : a = w[k - 1]
    OBVIOUS
  <2>4. PICK x \in Nat : x = v[k - 1]
    BY <2>1 DEF Ends
  <2>5. PICK f \in Seq(Nat) : f = Field(fields[k])
    BY FieldBytes
  <2>6. PICK l \in Nat : l = Len(fields[k])
    BY LenProperties
  <2>7. /\ Len(f) = l + 1 /\ f[1] = l /\ \A j \in 1..l : f[j + 1] = fields[k][j]
    BY <2>5, <2>6, FieldBytes
  <2>8. a \in Seq(Nat) /\ Len(a) = x
    BY <2>2, <2>3, <2>4 DEF Carries
  <2>9. PICK b : b = w[k]
    OBVIOUS
  <2>10. b = a \o f
    BY <2>3, <2>5, <2>9 DEF Grows
  <2>11. /\ b \in Seq(Nat) /\ Len(b) = x + (l + 1)
         /\ \A i \in 1..(x + (l + 1)) : b[i] = IF i <= x THEN a[i] ELSE f[i - x]
    <3>1. /\ a \o f \in Seq(Nat) /\ Len(a \o f) = Len(a) + Len(f)
          /\ \A i \in 1..(Len(a) + Len(f)) : (a \o f)[i] = IF i <= Len(a) THEN a[i] ELSE f[i - Len(a)]
      BY <2>8, ConcatProperties
    <3> QED BY <2>7, <2>8, <2>10, <3>1
  <2>12. v[k] = x + 1 + l
    BY <2>4, <2>6 DEF Ends
  <2>13. ASSUME NEW i \in 1..k
         PROVE  /\ v[i - 1] + 1 + Len(fields[i]) <= v[k]
                /\ b[v[i - 1] + 1] = Len(fields[i])
                /\ \A j \in 1..Len(fields[i]) : b[v[i - 1] + 1 + j] = fields[i][j]
    <3>1. CASE i = k
      <4>1. v[i - 1] = x /\ Len(fields[i]) = l /\ fields[i] = fields[k]
        BY <2>4, <2>6, <3>1
      <4>2. b[x + 1] = l
        <5>1. x + 1 \in 1..(x + (l + 1)) /\ ~(x + 1 <= x) /\ x + 1 - x = 1
          OBVIOUS
        <5> QED BY <2>7, <2>11, <5>1
      <4>3. ASSUME NEW j \in 1..l PROVE b[x + 1 + j] = fields[k][j]
        <5>1. /\ x + 1 + j \in 1..(x + (l + 1)) /\ ~(x + 1 + j <= x)
              /\ x + 1 + j - x = j + 1
          OBVIOUS
        <5> QED BY <2>7, <2>11, <5>1
      <4>4. x + 1 + l <= v[k]
        BY <2>12
      <4> QED BY <4>1, <4>2, <4>3, <4>4
    <3>2. CASE i # k
      <4>1. i \in 1..(k - 1) /\ i \in 1..n /\ i - 1 \in 0..n
        BY <2>1, <3>2
      <4>2. PICK y \in Nat : y = v[i - 1]
        BY <4>1 DEF Ends
      <4>3. PICK m \in Nat : m = Len(fields[i])
        BY <4>1, LenProperties
      <4>4. y + 1 + m <= x /\ a[y + 1] = m /\ \A j \in 1..m : a[y + 1 + j] = fields[i][j]
        BY <2>2, <2>3, <2>4, <4>1, <4>2, <4>3 DEF Carries
      <4>5. ASSUME NEW p \in 1..x PROVE b[p] = a[p]
        <5>1. p \in 1..(x + (l + 1)) /\ p <= x
          OBVIOUS
        <5> QED BY <2>11, <5>1
      <4>6. y + 1 \in 1..x /\ \A j \in 1..m : y + 1 + j \in 1..x
        BY <4>4
      <4>7. y + 1 + m <= v[k]
        BY <2>12, <4>4
      <4> QED BY <4>2, <4>3, <4>4, <4>5, <4>6, <4>7
    <3> QED BY <3>1, <3>2
  <2>14. Len(b) = v[k]
    BY <2>11, <2>12
  <2>15. Carries(b, fields, v, k)
    BY <2>11, <2>13, <2>14 DEF Carries
  <2> QED BY <2>1, <2>9, <2>15
<1> HIDE DEF S
<1>3. \A k \in 0..n : k \in S
  BY <1>1, <1>2, Induction
<1> QED BY <1>3 DEF S

LEMMA EndsGrow ==
  ASSUME NEW n \in Nat, NEW fields \in [1..n -> Seq(Nat)], NEW v, Ends(fields, n, v),
         NEW w, Grows(fields, n, w), NEW i \in 1..n
  PROVE  Len(fields[i]) \in Nat /\ Len(fields[i]) < v[n]
<1>1. n \in 0..n /\ i - 1 \in 0..n /\ Len(fields[i]) \in Nat
  BY LenProperties
<1>2. v[i - 1] + 1 + Len(fields[i]) <= v[n] /\ v[i - 1] \in Nat /\ v[n] \in Nat
  BY <1>1, BodyCarries DEF Carries, Ends
<1> QED BY <1>1, <1>2

\* A host finds the fields where they were put.
LEMMA FieldsAreRead ==
  ASSUME NEW n \in Nat, NEW fields \in [1..n -> Seq(Nat)], Len(fields) = n,
         NEW c \in Nat, NEW v, Ends(fields, n, v), NEW w, Grows(fields, n, w)
  PROVE  Len(Request(c, w[n])) = v[n] + 2 /\ Reads(Request(c, w[n]), fields)
<1> DEFINE d == Request(c, w[n])
<1>1. PICK b \in Seq(Nat) : b = w[n]
  BY n \in 0..n DEF Grows
<1>2. n \in 0..n /\ DOMAIN fields = 1..n
  OBVIOUS
<1>3. Carries(b, fields, v, n)
  BY <1>1, <1>2, BodyCarries
<1>4. PICK t \in Nat : t = v[n]
  BY <1>2 DEF Ends
<1>5. Len(b) = t
  BY <1>3, <1>4 DEF Carries
<1>6. /\ d \in Seq(Nat) /\ Len(d) = t + 2 /\ d[2] = t
      /\ \A i \in 1..t : d[i + 2] = b[i]
  <2>1. /\ Request(c, b) \in Seq(Nat) /\ Len(Request(c, b)) = Len(b) + 2
        /\ Request(c, b)[2] = Len(b) /\ \A i \in 1..Len(b) : Request(c, b)[i + 2] = b[i]
    BY RequestBytes
  <2>2. d = Request(c, b)
    BY <1>1
  <2> HIDE DEF d
  <2> QED BY <1>5, <2>1, <2>2
<1> HIDE DEF d
<1> DEFINE start == [i \in 1..(Len(fields) + 1) |-> 3 + TotalLength(SubSeq(fields, 1, i - 1))]
<1>7. ASSUME NEW i \in 1..(n + 1) PROVE start[i] = 3 + v[i - 1]
  <2>1. i - 1 \in 0..n
    OBVIOUS
  <2>2. TotalLength(SubSeq(fields, 1, i - 1)) = v[i - 1]
    BY <2>1, TotalOfPrefix
  <2>3. start[i] = 3 + TotalLength(SubSeq(fields, 1, i - 1))
    OBVIOUS
  <2> QED BY <2>2, <2>3
<1> HIDE DEF start
<1>8. d[2] = Len(d) - 2
  BY <1>6
<1>9. start[Len(fields) + 1] = Len(d) + 1
  <2>1. n + 1 \in 1..(n + 1) /\ n + 1 - 1 = n
    OBVIOUS
  <2>2. start[n + 1] = 3 + t
    BY <1>4, <1>7, <2>1
  <2> QED BY <1>6, <2>2
<1>10. ASSUME NEW i \in 1..n
       PROVE  /\ d[start[i]] = Len(fields[i])
              /\ SubSeq(d, start[i] + 1, start[i] + d[start[i]]) = fields[i]
  <2>1. i \in 1..(n + 1) /\ i - 1 \in 0..n
    OBVIOUS
  <2>2. PICK x \in Nat : x = v[i - 1]
    BY <2>1 DEF Ends
  <2>3. PICK l \in Nat : l = Len(fields[i])
    BY LenProperties
  <2>4. x + 1 + l <= t /\ b[x + 1] = l /\ \A j \in 1..l : b[x + 1 + j] = fields[i][j]
    BY <1>3, <1>4, <2>2, <2>3 DEF Carries
  <2>5. start[i] = 3 + x
    BY <1>7, <2>1, <2>2
  <2>6. d[3 + x] = l
    <3>1. x + 1 \in 1..t /\ x + 1 + 2 = 3 + x
      BY <2>4
    <3> QED BY <1>6, <2>4, <3>1
  <2>7. ASSUME NEW j \in 1..l PROVE d[3 + x + j] = fields[i][j]
    <3>1. x + 1 + j \in 1..t /\ x + 1 + j + 2 = 3 + x + j
      BY <2>4
    <3> QED BY <1>6, <2>4, <3>1
  <2>8. SubSeq(d, 3 + x + 1, 3 + x + l) = fields[i]
    <3>1. PICK m, q \in Nat : m = 3 + x + 1 /\ q = 3 + x + l
      OBVIOUS
    <3>2. m > 0 /\ q <= Len(d) /\ q = m + l - 1 /\ \A k \in 1..l : m + k - 1 = 3 + x + k
      BY <1>6, <2>4, <3>1
    <3> DEFINE p == SubSeq(d, m, q)
    <3>3. IsPiece(p, d, m, l)
      BY <1>6, <3>2, Piece
    <3> HIDE DEF p
    <3>4. \A k \in 1..l : p[k] = fields[i][k]
      BY <2>7, <3>2, <3>3 DEF IsPiece
    <3>5. p = fields[i]
      BY <2>3, <3>3, <3>4, SeqEqual DEF IsPiece
    <3> QED BY <3>1, <3>5 DEF p
  <2> QED BY <2>3, <2>5, <2>6, <2>8
<1>11. Reads(d, fields)
  BY <1>2, <1>8, <1>9, <1>10 DEF Reads, start
<1> QED BY <1>4, <1>6, <1>11 DEF d

\* Every response goes out whole, with room for it, or is replaced.
LEMMA ResponsesAreReadable == ResponsesReadable
<1> SUFFICES ASSUME NEW fields \in BoundedSeq(Strings, MaxFields)
             PROVE  LET d == EmitRpcResponse(0, fields) IN
                      IF 2 + TotalLength(fields) > MaxByte THEN d = TooLong
                      ELSE Len(d) \in 2..MaxByte /\ Reads(d, fields)
  BY DEF ResponsesReadable
<1>1. MaxByte \in Nat /\ MaxByte + 1 \in Nat /\ MaxFields \in Nat /\ Letters \subseteq Nat
  BY MaxByteAssumption, PayloadBounds DEF Bytes
<1>2. \A s \in Strings : s \in Seq(Nat)
  <2> TAKE s \in Strings
  <2>1. s \in Seq(Letters)
    BY <1>1, BoundedIsSeq DEF Strings
  <2> QED BY <1>1, <2>1, SeqMonotonic
<1>3. fields \in Seq(Strings) /\ Len(fields) \in 0..MaxFields
  BY <1>1, BoundedIsSeq
<1>4. PICK n \in Nat : n = Len(fields)
  BY <1>3
<1>5. fields \in [1..n -> Seq(Nat)] /\ DOMAIN fields = 1..n
  BY <1>2, <1>3, <1>4, LenProperties
<1>6. PICK v : Ends(fields, n, v) /\ v[n] = TotalLength(fields)
  BY <1>5, TotalIsLoop
<1>7. PICK w : Grows(fields, n, w) /\ w[n] = Body(fields)
  BY <1>5, BodyIsLoop
<1>8. PICK t \in Nat : t = TotalLength(fields)
  BY <1>6, n \in 0..n DEF Ends
<1>9. CASE 2 + t > MaxByte
  <2>1. ~(t <= MaxByte - 2)
    BY <1>1, <1>9
  <2>2. ~Fits(fields)
    BY <1>8, <2>1 DEF Fits
  <2> QED BY <1>8, <1>9, <2>2 DEF EmitRpcResponse
<1>10. CASE 2 + t <= MaxByte
  <2>1. Fits(fields)
    <3>1. t <= MaxByte - 2
      BY <1>1, <1>10
    <3>2. \A i \in 1..n : Len(fields[i]) <= MaxByte
      <4> TAKE i \in 1..n
      <4>1. Len(fields[i]) \in Nat /\ Len(fields[i]) < t
        BY <1>5, <1>6, <1>7, <1>8, EndsGrow
      <4> QED BY <1>1, <1>10, <4>1
    <3> QED BY <1>5, <1>8, <3>1, <3>2 DEF Fits
  <2>2. t % (MaxByte + 1) = t
    BY <1>1, <1>10
  <2>3. Len(w[n]) = t
    <3>1. Carries(w[n], fields, v, n)
      BY <1>5, <1>6, <1>7, n \in 0..n, BodyCarries
    <3> QED BY <1>6, <1>8, <3>1 DEF Carries
  <2>4. EmitRpcResponse(0, fields) = Request(0, w[n])
    BY <1>7, <1>8, <2>1, <2>2, <2>3 DEF EmitRpcResponse, Request, Body
  <2>5. Len(Request(0, w[n])) = t + 2 /\ Reads(Request(0, w[n]), fields)
    <3>1. Len(Request(0, w[n])) = v[n] + 2 /\ Reads(Request(0, w[n]), fields)
      BY <1>4, <1>5, <1>6, <1>7, FieldsAreRead
    <3> QED BY <1>6, <1>8, <3>1
  <2>6. t + 2 \in 2..MaxByte /\ ~(2 + t > MaxByte)
    BY <1>1, <1>10
  <2> QED BY <1>8, <2>4, <2>5, <2>6
<1> QED BY <1>1, <1>9, <1>10

\* What an RPC frame carries is what was put into it, whichever way it goes: a
\* request that is parsed is the one the host built, and the response that is
\* emitted is read back as it was meant (improv_wifi.cpp:106-143, 308-333).
THEOREM PayloadIsExact == Spec => []PayloadExact
<1>1. PayloadExact
  BY RequestsAreParsed, ResponsesAreReadable DEF PayloadExact
<1> QED BY <1>1, PTL
=============================================================================
