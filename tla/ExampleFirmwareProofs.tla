----------------------- MODULE ExampleFirmwareProofs -----------------------
(* Theorems about the loops of the example firmwares, for every window, step  *)
(* length, buffer size, width of the counter and number of bytes.             *)
EXTENDS ExampleFirmware, SequenceTheorems, TLAPS

-----------------------------------------------------------------------------
(* The sketch's own clock *)

LEMMA ClockModPositive == ClockMod \in Nat \ {0} /\ ClockMod = 2 * HalfRange
BY ClockAssumption DEF ClockMod

\* A reading of the counter is a uint32_t.
LEMMA WrapRange == ASSUME NEW t \in Int PROVE Wrap(t) \in 0..(ClockMod - 1)
BY ClockModPositive DEF Wrap

LEMMA DivMod ==
  ASSUME NEW t \in Int
  PROVE  /\ t \div ClockMod \in Int
         /\ Wrap(t) \in 0..(ClockMod - 1)
         /\ t = ClockMod * (t \div ClockMod) + Wrap(t)
<1> ClockMod \in Nat \ {0}
  BY ClockModPositive
<1> QED
  BY DEF Wrap

\* Quotient and remainder are unique.
LEMMA RemainderUnique ==
  ASSUME NEW x \in Int, NEW q \in Int, NEW r \in 0..(ClockMod - 1),
         x = ClockMod * q + r
  PROVE  Wrap(x) = r
<1> DEFINE d == x \div ClockMod
           s == Wrap(x)
           M == ClockMod
<1>1. x = M * d + s /\ d \in Int /\ s \in 0..(M - 1)
  BY DivMod
<1>2. M \in Nat \ {0} /\ x = M * q + r /\ r \in 0..(M - 1)
  BY ClockModPositive
<1> HIDE DEF d, s, M
<1>3. M * (d - q) = r - s
  BY <1>1, <1>2
<1>4. d - q < 1
  <2>1. SUFFICES ASSUME d - q >= 1 PROVE FALSE
    BY <1>1
  <2>2. M * (d - q) >= M
    BY <2>1, <1>1, <1>2
  <2> QED
    BY <2>2, <1>1, <1>2, <1>3
<1>5. d - q > -1
  <2>1. SUFFICES ASSUME d - q <= -1 PROVE FALSE
    BY <1>1
  <2>2. M * (q - d) >= M
    BY <2>1, <1>1, <1>2
  <2>3. M * (q - d) = s - r
    BY <1>1, <1>2, <1>3
  <2> QED
    BY <2>2, <2>3, <1>1, <1>2
<1>6. d = q
  BY <1>1, <1>4, <1>5
<1>7. s = r
  BY <1>1, <1>2, <1>3, <1>6
<1> QED
  BY <1>7 DEF s

\* What the sketch computes from two readings is at most the true time since boot,
\* and equal to it for the first round of the counter.
LEMMA SketchClock ==
  ASSUME NEW n \in Nat, NEW b \in 0..(ClockMod - 1), b <= n
  PROVE  /\ Wrap(Wrap(n) - b) \in Nat /\ Wrap(Wrap(n) - b) <= n - b
         /\ n - b < ClockMod => Wrap(Wrap(n) - b) = n - b
<1> DEFINE q == n \div ClockMod
           w == Wrap(n)
           y == w - b
           q2 == y \div ClockMod
           r == Wrap(y)
           M == ClockMod
<1>1. M \in Nat \ {0} /\ b \in 0..(M - 1)
  BY ClockModPositive
<1>2. q \in Int /\ w \in 0..(M - 1) /\ n = M * q + w
  <2>1. n \in Int
    OBVIOUS
  <2> QED
    BY <2>1, DivMod
<1>3. y \in Int
  BY <1>1, <1>2
<1>4. q2 \in Int /\ r \in 0..(M - 1) /\ y = M * q2 + r
  BY <1>3, DivMod
<1>5. y = w - b
  OBVIOUS
<1> HIDE DEF q, w, y, q2, r
<1>6. n - b = M * (q + q2) + r
  <2> HIDE DEF M
  <2> QED
    BY <1>1, <1>2, <1>4, <1>5
<1>7. q + q2 >= 0
  <2> SUFFICES ASSUME q + q2 <= -1 PROVE FALSE
    BY <1>2, <1>4
  <2> HIDE DEF M
  <2>1. M * (-1 - (q + q2)) >= 0
    BY <1>1, <1>2, <1>4
  <2>2. M * (q + q2) <= -M
    BY <1>1, <1>2, <1>4, <2>1
  <2> DEFINE z == M * (q + q2)
  <2>3. z \in Int /\ z <= -M /\ n - b = z + r /\ n - b >= 0
    BY <1>1, <1>2, <1>4, <1>6, <2>2
  <2> HIDE DEF z
  <2> QED
    BY <1>1, <1>4, <2>3
<1>8. M * (q + q2) >= 0
  <2> HIDE DEF M
  <2> QED
    BY <1>1, <1>2, <1>4, <1>7
<1>9. r <= n - b
  <2> HIDE DEF M
  <2> QED
    BY <1>1, <1>2, <1>4, <1>6, <1>8
<1>10. ASSUME n - b < M PROVE r = n - b
  <2>1. n - b \in 0..(M - 1) /\ -q \in Int
    BY <1>1, <1>2, <1>10
  <2>2. y = M * (-q) + (n - b)
    <3> HIDE DEF M
    <3> QED
      BY <1>1, <1>2, <1>5
  <2> QED
    BY <1>3, <2>1, <2>2, RemainderUnique DEF r
<1> QED
  BY <1>4, <1>9, <1>10 DEF r, y, w

-----------------------------------------------------------------------------
(* Types *)

Points == [b \in Boards |->
  IF b = "arduino" THEN {"setup", "tick", "drain", "check", "echo"}
                   ELSE {"setup", "tick", "read", "chunk"}]
TakenType == [by : {"core", "app"}, byte : Bytes]
LineType  == [kind : {"banner", "echo", "status"}, upto : Nat]

TypeOK ==
  /\ board \in Boards /\ pc \in Points[board]
  /\ open \in BOOLEAN /\ started \in BOOLEAN /\ half \in BOOLEAN
  /\ start \in Nat /\ now \in Nat /\ lasted \in 0..MaxStep /\ sinceTick \in Nat
  /\ bootMs \in 0..(ClockMod - 1) /\ wasArmed \in BOOLEAN
  /\ rx \in Seq(Bytes) /\ chunk \in Seq(Bytes)
  /\ taken \in Seq(TakenType)
  /\ statusPending \in BOOLEAN /\ said \in Seq(LineType)

LEMMA InitType == Init => TypeOK
<1> SUFFICES ASSUME Init PROVE TypeOK
  OBVIOUS
<1>1. 0 \in 0..MaxStep /\ 0 \in 0..(ClockMod - 1)
  BY BoundsAssumption, ClockModPositive
<1>2. pc \in Points[board]
  BY DEF Init, Points, Boards
<1>3. <<>> \in Seq(Bytes) /\ <<>> \in Seq(TakenType) /\ <<>> \in Seq(LineType)
  BY EmptySeq
<1> QED
  BY <1>1, <1>2, <1>3 DEF Init, TypeOK, Boards

\* A byte leaves one queue for the core or for the application.
LEMMA TakeType ==
  ASSUME TypeOK, NEW owner \in {"core", "app"}, NEW b \in Bytes, Take(owner, b)
  PROVE  /\ taken' \in Seq(TakenType) /\ Len(taken') = Len(taken) + 1 /\ Len(taken') \in Nat
         /\ \A i \in 1..Len(taken) : taken'[i] = taken[i]
         /\ taken'[Len(taken) + 1] = [by |-> owner, byte |-> b]
         /\ sinceTick' = sinceTick + 1 /\ sinceTick' \in Nat
<1>1. [by |-> owner, byte |-> b] \in TakenType
  BY DEF TakenType
<1>2. taken \in Seq(TakenType) /\ sinceTick \in Nat /\ Len(taken) \in Nat
  BY DEF TypeOK
<1> QED
  BY <1>1, <1>2, AppendProperties DEF Take

LEMMA WritesType ==
  ASSUME said \in Seq(LineType), Len(taken') \in Nat,
         NEW k \in {"banner", "echo", "status"}, Writes(k)
  PROVE  /\ said' \in Seq(LineType) /\ Len(said') = Len(said) + 1 /\ Len(said) \in Nat
         /\ \A i \in 1..Len(said) : said'[i] = said[i]
         /\ said'[Len(said) + 1] = [kind |-> k, upto |-> Len(taken')]
<1>1. Line(k) \in LineType
  BY DEF Line, LineType
<1> QED
  BY <1>1, AppendProperties DEF Writes, Line

LEMMA HeadTailType ==
  ASSUME NEW s \in Seq(Bytes), s # <<>>
  PROVE  Head(s) \in Bytes /\ Tail(s) \in Seq(Bytes) /\ Len(Tail(s)) = Len(s) - 1
BY HeadTailProperties

\* What Goto leaves of the types.
LEMMA GotoType ==
  ASSUME TypeOK, NEW p, Goto(p), p \in Points[board]
  PROVE  /\ board' \in Boards /\ pc' \in Points[board'] /\ pc' = p
         /\ lasted' \in 0..MaxStep /\ lasted' = 0
         /\ board' = board /\ now' = now /\ now' \in Nat
BY BoundsAssumption DEF Goto, TypeOK

LEMMA SurroundingsType == ASSUME TypeOK, HostSends \/ TimePasses PROVE TypeOK'
<1>1. CASE HostSends
  <2>1. PICK b \in Bytes : rx' = Append(rx, b)
    BY <1>1 DEF HostSends
  <2>2. rx' \in Seq(Bytes)
    BY <2>1, AppendProperties DEF TypeOK
  <2> QED
    BY <1>1, <2>2 DEF HostSends, TypeOK, coreVars, loop, app
<1>2. CASE TimePasses
  <2>1. lasted' \in 0..MaxStep /\ now' \in Nat
    BY <1>2, BoundsAssumption DEF TimePasses, TypeOK
  <2> QED
    BY <1>2, <2>1 DEF TimePasses, TypeOK, coreVars, loop, serial, app
<1> QED
  BY <1>1, <1>2

\* Feeding the core changes its half request and what it has said.
LEMMA FeedWhole ==
  ASSUME NEW b, Feed(b)
  PROVE  /\ UNCHANGED <<open, started, start>> /\ Take("core", b) /\ half' \in BOOLEAN
BY DEF Feed, coreVars, Core!Speak

\* A tick() anchors the window, and closes it or leaves it as it is.
LEMMA TickWhole ==
  ASSUME TypeOK, Tick
  PROVE  /\ open \/ UNCHANGED <<started, start>>
         /\ open => started' /\ start' = IF started THEN start ELSE now
         /\ open' \in BOOLEAN /\ (open' => open)
         /\ open' => now - start' < WindowMs
         /\ open /\ ~open' => now - start' >= WindowMs
         /\ sinceTick' = 0 /\ half' \in BOOLEAN
         /\ pc = "tick" /\ Goto(IF board = "arduino" THEN "drain" ELSE "read")
         /\ UNCHANGED <<loop, serial, app>>
<1>1. half' \in BOOLEAN
  <2>1. half' = (half /\ open')
    BY DEF Tick
  <2> QED
    BY <2>1 DEF TypeOK
<1>2. /\ sinceTick' = 0 /\ pc = "tick" /\ Goto(IF board = "arduino" THEN "drain" ELSE "read")
      /\ UNCHANGED <<loop, serial, app>>
      /\ Core!TickWithin \/ Core!TickCloses \/ TickClosed
  BY DEF Tick
<1>3. CASE Core!TickWithin
  BY <1>1, <1>2, <1>3 DEF Core!TickWithin, Core!Anchor, TypeOK
<1>4. CASE Core!TickCloses
  BY <1>1, <1>2, <1>4 DEF Core!TickCloses, Core!Anchor, TypeOK
<1>5. CASE TickClosed
  BY <1>1, <1>2, <1>5 DEF TickClosed, coreVars, TypeOK
<1> QED
  BY <1>2, <1>3, <1>4, <1>5

LEMMA TickType == ASSUME TypeOK, Tick PROVE TypeOK'
<1>1. (IF board = "arduino" THEN "drain" ELSE "read") \in Points[board]
  BY DEF TypeOK, Points, Boards
<1>2. /\ board' \in Boards /\ pc' \in Points[board'] /\ lasted' \in 0..MaxStep
      /\ now' \in Nat
  BY <1>1, TickWhole, GotoType
<1>3. started' \in BOOLEAN /\ start' \in Nat
  <2>1. CASE open
    BY <2>1, TickWhole DEF TypeOK
  <2>2. CASE ~open
    BY <2>2, TickWhole DEF TypeOK
  <2> QED
    BY <2>1, <2>2
<1> QED
  BY <1>2, <1>3, TickWhole DEF TypeOK, loop, serial, app

LEMMA LoopType ==
  ASSUME TypeOK, Setup \/ DrainEnds \/ CheckArmed \/ EchoEnds \/ ReadChunk \/ PrintStatus
  PROVE  TypeOK'
<1>1. /\ board \in Boards /\ pc \in Points[board] /\ now \in Nat
      /\ said \in Seq(LineType) /\ taken \in Seq(TakenType) /\ Len(taken) \in Nat
  BY DEF TypeOK
<1>2. CASE Setup
  <2>1. "tick" \in Points[board]
    BY <1>1 DEF Points, Boards
  <2>2. Wrap(now) \in 0..(ClockMod - 1)
    <3>1. now \in Int
      BY <1>1
    <3> QED
      BY <3>1, DivMod
  <2> QED
    BY <1>2, <2>1, <2>2, GotoType DEF Setup, TypeOK, coreVars, serial, app
<1>3. CASE DrainEnds
  <2>1. "check" \in Points[board]
    BY <1>1, <1>3 DEF Points, Boards, DrainEnds
  <2> QED
    BY <1>3, <2>1, GotoType DEF DrainEnds, TypeOK, coreVars, loop, serial, app
<1>4. CASE CheckArmed
  <2>1. (IF SketchArmed THEN "tick" ELSE "echo") \in Points[board]
    BY <1>1, <1>4 DEF Points, Boards, CheckArmed
  <2>2. taken' = taken
    BY <1>4 DEF CheckArmed, serial
  <2>3. said' \in Seq(LineType) /\ wasArmed' \in BOOLEAN
    <3>1. CASE wasArmed /\ ~SketchArmed
      BY <1>1, <1>4, <2>2, <3>1, WritesType DEF CheckArmed
    <3>2. CASE ~(wasArmed /\ ~SketchArmed)
      BY <1>4, <3>2 DEF CheckArmed, TypeOK
    <3> QED
      BY <3>1, <3>2
  <2> QED
    BY <1>4, <2>1, <2>3, GotoType DEF CheckArmed, TypeOK, coreVars, serial
<1>5. CASE EchoEnds
  <2>1. "tick" \in Points[board]
    BY <1>1 DEF Points, Boards
  <2> QED
    BY <1>5, <2>1, GotoType DEF EchoEnds, TypeOK, coreVars, loop, serial, app
<1>6. CASE ReadChunk
  <2>1. "chunk" \in Points[board]
    BY <1>1, <1>6 DEF Points, Boards, ReadChunk
  <2>2. PICK n \in 0..ReadMax :
          n <= Len(rx) /\ chunk' = SubSeq(rx, 1, n) /\ rx' = SubSeq(rx, n + 1, Len(rx))
    BY <1>6 DEF ReadChunk
  <2>3. chunk' \in Seq(Bytes) /\ rx' \in Seq(Bytes)
    BY <2>2, SubSeqProperties DEF TypeOK
  <2> QED
    BY <1>6, <2>1, <2>3, GotoType DEF ReadChunk, TypeOK, coreVars, loop, app
<1>7. CASE PrintStatus
  <2>1. "tick" \in Points[board]
    BY <1>1 DEF Points, Boards
  <2>2. taken' = taken
    BY <1>7 DEF PrintStatus, serial
  <2>3. said' \in Seq(LineType)
    <3>1. CASE statusPending
      BY <1>1, <1>7, <2>2, <3>1, WritesType DEF PrintStatus
    <3>2. CASE ~statusPending
      BY <1>1, <1>7, <3>2 DEF PrintStatus
    <3> QED
      BY <3>1, <3>2
  <2> QED
    BY <1>7, <2>1, <2>3, GotoType DEF PrintStatus, TypeOK, coreVars, loop, serial
<1> QED
  BY <1>2, <1>3, <1>4, <1>5, <1>6, <1>7

LEMMA ByteType ==
  ASSUME TypeOK, DrainByte \/ EchoByte \/ ChunkByteToCore \/ ChunkByteToApp
  PROVE  TypeOK'
<1>1. /\ rx \in Seq(Bytes) /\ chunk \in Seq(Bytes) /\ said \in Seq(LineType)
      /\ board \in Boards /\ pc \in Points[board]
  BY DEF TypeOK
<1>2. CASE DrainByte
  <2>1. rx # <<>> /\ Feed(Head(rx)) /\ rx' = Tail(rx) /\ Goto("drain") /\ pc = "drain"
    BY <1>2 DEF DrainByte
  <2>2. Head(rx) \in Bytes /\ rx' \in Seq(Bytes)
    BY <1>1, <2>1, HeadTailType
  <2>3. Take("core", Head(rx)) /\ half' \in BOOLEAN /\ UNCHANGED <<open, started, start>>
    BY <2>1, FeedWhole
  <2>4. taken' \in Seq(TakenType) /\ sinceTick' \in Nat
    BY <2>2, <2>3, TakeType
  <2> QED
    BY <1>1, <1>2, <2>1, <2>2, <2>3, <2>4, GotoType DEF DrainByte, TypeOK, loop, app
<1>3. CASE EchoByte
  <2>1. /\ rx # <<>> /\ Take("app", Head(rx)) /\ rx' = Tail(rx) /\ Goto("echo")
        /\ Writes(IF Head(rx) = "probe" THEN "status" ELSE "echo") /\ pc = "echo"
    BY <1>3 DEF EchoByte
  <2>2. Head(rx) \in Bytes /\ rx' \in Seq(Bytes)
    BY <1>1, <2>1, HeadTailType
  <2>3. taken' \in Seq(TakenType) /\ sinceTick' \in Nat /\ Len(taken') \in Nat
    BY <2>1, <2>2, TakeType
  <2>4. (IF Head(rx) = "probe" THEN "status" ELSE "echo") \in {"banner", "echo", "status"}
    OBVIOUS
  <2>5. said' \in Seq(LineType)
    BY <1>1, <2>1, <2>3, <2>4, WritesType
  <2> QED
    BY <1>1, <1>3, <2>1, <2>2, <2>3, <2>5, GotoType DEF EchoByte, TypeOK, coreVars, loop
<1>4. CASE ChunkByteToCore
  <2>1. chunk # <<>> /\ Feed(Head(chunk)) /\ chunk' = Tail(chunk) /\ Goto("chunk") /\ pc = "chunk"
    BY <1>4 DEF ChunkByteToCore
  <2>2. Head(chunk) \in Bytes /\ chunk' \in Seq(Bytes)
    BY <1>1, <2>1, HeadTailType
  <2>3. Take("core", Head(chunk)) /\ half' \in BOOLEAN /\ UNCHANGED <<open, started, start>>
    BY <2>1, FeedWhole
  <2>4. taken' \in Seq(TakenType) /\ sinceTick' \in Nat
    BY <2>2, <2>3, TakeType
  <2> QED
    BY <1>1, <1>4, <2>1, <2>2, <2>3, <2>4, GotoType DEF ChunkByteToCore, TypeOK, loop, app
<1>5. CASE ChunkByteToApp
  <2>1. /\ chunk # <<>> /\ Take("app", Head(chunk)) /\ chunk' = Tail(chunk)
        /\ Goto("chunk") /\ pc = "chunk"
    BY <1>5 DEF ChunkByteToApp, TakeFromChunk
  <2>2. Head(chunk) \in Bytes /\ chunk' \in Seq(Bytes)
    BY <1>1, <2>1, HeadTailType
  <2>3. taken' \in Seq(TakenType) /\ sinceTick' \in Nat /\ Len(taken') \in Nat
    BY <2>1, <2>2, TakeType
  <2>4. said' \in Seq(LineType) /\ statusPending' \in BOOLEAN
    <3>1. CASE Head(chunk) = "probe"
      BY <1>1, <1>5, <3>1 DEF ChunkByteToApp, TakeFromChunk
    <3>2. CASE Head(chunk) # "probe"
      BY <1>1, <1>5, <2>3, <3>2, WritesType DEF ChunkByteToApp, TakeFromChunk, TypeOK
    <3> QED
      BY <3>1, <3>2
  <2> QED
    BY <1>1, <1>5, <2>1, <2>2, <2>3, <2>4, GotoType
    DEF ChunkByteToApp, TakeFromChunk, TypeOK, coreVars, loop
<1> QED
  BY <1>2, <1>3, <1>4, <1>5

LEMMA NextType == TypeOK /\ [Next]_vars => TypeOK'
<1> SUFFICES ASSUME TypeOK, [Next]_vars PROVE TypeOK'
  OBVIOUS
<1>1. CASE UNCHANGED vars
  BY <1>1 DEF vars, coreVars, loop, serial, app, TypeOK
<1> QED
  BY <1>1, SurroundingsType, TickType, LoopType, ByteType DEF Next, Step, Sketch, IdfLoop

\* The state stays in its type.
THEOREM TypeCorrect == Spec => []TypeOK
BY InitType, NextType, PTL DEF Spec

-----------------------------------------------------------------------------
(* The two clocks: the core's window and the sketch's own *)

ClockInv ==
  /\ bootMs <= now
  /\ pc = "setup" => ~started /\ open
  /\ started => bootMs <= start /\ start <= now
  /\ ~open => started /\ now - start >= WindowMs
  /\ pc = "echo" => now - bootMs >= WindowMs

LEMMA NextClock == ASSUME TypeOK, ClockInv, [Next]_vars PROVE ClockInv'
<1>1. /\ now \in Nat /\ start \in Nat /\ bootMs \in 0..(ClockMod - 1) /\ ClockMod \in Nat
      /\ WindowMs \in Nat
  BY ClockModPositive, WindowAssumption DEF TypeOK
<1>2. CASE TimePasses
  <2>1. now' = now + 1 /\ UNCHANGED <<pc, bootMs, open, started, start>>
    BY <1>2 DEF TimePasses, coreVars, loop
  <2> QED
    BY <1>1, <2>1 DEF ClockInv
<1>3. CASE Setup
  <2>1. /\ pc = "setup" /\ pc' = "tick" /\ now' = now /\ bootMs' = Wrap(now)
        /\ UNCHANGED <<open, started, start>>
    BY <1>3 DEF Setup, Goto, coreVars
  <2>2. Wrap(now) <= now
    <3>1. 0 \in 0..(ClockMod - 1) /\ 0 <= now /\ now - 0 = now
      BY <1>1, ClockModPositive
    <3>2. Wrap(Wrap(now) - 0) <= now - 0
      BY <1>1, <3>1, SketchClock
    <3>3. now \in Int
      BY <1>1
    <3>4. Wrap(now) \in 0..(ClockMod - 1) /\ ClockMod \in Nat \ {0}
      BY <3>3, DivMod, ClockModPositive
    <3>5. Wrap(Wrap(now) - 0) = Wrap(now)
      <4>1. Wrap(now) = ClockMod * 0 + Wrap(now) /\ Wrap(now) \in Int /\ 0 \in Int
        BY <3>4
      <4>2. Wrap(Wrap(now)) = Wrap(now)
        BY <3>4, <4>1, RemainderUnique, Zenon
      <4>3. Wrap(now) - 0 = Wrap(now)
        BY <4>1
      <4> QED
        BY <4>2, <4>3
    <3> QED
      BY <3>1, <3>2, <3>5
  <2> QED
    BY <2>1, <2>2 DEF ClockInv
<1>4. CASE Tick
  <2>1. pc = "tick" /\ pc' \notin {"setup", "echo"} /\ now' = now /\ bootMs' = bootMs
    BY <1>4, TickWhole DEF Goto, loop
  <2>2. CASE open
    BY <1>1, <1>4, <2>1, <2>2, TickWhole DEF ClockInv
  <2>3. CASE ~open
    BY <1>1, <1>4, <2>1, <2>3, TickWhole DEF ClockInv
  <2> QED
    BY <2>2, <2>3
<1>5. CASE CheckArmed
  <2>1. /\ now' = now /\ UNCHANGED <<open, started, start, bootMs>>
        /\ pc' = IF SketchArmed THEN "tick" ELSE "echo"
    BY <1>5 DEF CheckArmed, Goto, coreVars
  <2>2. ~SketchArmed => now - bootMs >= WindowMs
    <3>1. Wrap(Wrap(now) - bootMs) \in Nat /\ Wrap(Wrap(now) - bootMs) <= now - bootMs
      BY <1>1, SketchClock DEF ClockInv
    <3> QED
      BY <1>1, <3>1 DEF SketchArmed
  <2> QED
    BY <2>1, <2>2 DEF ClockInv
<1>6. CASE \/ HostSends \/ DrainByte \/ DrainEnds \/ EchoByte \/ EchoEnds \/ ReadChunk
           \/ ChunkByteToCore \/ ChunkByteToApp \/ PrintStatus \/ UNCHANGED vars
  <2>1. UNCHANGED <<now, bootMs, open, started, start>> /\ pc' \in {pc, "check", "tick", "chunk"}
    <3>1. CASE HostSends \/ UNCHANGED vars
      BY <3>1 DEF HostSends, vars, coreVars, loop
    <3>2. CASE DrainByte \/ ChunkByteToCore
      BY <3>2, FeedWhole DEF DrainByte, ChunkByteToCore, Goto, loop
    <3>3. CASE DrainEnds \/ EchoByte \/ EchoEnds
      BY <3>3 DEF DrainEnds, EchoByte, EchoEnds, Goto, coreVars, loop
    <3>4. CASE ReadChunk \/ ChunkByteToApp \/ PrintStatus
      BY <3>4 DEF ReadChunk, ChunkByteToApp, TakeFromChunk, PrintStatus, Goto, coreVars, loop
    <3> QED
      BY <1>6, <3>1, <3>2, <3>3, <3>4
  <2> QED
    BY <2>1 DEF ClockInv
<1> QED
  BY <1>2, <1>3, <1>4, <1>5, <1>6 DEF Next, Step, Sketch, IdfLoop

LEMMA ClockInvariance == Spec => [](TypeOK /\ ClockInv)
<1>1. Init => ClockInv
  BY DEF Init, ClockInv
<1> QED
  BY InitType, NextType, NextClock, <1>1, PTL DEF Spec

\* When the core has closed, the sketch's unsigned difference says that the window
\* is over too, until the counter has come round (arduino-test/src/main.cpp:71, 97).
THEOREM NoBytesForNobody == Spec => []NoDeafness
<1>1. TypeOK /\ ClockInv => NoDeafness
  <2> SUFFICES ASSUME TypeOK, ClockInv, ~open, now - bootMs < ClockMod PROVE ~SketchArmed
    BY DEF NoDeafness
  <2>1. /\ now \in Nat /\ start \in Nat /\ bootMs \in 0..(ClockMod - 1) /\ ClockMod \in Nat
        /\ WindowMs \in Nat /\ bootMs <= now
    BY ClockModPositive, WindowAssumption DEF TypeOK, ClockInv
  <2>2. now - bootMs >= WindowMs
    BY <2>1 DEF ClockInv
  <2>3. Wrap(Wrap(now) - bootMs) = now - bootMs
    BY <2>1, SketchClock
  <2> QED
    BY <2>1, <2>2, <2>3 DEF SketchArmed
<1> QED
  BY ClockInvariance, <1>1, PTL

\* While the window lasts, the application takes no byte: on the IDF board until the
\* core closes, in the sketch until its own clock says that the window is over
\* (arduino-test/src/main.cpp:93-103, idf-test/main/main.cpp:158-163).
THEOREM BytesGoToTheCore == Spec => WindowBytesToCore
<1>1. TypeOK /\ ClockInv /\ [Next]_vars =>
        [taken' # taken /\ Last(taken').by = "app" =>
           ~open \/ (board = "arduino" /\ now - bootMs >= WindowMs)]_vars
  <2> SUFFICES ASSUME TypeOK, ClockInv, [Next]_vars,
                      taken' # taken, Last(taken').by = "app"
               PROVE  ~open \/ (board = "arduino" /\ now - bootMs >= WindowMs)
    OBVIOUS
  <2>1. CASE DrainByte \/ ChunkByteToCore
    <3>1. PICK b \in Bytes : Take("core", b)
      <4>1. CASE DrainByte
        <5>1. rx # <<>> /\ Feed(Head(rx)) /\ rx \in Seq(Bytes)
          BY <4>1 DEF DrainByte, TypeOK
        <5> QED
          BY <5>1, HeadTailType, FeedWhole
      <4>2. CASE ChunkByteToCore
        <5>1. chunk # <<>> /\ Feed(Head(chunk)) /\ chunk \in Seq(Bytes)
          BY <4>2 DEF ChunkByteToCore, TypeOK
        <5> QED
          BY <5>1, HeadTailType, FeedWhole
      <4> QED
        BY <2>1, <4>1, <4>2
    <3>2. Len(taken') = Len(taken) + 1 /\ taken'[Len(taken) + 1] = [by |-> "core", byte |-> b]
      BY <3>1, TakeType
    <3>3. Last(taken').by = "core"
      BY <3>2 DEF Last
    <3> QED
      BY <3>3
  <2>2. CASE EchoByte
    <3>1. pc = "echo" /\ board = "arduino"
      BY <2>2 DEF EchoByte, TypeOK, Points, Boards
    <3> QED
      BY <3>1 DEF ClockInv
  <2>3. CASE ChunkByteToApp
    BY <2>3 DEF ChunkByteToApp
  <2>4. CASE HostSends \/ TimePasses \/ Setup \/ UNCHANGED vars
    BY <2>4 DEF HostSends, TimePasses, Setup, vars, serial
  <2>5. CASE Tick \/ DrainEnds \/ CheckArmed \/ EchoEnds \/ ReadChunk \/ PrintStatus
    BY <2>5 DEF Tick, DrainEnds, CheckArmed, EchoEnds, ReadChunk, PrintStatus, serial
  <2> QED
    BY <2>1, <2>2, <2>3, <2>4, <2>5 DEF Next, Step, Sketch, IdfLoop
<1> QED
  BY ClockInvariance, <1>1, PTL DEF Spec, WindowBytesToCore

-----------------------------------------------------------------------------
(* How late the core closes *)

\* Steps done since the last tick(), but for one for every byte.
StepsAt == [p \in {"setup", "tick", "drain", "check", "echo", "read", "chunk"} |->
  CASE p = "tick" -> 3 [] p = "check" -> 1 [] p = "echo" -> 2 [] p = "chunk" -> 1 [] OTHER -> 0]
StepsDone == StepsAt[pc] + sinceTick

\* The IDF loop reads no more than a chunk between two ticks.
ChunkInv ==
  board = "idf" =>
    /\ pc # "chunk" => chunk = <<>>
    /\ pc = "read" => sinceTick = 0
    /\ sinceTick + Len(chunk) <= ReadMax

LateInv == open /\ started => now - start < WindowMs + MaxStep * StepsDone + lasted

LEMMA NextChunk == ASSUME TypeOK, ChunkInv, [Next]_vars PROVE ChunkInv'
<1>1. /\ sinceTick \in Nat /\ ReadMax \in Nat /\ chunk \in Seq(Bytes) /\ Len(chunk) \in Nat
      /\ rx \in Seq(Bytes) /\ board' = board
  <2>1. board' = board
    BY DEF Next, HostSends, TimePasses, Step, Setup, Tick, Sketch, IdfLoop, DrainByte, DrainEnds,
           CheckArmed, EchoByte, EchoEnds, ReadChunk, ChunkByteToCore, ChunkByteToApp,
           TakeFromChunk, PrintStatus, Goto, vars
  <2> QED
    BY <2>1, SizesAssumption DEF TypeOK
<1> SUFFICES ASSUME board = "idf" PROVE ChunkInv'
  BY <1>1 DEF ChunkInv
<1>2. pc \in {"setup", "tick", "read", "chunk"}
  BY DEF TypeOK, Points, Boards
<1>3. Len(<<>>) = 0
  BY EmptySeq
<1>4. CASE HostSends \/ TimePasses \/ UNCHANGED vars
  BY <1>4 DEF HostSends, TimePasses, vars, serial, ChunkInv
<1>5. CASE Setup
  BY <1>5 DEF Setup, Goto, serial, ChunkInv
<1>6. CASE Tick
  <2>1. pc = "tick" /\ pc' = "read" /\ sinceTick' = 0 /\ chunk' = chunk
    BY <1>6, TickWhole DEF Goto, serial
  <2> QED
    BY <1>1, <1>3, <2>1 DEF ChunkInv
<1>7. CASE ReadChunk
  <2>1. pc = "read" /\ pc' = "chunk" /\ sinceTick' = sinceTick
    BY <1>7 DEF ReadChunk, Goto
  <2>2. PICK n \in 0..ReadMax : n <= Len(rx) /\ chunk' = SubSeq(rx, 1, n)
    BY <1>7 DEF ReadChunk
  <2>3. Len(chunk') = n
    <3>1. Len(rx) \in Nat /\ n \in Nat
      BY <1>1, <2>2
    <3>2. 1 \in 1..(Len(rx) + 1) /\ n \in (1 - 1)..Len(rx) /\ n - 1 + 1 = n
      BY <2>2, <3>1
    <3> QED
      BY <1>1, <2>2, <3>2, SubSeqProperties
  <2> QED
    BY <1>1, <2>1, <2>2, <2>3 DEF ChunkInv
<1>8. CASE ChunkByteToCore \/ ChunkByteToApp
  <2>1. /\ pc = "chunk" /\ pc' = "chunk" /\ chunk # <<>> /\ chunk' = Tail(chunk)
        /\ sinceTick' = sinceTick + 1
    <3>1. CASE ChunkByteToCore
      BY <3>1, FeedWhole DEF ChunkByteToCore, Goto, Take
    <3>2. CASE ChunkByteToApp
      BY <3>2 DEF ChunkByteToApp, TakeFromChunk, Goto, Take
    <3> QED
      BY <1>8, <3>1, <3>2
  <2>2. Len(chunk') = Len(chunk) - 1
    BY <1>1, <2>1, HeadTailType
  <2> QED
    BY <1>1, <2>1, <2>2 DEF ChunkInv
<1>9. CASE PrintStatus
  BY <1>9 DEF PrintStatus, Goto, serial, ChunkInv
<1>10. CASE Sketch
  BY <1>2, <1>10 DEF Sketch, DrainByte, DrainEnds, CheckArmed, EchoByte, EchoEnds
<1> QED
  BY <1>4, <1>5, <1>6, <1>7, <1>8, <1>9, <1>10 DEF Next, Step, IdfLoop

\* One step more is MaxStep more.
LEMMA OneStepMore ==
  ASSUME NEW k \in Nat, NEW m \in Nat, NEW l \in 0..MaxStep, k + 1 <= m
  PROVE  MaxStep * k \in Nat /\ MaxStep * m \in Nat /\ MaxStep * k + l <= MaxStep * m
<1>1. MaxStep \in Nat
  BY BoundsAssumption
<1>2. m = k + 1 + (m - (k + 1)) /\ m - (k + 1) \in Nat
  OBVIOUS
<1> DEFINE d == m - (k + 1)
<1> HIDE DEF d
<1>3. MaxStep * (k + 1 + d) = MaxStep * k + MaxStep + MaxStep * d /\ MaxStep * d \in Nat
      /\ MaxStep * k \in Nat
  BY <1>1, <1>2 DEF d
<1>4. m = k + 1 + d
  BY <1>2 DEF d
<1> QED
  BY <1>1, <1>3, <1>4

LEMMA StepsMultiply == ASSUME NEW k \in Nat PROVE MaxStep * k \in Nat
BY BoundsAssumption

LEMMA StepsType == \A b \in Boards : \A p \in Points[b] : StepsAt[p] \in 0..3
BY DEF Points, Boards, StepsAt

LEMMA NextLate == ASSUME TypeOK, TypeOK', ClockInv, LateInv, [Next]_vars PROVE LateInv'
<1>1. /\ now \in Nat /\ start \in Nat /\ lasted \in 0..MaxStep /\ lasted' \in 0..MaxStep
      /\ WindowMs \in Nat /\ MaxStep \in Nat /\ StepsDone \in Nat /\ StepsDone' \in Nat
      /\ sinceTick \in Nat /\ now' \in Nat
  <2>1. /\ now \in Nat /\ start \in Nat /\ lasted \in 0..MaxStep /\ sinceTick \in Nat
        /\ StepsAt[pc] \in 0..3
    BY StepsType DEF TypeOK
  <2>2. /\ now' \in Nat /\ lasted' \in 0..MaxStep /\ sinceTick' \in Nat
        /\ StepsAt[pc'] \in 0..3
    BY StepsType DEF TypeOK
  <2> QED
    BY <2>1, <2>2, WindowAssumption, BoundsAssumption DEF StepsDone
<1>2. CASE HostSends \/ UNCHANGED vars
  <2>1. UNCHANGED <<open, started, start, now, lasted, pc, sinceTick>>
    BY <1>2 DEF HostSends, vars, coreVars
  <2> QED
    BY <2>1 DEF LateInv, StepsDone
<1>3. CASE TimePasses
  <2>1. /\ now' = now + 1 /\ lasted' = lasted + 1
        /\ UNCHANGED <<open, started, start, pc, sinceTick>>
    BY <1>3 DEF TimePasses, coreVars
  <2>2. StepsDone' = StepsDone /\ MaxStep * StepsDone \in Nat
    BY <1>1, <2>1 DEF StepsDone
  <2> QED
    BY <1>1, <2>1, <2>2 DEF LateInv
<1>4. CASE Setup
  <2>1. UNCHANGED <<open, started>> /\ ~started
    BY <1>4 DEF Setup, coreVars, ClockInv
  <2> QED
    BY <2>1 DEF LateInv
<1>5. CASE Tick
  <2>1. lasted' = 0 /\ now' = now
    BY <1>5, TickWhole DEF Goto
  <2>2. open' => now' - start' < WindowMs
    BY <1>5, <2>1, TickWhole
  <2> DEFINE z == MaxStep * StepsDone'
  <2>3. z \in Nat
    BY <1>1, StepsMultiply
  <2>4. start' \in Nat
    BY DEF TypeOK
  <2>5. ASSUME open' PROVE now' - start' < WindowMs + z + lasted'
    <3>1. now' \in Nat /\ start' \in Nat /\ WindowMs \in Nat /\ lasted' = 0 /\ z \in Nat
      BY <1>1, <2>1, <2>3, <2>4
    <3>2. now' - start' < WindowMs
      BY <2>2, <2>5
    <3>3. \A n \in Nat, s \in Nat, w \in Nat, y \in Nat : n - s < w => n - s < w + y + 0
      OBVIOUS
    <3> HIDE DEF z
    <3> QED
      BY <3>1, <3>2, <3>3
  <2> QED
    BY <2>5 DEF LateInv
<1>6. CASE \/ DrainByte \/ DrainEnds \/ CheckArmed \/ EchoByte \/ EchoEnds \/ ReadChunk
           \/ ChunkByteToCore \/ ChunkByteToApp \/ PrintStatus
  <2>1. UNCHANGED <<open, started, start, now>> /\ lasted' = 0
    <3>1. CASE DrainByte \/ ChunkByteToCore
      BY <3>1, FeedWhole DEF DrainByte, ChunkByteToCore, Goto
    <3>2. CASE DrainEnds \/ CheckArmed \/ EchoByte \/ EchoEnds
      BY <3>2 DEF DrainEnds, CheckArmed, EchoByte, EchoEnds, Goto, coreVars
    <3>3. CASE ReadChunk \/ ChunkByteToApp \/ PrintStatus
      BY <3>3 DEF ReadChunk, ChunkByteToApp, TakeFromChunk, PrintStatus, Goto, coreVars
    <3> QED
      BY <1>6, <3>1, <3>2, <3>3
  <2>2. StepsDone + 1 <= StepsDone'
    <3>1. CASE DrainByte \/ ChunkByteToCore \/ EchoByte \/ ChunkByteToApp
      <4>1. pc' = pc /\ sinceTick' = sinceTick + 1
        <5>1. CASE DrainByte \/ ChunkByteToCore
          BY <5>1, FeedWhole DEF DrainByte, ChunkByteToCore, Goto, Take
        <5>2. CASE EchoByte \/ ChunkByteToApp
          BY <5>2 DEF EchoByte, ChunkByteToApp, TakeFromChunk, Goto, Take
        <5> QED
          BY <3>1, <5>1, <5>2
      <4>2. StepsAt[pc] \in Nat
        <5>1. StepsAt[pc] \in 0..3
          BY StepsType DEF TypeOK
        <5> QED
          BY <5>1
      <4> QED
        BY <1>1, <4>1, <4>2 DEF StepsDone
    <3>2. CASE DrainEnds \/ CheckArmed \/ EchoEnds \/ ReadChunk \/ PrintStatus
      <4>1. /\ sinceTick' = sinceTick
            /\ \/ pc = "drain" /\ pc' = "check"
               \/ pc = "check" /\ pc' \in {"tick", "echo"}
               \/ pc = "echo" /\ pc' = "tick"
               \/ pc = "read" /\ pc' = "chunk"
               \/ pc = "chunk" /\ pc' = "tick"
        BY <3>2 DEF DrainEnds, CheckArmed, EchoEnds, ReadChunk, PrintStatus, Goto
      <4>2. StepsAt[pc] + 1 <= StepsAt[pc'] /\ StepsAt[pc] \in Nat /\ StepsAt[pc'] \in Nat
        BY <4>1 DEF StepsAt
      <4> QED
        BY <1>1, <4>1, <4>2 DEF StepsDone
    <3> QED
      BY <1>6, <3>1, <3>2
  <2>3. /\ MaxStep * StepsDone \in Nat /\ MaxStep * StepsDone' \in Nat
        /\ MaxStep * StepsDone + lasted <= MaxStep * StepsDone'
    BY <1>1, <2>2, OneStepMore
  <2>4. open /\ started => now - start < WindowMs + MaxStep * StepsDone + lasted
    BY DEF LateInv
  <2> DEFINE a == MaxStep * StepsDone
             z == MaxStep * StepsDone'
  <2>5. open /\ started => now - start < WindowMs + z + 0
    <3>1. a \in Nat /\ z \in Nat /\ a + lasted <= z
      BY <2>3
    <3>2. open /\ started => now - start < WindowMs + a + lasted
      BY <2>4
    <3> HIDE DEF a, z
    <3> QED
      BY <1>1, <3>1, <3>2
  <2> QED
    BY <2>1, <2>5 DEF LateInv
<1> QED
  BY <1>2, <1>3, <1>4, <1>5, <1>6 DEF Next, Step, Sketch, IdfLoop

\* An open window is never later than the bytes and the steps since the last tick()
\* make it, and on the IDF board those are no more than a chunk
\* (arduino_facade.cpp:39-45, idf-test/main/main.cpp:142-187).
THEOREM WindowClosesInTime == Spec => []ClosesInTime
<1>1. Init => ChunkInv /\ LateInv
  <2> SUFFICES ASSUME Init PROVE ChunkInv /\ LateInv
    OBVIOUS
  <2>1. Len(<<>>) = 0 /\ ReadMax \in Nat
    BY EmptySeq, SizesAssumption
  <2> QED
    BY <2>1 DEF Init, ChunkInv, LateInv
<1>2. TypeOK /\ ClockInv /\ ChunkInv /\ LateInv => ClosesInTime
  <2> SUFFICES ASSUME TypeOK, ChunkInv, LateInv PROVE ClosesInTime
    OBVIOUS
  <2>1. board = "idf" => sinceTick <= ReadMax
    <3>1. sinceTick \in Nat /\ Len(chunk) \in Nat /\ ReadMax \in Nat
      BY SizesAssumption DEF TypeOK
    <3> QED
      BY <3>1 DEF ChunkInv
  <2>2. ASSUME open, started PROVE now - start < WindowMs + MaxStep * (sinceTick + 4)
    <3>1. /\ sinceTick \in Nat /\ lasted \in 0..MaxStep
          /\ now \in Nat /\ start \in Nat /\ WindowMs \in Nat
      BY WindowAssumption DEF TypeOK
    <3>2. StepsAt[pc] \in 0..3 /\ StepsDone \in Nat
      <4>1. StepsAt[pc] \in 0..3
        BY StepsType DEF TypeOK
      <4> QED
        BY <3>1, <4>1 DEF StepsDone
    <3>3. StepsDone + 1 <= sinceTick + 4 /\ sinceTick + 4 \in Nat
      BY <3>1, <3>2 DEF StepsDone
    <3> DEFINE a == MaxStep * StepsDone
               z == MaxStep * (sinceTick + 4)
    <3>4. a \in Nat /\ z \in Nat /\ a + lasted <= z
      BY <3>1, <3>2, <3>3, OneStepMore
    <3>5. now - start < WindowMs + a + lasted
      BY <2>2 DEF LateInv
    <3> HIDE DEF a, z
    <3>6. now - start < WindowMs + z
      BY <3>1, <3>4, <3>5, BoundsAssumption
    <3> QED
      BY <3>6 DEF z
  <2> QED
    BY <2>1, <2>2 DEF ClosesInTime
<1>3. TypeOK /\ TypeOK' /\ ClockInv /\ ChunkInv /\ LateInv /\ [Next]_vars => ChunkInv' /\ LateInv'
  BY NextChunk, NextLate
<1> QED
  BY ClockInvariance, <1>1, <1>2, <1>3, PTL DEF Spec

-----------------------------------------------------------------------------
(* What the application prints *)

ProbeTaken == [by |-> "app", byte |-> "probe"]

\* By the lines in lines, every probe of tk has been answered.
AllAnswered(tk, lines) ==
  \A i \in 1..Len(tk) :
    tk[i] = ProbeTaken =>
      \E j \in 1..Len(lines) : lines[j].kind = "status" /\ lines[j].upto >= i
BannerFirst(lines) == \A i \in 1..Len(lines) : lines[i].kind = "banner" <=> i = 1

ToldInv ==
  /\ board = "arduino" => /\ wasArmed <=> said = <<>>
                          /\ pc = "echo" => ~wasArmed
                          /\ BannerFirst(said) /\ ~statusPending
  /\ statusPending => pc = "chunk"
  /\ ~statusPending => AllAnswered(taken, said)

\* Another line leaves what was answered answered.
LEMMA AnsweredStill ==
  ASSUME NEW tk \in Seq(TakenType), NEW lines \in Seq(LineType), NEW l \in LineType,
         AllAnswered(tk, lines)
  PROVE  AllAnswered(tk, Append(lines, l))
<1>1. /\ Len(lines) \in Nat /\ Len(Append(lines, l)) = Len(lines) + 1
      /\ \A i \in 1..Len(lines) : Append(lines, l)[i] = lines[i]
  BY AppendProperties
<1>2. \A j \in 1..Len(lines) : j \in 1..Len(Append(lines, l))
  BY <1>1
<1> QED
  BY <1>1, <1>2 DEF AllAnswered

\* A byte that is no probe asks for nothing.
LEMMA AnsweredNoProbe ==
  ASSUME NEW tk \in Seq(TakenType), NEW lines \in Seq(LineType), NEW t \in TakenType,
         AllAnswered(tk, lines), t # ProbeTaken
  PROVE  AllAnswered(Append(tk, t), lines)
<1>1. /\ Len(tk) \in Nat /\ Len(Append(tk, t)) = Len(tk) + 1
      /\ \A i \in 1..Len(tk) : Append(tk, t)[i] = tk[i]
      /\ Append(tk, t)[Len(tk) + 1] = t
  BY AppendProperties
<1>2. \A i \in 1..Len(Append(tk, t)) : i \in 1..Len(tk) \/ i = Len(tk) + 1
  BY <1>1
<1> QED
  BY <1>1, <1>2 DEF AllAnswered

\* A status line answers all probes that have been taken.
LEMMA StatusAnswers ==
  ASSUME NEW tk \in Seq(TakenType), NEW lines \in Seq(LineType), NEW l \in LineType,
         l.kind = "status", l.upto = Len(tk)
  PROVE  AllAnswered(tk, Append(lines, l))
<1>1. /\ Len(lines) \in Nat /\ Len(Append(lines, l)) = Len(lines) + 1
      /\ Append(lines, l)[Len(lines) + 1] = l
  BY AppendProperties
<1>2. Len(lines) + 1 \in 1..Len(Append(lines, l))
  BY <1>1
<1>3. \A i \in 1..Len(tk) : i <= Len(tk)
  BY LenProperties
<1> QED
  BY <1>1, <1>2, <1>3 DEF AllAnswered

\* The first line is the banner and no other is.
LEMMA BannerStaysFirst ==
  ASSUME NEW lines \in Seq(LineType), NEW l \in LineType, BannerFirst(lines),
         l.kind = "banner" <=> lines = <<>>
  PROVE  BannerFirst(Append(lines, l)) /\ Append(lines, l) # <<>>
<1>1. /\ Len(lines) \in Nat /\ Len(Append(lines, l)) = Len(lines) + 1
      /\ \A i \in 1..Len(lines) : Append(lines, l)[i] = lines[i]
      /\ Append(lines, l)[Len(lines) + 1] = l /\ Append(lines, l) # <<>>
  BY AppendProperties
<1>2. \A i \in 1..Len(Append(lines, l)) : i \in 1..Len(lines) \/ i = Len(lines) + 1
  BY <1>1
<1>3. lines = <<>> <=> Len(lines) + 1 = 1
  BY <1>1, EmptySeq
<1> QED
  BY <1>1, <1>2, <1>3 DEF BannerFirst

LEMMA ByteTold ==
  ASSUME TypeOK, ToldInv, DrainByte \/ EchoByte \/ ChunkByteToCore \/ ChunkByteToApp
  PROVE  ToldInv'
<1>1. /\ rx \in Seq(Bytes) /\ chunk \in Seq(Bytes) /\ said \in Seq(LineType)
      /\ taken \in Seq(TakenType) /\ board \in Boards /\ pc \in Points[board]
      /\ statusPending \in BOOLEAN /\ wasArmed \in BOOLEAN /\ Len(taken) \in Nat
  BY DEF TypeOK
<1>2. CASE DrainByte \/ ChunkByteToCore
  <2>1. PICK b \in Bytes : taken' = Append(taken, [by |-> "core", byte |-> b])
    <3>1. CASE DrainByte
      <4>1. rx # <<>> /\ Feed(Head(rx))
        BY <3>1 DEF DrainByte
      <4> QED
        BY <1>1, <4>1, HeadTailType, FeedWhole DEF Take
    <3>2. CASE ChunkByteToCore
      <4>1. chunk # <<>> /\ Feed(Head(chunk))
        BY <3>2 DEF ChunkByteToCore
      <4> QED
        BY <1>1, <4>1, HeadTailType, FeedWhole DEF Take
    <3> QED
      BY <1>2, <3>1, <3>2
  <2>2. UNCHANGED <<board, pc, wasArmed, statusPending, said>>
    BY <1>2 DEF DrainByte, ChunkByteToCore, Goto, loop, app
  <2>3. [by |-> "core", byte |-> b] \in TakenType /\ [by |-> "core", byte |-> b] # ProbeTaken
    <3>1. [by |-> "core", byte |-> b].by = "core" /\ ProbeTaken.by = "app"
      BY DEF ProbeTaken
    <3>2. [by |-> "core", byte |-> b] \in TakenType
      BY DEF TakenType
    <3> QED
      BY <3>1, <3>2
  <2>4. AllAnswered(taken, said) => AllAnswered(taken', said)
    BY <1>1, <2>1, <2>3, AnsweredNoProbe
  <2> QED
    BY <2>2, <2>4 DEF ToldInv
<1>3. CASE EchoByte
  <2> DEFINE t == [by |-> "app", byte |-> Head(rx)]
             l == [kind |-> IF Head(rx) = "probe" THEN "status" ELSE "echo",
                   upto |-> Len(taken')]
  <2>1. /\ pc = "echo" /\ pc' = "echo" /\ rx # <<>>
        /\ UNCHANGED <<board, wasArmed, statusPending>>
        /\ taken' = Append(taken, t) /\ said' = Append(said, l)
    BY <1>3 DEF EchoByte, Goto, Take, Writes, Line, loop
  <2>2. Head(rx) \in Bytes
    BY <1>1, <2>1, HeadTailType
  <2>3. t \in TakenType
    BY <2>2 DEF TakenType
  <2>4. taken' \in Seq(TakenType) /\ Len(taken') \in Nat
    BY <1>1, <2>1, <2>3, AppendProperties
  <2>5. l \in LineType /\ l.kind # "banner" /\ l.upto = Len(taken')
    BY <2>4 DEF LineType
  <2>6. board = "arduino"
    BY <1>1, <2>1 DEF Points, Boards
  <2>7. ~wasArmed /\ said # <<>> /\ BannerFirst(said) /\ ~statusPending /\ AllAnswered(taken, said)
    BY <2>1, <2>6 DEF ToldInv
  <2>8. AllAnswered(taken', said')
    <3>1. CASE Head(rx) = "probe"
      <4>1. l.kind = "status"
        BY <3>1
      <4> HIDE DEF l, t
      <4> QED
        BY <1>1, <2>1, <2>4, <2>5, <4>1, StatusAnswers
    <3>2. CASE Head(rx) # "probe"
      <4>1. t # ProbeTaken
        BY <3>2 DEF ProbeTaken
      <4> HIDE DEF l, t
      <4>2. AllAnswered(taken', said)
        BY <1>1, <2>1, <2>3, <2>7, <4>1, AnsweredNoProbe
      <4> QED
        BY <1>1, <2>1, <2>4, <2>5, <4>2, AnsweredStill
    <3> QED
      BY <3>1, <3>2
  <2> HIDE DEF l, t
  <2>9. BannerFirst(said') /\ said' # <<>>
    BY <1>1, <2>1, <2>5, <2>7, BannerStaysFirst
  <2> QED
    BY <2>1, <2>6, <2>7, <2>8, <2>9 DEF ToldInv
<1>4. CASE ChunkByteToApp
  <2> DEFINE t == [by |-> "app", byte |-> Head(chunk)]
             l == [kind |-> "echo", upto |-> Len(taken')]
  <2>1. /\ pc = "chunk" /\ pc' = "chunk" /\ chunk # <<>> /\ board' = board
        /\ taken' = Append(taken, t)
        /\ IF Head(chunk) = "probe" THEN statusPending' = TRUE /\ UNCHANGED said
           ELSE said' = Append(said, l) /\ UNCHANGED statusPending
    BY <1>4 DEF ChunkByteToApp, TakeFromChunk, Goto, Take, Writes, Line
  <2>2. board = "idf"
    BY <1>1, <2>1 DEF Points, Boards
  <2>3. Head(chunk) \in Bytes
    BY <1>1, <2>1, HeadTailType
  <2>4. t \in TakenType
    BY <2>3 DEF TakenType
  <2>5. taken' \in Seq(TakenType) /\ Len(taken') \in Nat
    BY <1>1, <2>1, <2>4, AppendProperties
  <2>6. l \in LineType
    BY <2>5 DEF LineType
  <2>7. ASSUME ~statusPending' PROVE AllAnswered(taken', said')
    <3>1. /\ Head(chunk) # "probe" /\ said' = Append(said, l) /\ ~statusPending
      BY <2>1, <2>7
    <3>2. t # ProbeTaken /\ AllAnswered(taken, said)
      BY <3>1 DEF ProbeTaken, ToldInv
    <3> HIDE DEF l, t
    <3>3. AllAnswered(taken', said)
      BY <1>1, <2>1, <2>4, <3>2, AnsweredNoProbe
    <3> QED
      BY <1>1, <2>5, <2>6, <3>1, <3>3, AnsweredStill
  <2> QED
    BY <2>1, <2>2, <2>7 DEF ToldInv
<1> QED
  BY <1>2, <1>3, <1>4

LEMMA LoopTold ==
  ASSUME TypeOK, ToldInv,
         Setup \/ Tick \/ DrainEnds \/ CheckArmed \/ EchoEnds \/ ReadChunk \/ PrintStatus
  PROVE  ToldInv'
<1>1. /\ said \in Seq(LineType) /\ taken \in Seq(TakenType) /\ Len(taken) \in Nat
      /\ board \in Boards /\ pc \in Points[board]
      /\ statusPending \in BOOLEAN /\ wasArmed \in BOOLEAN
  BY DEF TypeOK
<1>2. taken' = taken /\ board' = board
  BY TickWhole DEF Setup, DrainEnds, CheckArmed, EchoEnds, ReadChunk, PrintStatus, Goto, serial
<1>3. CASE Setup \/ Tick \/ DrainEnds \/ EchoEnds \/ ReadChunk
  <2>1. /\ UNCHANGED <<wasArmed, statusPending, said>> /\ pc # "chunk" /\ pc' # "echo"
    <3>1. CASE Setup \/ DrainEnds \/ EchoEnds \/ ReadChunk
      BY <3>1 DEF Setup, DrainEnds, EchoEnds, ReadChunk, Goto, loop, app
    <3>2. CASE Tick
      BY <3>2, TickWhole DEF Goto, loop, app
    <3> QED
      BY <1>3, <3>1, <3>2
  <2> QED
    BY <1>2, <2>1 DEF ToldInv
<1>4. CASE CheckArmed
  <2>1. board = "arduino" /\ pc = "check"
    BY <1>1, <1>4 DEF CheckArmed, Points, Boards
  <2>2. /\ statusPending' = statusPending /\ pc' = IF SketchArmed THEN "tick" ELSE "echo"
    BY <1>4 DEF CheckArmed, Goto
  <2>3. /\ wasArmed <=> said = <<>>
        /\ BannerFirst(said) /\ ~statusPending /\ AllAnswered(taken, said)
    BY <2>1 DEF ToldInv
  <2>4. CASE wasArmed /\ ~SketchArmed
    <3> DEFINE l == [kind |-> "banner", upto |-> Len(taken')]
    <3>1. said' = Append(said, l) /\ wasArmed' = FALSE
      BY <1>4, <2>4 DEF CheckArmed, Writes, Line
    <3>2. l \in LineType /\ l.kind = "banner"
      BY <1>1, <1>2 DEF LineType
    <3> HIDE DEF l
    <3>3. BannerFirst(said') /\ said' # <<>>
      BY <1>1, <2>3, <2>4, <3>1, <3>2, BannerStaysFirst
    <3>4. AllAnswered(taken', said')
      BY <1>1, <1>2, <2>3, <3>1, <3>2, AnsweredStill
    <3> QED
      BY <1>2, <2>1, <2>2, <2>3, <3>1, <3>3, <3>4 DEF ToldInv
  <2>5. CASE ~(wasArmed /\ ~SketchArmed)
    <3>1. UNCHANGED <<said, wasArmed>>
      BY <1>4, <2>5 DEF CheckArmed
    <3> QED
      BY <1>2, <2>1, <2>2, <2>3, <2>5, <3>1 DEF ToldInv
  <2> QED
    BY <2>4, <2>5
<1>5. CASE PrintStatus
  <2>1. board = "idf" /\ pc = "chunk"
    BY <1>1, <1>5 DEF PrintStatus, Points, Boards
  <2>2. statusPending' = FALSE
    BY <1>5 DEF PrintStatus
  <2>3. AllAnswered(taken', said')
    <3>1. CASE statusPending
      <4> DEFINE l == [kind |-> "status", upto |-> Len(taken')]
      <4>1. said' = Append(said, l)
        BY <1>5, <3>1 DEF PrintStatus, Writes, Line
      <4>2. l \in LineType /\ l.kind = "status" /\ l.upto = Len(taken)
        BY <1>1, <1>2 DEF LineType
      <4> HIDE DEF l
      <4> QED
        BY <1>1, <1>2, <4>1, <4>2, StatusAnswers
    <3>2. CASE ~statusPending
      BY <1>2, <1>5, <3>2 DEF PrintStatus, ToldInv
    <3> QED
      BY <3>1, <3>2
  <2> QED
    BY <1>2, <2>1, <2>2, <2>3 DEF ToldInv
<1> QED
  BY <1>3, <1>4, <1>5

\* The banner comes once and before any echo, and a probe that the application has
\* taken is answered before the loop goes round (arduino-test/src/main.cpp:91-114,
\* idf-test/main/main.cpp:167-186).
THEOREM HostIsAnswered == Spec => []HostIsTold
<1>1. Init => ToldInv
  <2> SUFFICES ASSUME Init PROVE ToldInv
    OBVIOUS
  <2>1. Len(<<>>) = 0 /\ \A i : i \notin 1..0
    BY EmptySeq
  <2> QED
    BY <2>1 DEF Init, ToldInv, BannerFirst, AllAnswered
<1>2. TypeOK /\ ToldInv /\ [Next]_vars => ToldInv'
  <2> SUFFICES ASSUME TypeOK, ToldInv, [Next]_vars PROVE ToldInv'
    OBVIOUS
  <2>1. CASE HostSends \/ TimePasses \/ UNCHANGED vars
    <3>1. UNCHANGED <<board, pc, wasArmed, statusPending, said, taken>>
      BY <2>1 DEF HostSends, TimePasses, vars, loop, app, serial
    <3> QED
      BY <3>1 DEF ToldInv
  <2> QED
    BY <2>1, ByteTold, LoopTold DEF Next, Step, Sketch, IdfLoop
<1>3. TypeOK /\ ToldInv => HostIsTold
  <2> SUFFICES ASSUME TypeOK, ToldInv PROVE HostIsTold
    OBVIOUS
  <2>1. DOMAIN said = 1..Len(said) /\ DOMAIN taken = 1..Len(taken)
    <3>1. said \in Seq(LineType) /\ taken \in Seq(TakenType)
      BY DEF TypeOK
    <3>2. DOMAIN said = 1..Len(said)
      BY <3>1, LenProperties
    <3>3. DOMAIN taken = 1..Len(taken)
      BY <3>1, LenProperties
    <3> QED
      BY <3>2, <3>3
  <2>2. BannerThenEcho
    BY <2>1 DEF ToldInv, BannerFirst, BannerThenEcho
  <2>3. ProbesAnswered
    BY <2>1 DEF ToldInv, AllAnswered, ProbesAnswered, ProbeTaken
  <2> QED
    BY <2>2, <2>3 DEF HostIsTold
<1> QED
  BY TypeCorrect, <1>1, <1>2, <1>3, PTL DEF Spec
=============================================================================
