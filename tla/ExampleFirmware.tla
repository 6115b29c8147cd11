-------------------------- MODULE ExampleFirmware --------------------------
(* The main loops of the two example firmwares (arduino-test/src/main.cpp and *)
(* idf-test/main/main.cpp) around the provisioning core, which is taken at    *)
(* what it promises (ProvisioningWindow; ImprovCore implements it).  Library  *)
(* and application read the same serial port: who gets a byte depends on who  *)
(* looks first, on the core's window and, in the sketch, on a clock of its own.*)
(*                                                                            *)
(* One action is one step of the loop.  A step lasts at most MaxStep, and     *)
(* bytes arrive between any two steps.  Requests are two bytes long; what     *)
(* FrameParser adds to that is left to it.                                    *)
EXTENDS Sequences, SequencesExt, Clock32

CONSTANTS
  WindowMs,   \* IMPROV_RUN_FOR, Config::windowMs
  MaxStep,    \* longest time one step of a loop takes
  ReadMax,    \* size of the IDF firmware's rx[]
  RxSize,     \* bytes the serial driver holds; the host waits when it is full
  MaxBytes,   \* bound on the bytes the host sends
  MaxTime     \* bound on the uptime

Bytes  == {"head", "tail", "probe"}   \* of a request; '?', or any other byte
Boards == {"arduino", "idf"}

ASSUME WindowAssumption == WindowMs \in Nat \ {0} /\ WindowMs < ClockMod
ASSUME SizesAssumption == ReadMax \in Nat \ {0} /\ RxSize \in Nat \ {0}
ASSUME BoundsAssumption ==
  MaxStep \in Nat \ {0} /\ MaxBytes \in Nat /\ MaxTime \in Nat

VARIABLES
  board,
  open, started, start, answers,   \* the core: its window and what it said
  half,                            \* the core: in the middle of a request
  pc, lasted,                      \* the loop, and how long its step has taken
  bootMs, wasArmed,                \* of the sketch
  rx, chunk,                       \* received, and read into rx[]
  statusPending, said,             \* the application and what it printed
  sent, taken,                     \* bytes sent, and who took which, in order
  sinceTick,                       \* bytes taken since the last tick()
  now

Core == INSTANCE ProvisioningWindow WITH log <- answers

coreVars == <<open, started, start, answers>>
loop     == <<bootMs, wasArmed>>
serial   == <<rx, chunk, sent, taken>>
app      == <<statusPending, said>>
vars == <<board, coreVars, half, pc, lasted, loop, serial, app, sinceTick, now>>

Init ==
  /\ board \in Boards
  /\ now = 0 /\ open = TRUE /\ started = FALSE /\ start = 0 /\ answers = <<>>
  /\ half = FALSE /\ pc = "setup" /\ lasted = 0
  /\ bootMs = 0 /\ wasArmed = TRUE
  /\ rx = <<>> /\ chunk = <<>> /\ statusPending = FALSE /\ said = <<>>
  /\ sent = 0 /\ taken = <<>> /\ sinceTick = 0

-----------------------------------------------------------------------------
(* The surroundings *)

HostSends ==
  /\ sent < MaxBytes /\ Len(rx) < RxSize
  /\ sent' = sent + 1
  /\ \E b \in Bytes : rx' = Append(rx, b)
  /\ UNCHANGED <<board, coreVars, half, pc, lasted, loop, chunk, taken, app, sinceTick, now>>

TimePasses ==
  /\ lasted < MaxStep /\ now < MaxTime
  /\ now' = now + 1 /\ lasted' = lasted + 1
  /\ UNCHANGED <<board, coreVars, half, pc, loop, serial, app, sinceTick>>

Goto(point) == pc' = point /\ lasted' = 0 /\ UNCHANGED <<board, now>>

-----------------------------------------------------------------------------
(* What both boards do.  A definition whose name begins with Bad is wrong on  *)
(* purpose: the run must notice when it takes the place of the one that       *)
(* follows it.                                                                *)

\* setup() and app_main() up to the loop.
Setup ==
  /\ pc = "setup" /\ Goto("tick")
  /\ bootMs' = Wrap(now)
  /\ UNCHANGED <<coreVars, half, wasArmed, serial, app, sinceTick>>

TickClosed == ~open /\ UNCHANGED coreVars

\* handleSerial() and the IDF loop begin with tick(); the closed core forgets
\* half a request.
Tick ==
  /\ pc = "tick"
  /\ UNCHANGED answers
  /\ Core!TickWithin \/ Core!TickCloses \/ TickClosed
  /\ half' = (half /\ open')
  /\ sinceTick' = 0
  /\ Goto(IF board = "arduino" THEN "drain" ELSE "read")
  /\ UNCHANGED <<loop, serial, app>>

Take(owner, b) ==
  /\ taken' = Append(taken, [by |-> owner, byte |-> b])
  /\ sinceTick' = sinceTick + 1

\* feedByte(): the last byte of a request is answered.
Feed(b) ==
  /\ half' = (b = "head")
  /\ IF half /\ b = "tail"
     THEN answers' = Append(answers, Len(taken) + 1) /\ Core!Speak
     ELSE UNCHANGED coreVars
  /\ Take("core", b)

\* What the application prints, and how many bytes had been taken by then.
Line(k) == [kind |-> k, upto |-> Len(taken')]
Writes(k) == said' = Append(said, Line(k))

-----------------------------------------------------------------------------
(* The sketch *)

\* handleSerial() reads for as long as there is anything to read.
DrainByte ==
  /\ pc = "drain" /\ open /\ rx # <<>>
  /\ Feed(Head(rx)) /\ rx' = Tail(rx)
  /\ Goto("drain")
  /\ UNCHANGED <<loop, chunk, sent, app>>

DrainEnds ==
  /\ pc = "drain" /\ (~open \/ rx = <<>>)
  /\ Goto("check")
  /\ UNCHANGED <<coreVars, half, loop, serial, app, sinceTick>>

BadSketchArmedSigned == SignedDiff(Wrap(now), bootMs) < WindowMs
BadSketchArmedLong   == Wrap(Wrap(now) - bootMs) <= WindowMs

\* millis() - bootMs < IMPROV_RUN_FOR, in uint32_t.
SketchArmed == Wrap(Wrap(now) - bootMs) < WindowMs

BadCheckArmed ==
  /\ pc = "check"
  /\ UNCHANGED <<coreVars, half, loop, serial, statusPending, sinceTick>>
  /\ IF wasArmed /\ ~SketchArmed THEN Writes("banner") ELSE UNCHANGED said
  /\ Goto(IF SketchArmed THEN "tick" ELSE "echo")

\* One banner, when the sketch's own count of the window ends.
CheckArmed ==
  /\ pc = "check"
  /\ UNCHANGED <<coreVars, half, bootMs, serial, statusPending, sinceTick>>
  /\ IF wasArmed /\ ~SketchArmed
     THEN Writes("banner") /\ wasArmed' = FALSE
     ELSE UNCHANGED <<said, wasArmed>>
  /\ Goto(IF SketchArmed THEN "tick" ELSE "echo")

BadEchoByte ==
  /\ pc = "echo" /\ rx # <<>>
  /\ Take("app", Head(rx)) /\ rx' = Tail(rx)
  /\ IF Head(rx) = "probe" THEN UNCHANGED said ELSE Writes("echo")
  /\ Goto("echo")
  /\ UNCHANGED <<coreVars, half, loop, chunk, sent, statusPending>>

EchoByte ==
  /\ pc = "echo" /\ rx # <<>>
  /\ Take("app", Head(rx)) /\ rx' = Tail(rx)
  /\ Writes(IF Head(rx) = "probe" THEN "status" ELSE "echo")
  /\ Goto("echo")
  /\ UNCHANGED <<coreVars, half, loop, chunk, sent, statusPending>>

EchoEnds ==
  /\ pc = "echo" /\ rx = <<>>
  /\ Goto("tick")
  /\ UNCHANGED <<coreVars, half, loop, serial, app, sinceTick>>

Sketch == DrainByte \/ DrainEnds \/ CheckArmed \/ EchoByte \/ EchoEnds

-----------------------------------------------------------------------------
(* The IDF firmware *)

BadReadChunk ==
  /\ pc = "read"
  /\ chunk' = rx /\ rx' = <<>>
  /\ Goto("chunk")
  /\ UNCHANGED <<coreVars, half, loop, sent, taken, app, sinceTick>>

\* usb_serial_jtag_read_bytes(), which waits a while for something to come.
ReadChunk ==
  /\ pc = "read"
  /\ \E n \in 0..ReadMax :
       /\ n <= Len(rx) /\ (n = 0 => rx = <<>>)
       /\ chunk' = SubSeq(rx, 1, n) /\ rx' = SubSeq(rx, n + 1, Len(rx))
  /\ Goto("chunk")
  /\ UNCHANGED <<coreVars, half, loop, sent, taken, app, sinceTick>>

\* isArmed() is asked again for every byte.
ChunkByteToCore ==
  /\ pc = "chunk" /\ chunk # <<>> /\ open
  /\ Feed(Head(chunk)) /\ chunk' = Tail(chunk)
  /\ Goto("chunk")
  /\ UNCHANGED <<loop, rx, sent, app>>

TakeFromChunk ==
  /\ Take("app", Head(chunk)) /\ chunk' = Tail(chunk)
  /\ IF Head(chunk) = "probe"
     THEN statusPending' = TRUE /\ UNCHANGED said
     ELSE Writes("echo") /\ UNCHANGED statusPending
  /\ Goto("chunk")
  /\ UNCHANGED <<coreVars, half, loop, rx, sent>>

BadChunkByteToApp ==
  /\ pc = "chunk" /\ chunk # <<>> /\ (~open \/ Head(chunk) = "probe")
  /\ TakeFromChunk

ChunkByteToApp ==
  /\ pc = "chunk" /\ chunk # <<>> /\ ~open
  /\ TakeFromChunk

BadPrintStatus ==
  /\ pc = "chunk" /\ chunk = <<>>
  /\ UNCHANGED <<coreVars, half, loop, serial, sinceTick>>
  /\ IF statusPending THEN Writes("status") ELSE UNCHANGED said
  /\ statusPending' = FALSE
  /\ Goto(IF rx = <<>> THEN "tick" ELSE "read")

\* One line answers all probes of a chunk; it always says that the core is closed.
PrintStatus ==
  /\ pc = "chunk" /\ chunk = <<>>
  /\ UNCHANGED <<coreVars, half, loop, serial, sinceTick>>
  /\ IF statusPending THEN Writes("status") ELSE UNCHANGED said
  /\ statusPending' = FALSE
  /\ Goto("tick")

IdfLoop == ReadChunk \/ ChunkByteToCore \/ ChunkByteToApp \/ PrintStatus

-----------------------------------------------------------------------------
Step == Setup \/ Tick \/ Sketch \/ IdfLoop

Next == HostSends \/ TimePasses \/ Step

Spec == Init /\ [][Next]_vars

\* The loop runs and time passes; the host sends when it likes.
Fairness == WF_vars(Step) /\ WF_vars(TimePasses)

FairSpec == Spec /\ Fairness
-----------------------------------------------------------------------------
(* Properties *)

\* As long as the provisioning window nominally lasts, every byte goes to the core:
\* on the IDF board until the core closes, in the sketch until its own clock says
\* that the window is over (arduino-test/src/main.cpp:93-103,
\* idf-test/main/main.cpp:158-163).
WindowBytesToCore ==
  [][taken' # taken /\ Last(taken').by = "app" =>
       ~open \/ (board = "arduino" /\ now - bootMs >= WindowMs)]_vars

\* The sketch never takes itself for armed when the core has closed already, which
\* would leave the bytes to nobody; 49 days later it does, for one more window
\* (arduino-test/src/main.cpp:71, 97).
NoDeafness ==
  board = "arduino" /\ ~open /\ now - bootMs < ClockMod => ~SketchArmed

\* The core closes a step or two late, and one step later for every byte that was
\* read between two ticks: no more than a chunk on the IDF board, as many as the
\* host sends without a pause in the sketch (arduino_facade.cpp:39-45,
\* idf-test/main/main.cpp:142-187).
ClosesInTime ==
  /\ open /\ started => now - start < WindowMs + MaxStep * (sinceTick + 4)
  /\ board = "idf" => sinceTick <= ReadMax

BannerThenEcho ==
  board = "arduino" =>
    \A i \in DOMAIN said : said[i].kind = "banner" <=> i = 1
ProbesAnswered ==
  pc = "tick" =>
    \A i \in DOMAIN taken :
      taken[i] = [by |-> "app", byte |-> "probe"] =>
        \E j \in DOMAIN said : said[j].kind = "status" /\ said[j].upto >= i

\* The sketch announces the end of the window once, and before it echoes a byte; a
\* probe that the application has taken is answered before the loop goes round,
\* though one line may answer several (arduino-test/src/main.cpp:91-114,
\* idf-test/main/main.cpp:167-186).
HostIsTold == BannerThenEcho /\ ProbesAnswered

\* Whatever the two clocks say, no byte is left unread for good
\* (arduino-test/src/main.cpp:74-114, idf-test/main/main.cpp:142-187).
EveryByteTaken == \A n \in 1..MaxBytes : sent >= n ~> Len(taken) >= n
=============================================================================
