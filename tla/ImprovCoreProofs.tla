-------------------------- MODULE ImprovCoreProofs --------------------------
(* Theorems about ImprovCore, for every window, tick gap, boot time and width *)
(* of the counter that the assumptions allow, and about the list it reports,  *)
(* for every number of records.                                              *)
EXTENDS MCImprovCore, SequenceTheorems, WellFoundedInduction, TLAPS

-----------------------------------------------------------------------------
(* What the 32-bit comparison of Clock32 means for true times *)

LEMMA ClockModPositive == ClockMod \in Nat \ {0} /\ ClockMod = 2 * HalfRange
BY ClockAssumption DEF ClockMod

\* A reading of the counter is a uint32_t.
LEMMA WrapRange == ASSUME NEW t \in Int PROVE Wrap(t) \in 0..(ClockMod - 1)
BY ClockModPositive DEF Wrap

LEMMA DivMod ==
  ASSUME NEW t \in Int
  PROVE  /\ t \div ClockMod \in Int
         /\ Wrap(t) \in 0..(ClockMod - 1)
         /\ t = ClockMod * (t \div ClockMod) + Wrap(t)
<1> ClockMod \in Nat \ {0}
  BY ClockModPositive
<1> QED
  BY DEF Wrap

\* Quotient and remainder are unique.
LEMMA RemainderUnique ==
  ASSUME NEW x \in Int, NEW q \in Int, NEW r \in 0..(ClockMod - 1),
         x = ClockMod * q + r
  PROVE  Wrap(x) = r
<1> DEFINE d == x \div ClockMod
           s == Wrap(x)
           M == ClockMod
<1>1. x = M * d + s /\ d \in Int /\ s \in 0..(M - 1)
  BY DivMod
<1>2. M \in Nat \ {0} /\ x = M * q + r /\ r \in 0..(M - 1)
  BY ClockModPositive
<1> HIDE DEF d, s, M
<1>3. M * (d - q) = r - s
  BY <1>1, <1>2
<1>4. d - q < 1
  <2>1. SUFFICES ASSUME d - q >= 1 PROVE FALSE
    BY <1>1
  <2>2. M * (d - q) >= M
    BY <2>1, <1>1, <1>2
  <2> QED
    BY <2>2, <1>1, <1>2, <1>3
<1>5. d - q > -1
  <2>1. SUFFICES ASSUME d - q <= -1 PROVE FALSE
    BY <1>1
  <2>2. M * (q - d) >= M
    BY <2>1, <1>1, <1>2
  <2>3. M * (q - d) = s - r
    BY <1>1, <1>2, <1>3
  <2> QED
    BY <2>2, <2>3, <1>1, <1>2
<1>6. d = q
  BY <1>1, <1>4, <1>5
<1>7. s = r
  BY <1>1, <1>2, <1>3, <1>6
<1> QED
  BY <1>7 DEF s

\* Subtracting two readings and wrapping loses nothing but whole turns.
LEMMA WrapDiff ==
  ASSUME NEW a \in Int, NEW b \in Int
  PROVE  Wrap(Wrap(a) - Wrap(b)) = Wrap(a - b)
<1> DEFINE M == ClockMod
           qa == a \div M
           qb == b \div M
           qd == (Wrap(a) - Wrap(b)) \div M
           ra == Wrap(a)
           rb == Wrap(b)
           rd == Wrap(ra - rb)
<1>1. qa \in Int /\ ra \in 0..(M - 1) /\ a = M * qa + ra
  BY DivMod
<1>2. qb \in Int /\ rb \in 0..(M - 1) /\ b = M * qb + rb
  BY DivMod
<1>3. ra - rb \in Int /\ M \in Nat \ {0}
  BY <1>1, <1>2, ClockModPositive
<1>4. qd \in Int /\ rd \in 0..(M - 1) /\ ra - rb = M * qd + rd
  BY <1>3, DivMod
<1>5. (qa - qb) + qd \in Int
  BY <1>1, <1>2, <1>4
<1>6. a - b = M * ((qa - qb) + qd) + rd
  <2> HIDE DEF M, qa, qb, qd, ra, rb, rd
  <2> QED
    BY <1>1, <1>2, <1>3, <1>4
<1>7. Wrap(a - b) = rd
  <2> HIDE DEF qa, qb, qd, ra, rb, rd
  <2> QED
    BY <1>4, <1>5, <1>6, RemainderUnique
<1> QED
  BY <1>7

\* For two times less than half a turn apart the signed difference of their
\* readings is the true difference.
LEMMA SignedDiffExact ==
  ASSUME NEW a \in Int, NEW b \in Int, -HalfRange <= a - b, a - b < HalfRange
  PROVE  SignedDiff(Wrap(a), Wrap(b)) = a - b
<1> DEFINE x == a - b
<1>1. x \in Int /\ -HalfRange <= x /\ x < HalfRange
  OBVIOUS
<1>2. SignedDiff(Wrap(a), Wrap(b)) = Signed(Wrap(x))
  BY WrapDiff DEF SignedDiff
<1> HIDE DEF x
<1>3. CASE x >= 0
  <2>1. Wrap(x) = x
    BY <1>1, <1>3, ClockAssumption, ClockModPositive DEF Wrap
  <2> QED
    BY <1>1, <1>2, <2>1 DEF Signed, x
<1>4. CASE x < 0
  <2>1. Wrap(x) = x + ClockMod
    BY <1>1, <1>4, ClockAssumption, ClockModPositive DEF Wrap
  <2>2. x + ClockMod >= HalfRange
    BY <1>1, <1>4, ClockAssumption, ClockModPositive
  <2> QED
    BY <1>1, <1>2, <2>1, <2>2, ClockAssumption, ClockModPositive DEF Signed, x
<1> QED
  BY <1>1, <1>3, <1>4

\* ... and the expiry test is the comparison of the true times.
LEMMA ReachedExact ==
  ASSUME NEW a \in Int, NEW b \in Int, -HalfRange <= a - b, a - b < HalfRange
  PROVE  Reached(Wrap(a), Wrap(b)) <=> a >= b
BY SignedDiffExact DEF Reached

-----------------------------------------------------------------------------
(* The clock of the core *)

\* True time relates the ghosts: ticks are at most MaxGap apart, and the deadline
\* the program keeps is the reading of the counter at anchor + WindowMs.
ClockInv ==
  /\ anchor <= lastTick /\ lastTick <= now /\ now - lastTick <= MaxGap
  /\ clockAnchored => deadlineMs = Wrap(anchor + WindowMs)
  /\ ~clockAnchored => armed

\* Handlers are suspended, and scans awaited, only while the window is open.
HandlerInv ==
  /\ pc # "loop" => armed
  /\ scanPhase = "Awaiting" => armed /\ hasBackend

IInv == TypeOK /\ ClockInv /\ WindowExact /\ HandlerInv /\ ScanReleased

-----------------------------------------------------------------------------
(* The log holds entries, whatever is appended *)

LEMMA EntryForms ==
  /\ \A c \in Requests : Rpc(c) \in Entries
  /\ \A s \in States : StateFrame(s) \in Entries
  /\ \A e \in Errors : ErrorFrame(e) \in Entries
  /\ \A c \in Commands, b \in Bodies : Response(c, b) \in Entries
  /\ \A f \in Callbacks : Callback(f) \in Entries
BY DEF Entries

LEMMA ReplyIsEntry ==
  ASSUME NEW fits, NEW c \in Commands, NEW b \in Bodies
  PROVE  Reply(fits, c, b) \in Entries
BY EntryForms DEF Reply, Errors

LEMMA ListsAreEntries == Terminator \in Entries /\ ApFrame \in Entries
BY EntryForms DEF Terminator, ApFrame, Commands, Bodies

LEMMA ReportIsEntries ==
  ASSUME NEW n \in Int, NEW aps \in ApFrames(n)
  PROVE  aps \o <<Terminator>> \in Seq(Entries) /\ aps \in Seq(Entries)
<1>1. PICK k \in 0..(IF n > 0 THEN n ELSE 0) : aps \in [1..k -> {ApFrame}]
  BY DEF ApFrames
<1>2. k \in Nat
  OBVIOUS
<1>3. aps \in Seq(Entries)
  BY <1>1, <1>2, ListsAreEntries
<1> QED
  BY <1>3, ListsAreEntries

LEMMA UrlIsEntries ==
  ASSUME TypeOK
  PROVE  <<Reply(dev.url # "oversize", urlCmd, UrlBody)>>
           \o (IF urlCmd = "WifiSettings" THEN <<Callback("onConnected")>>
                                           ELSE <<>>) \in Seq(Entries)
<1>1. UrlBody \in Bodies /\ urlCmd \in Commands
  BY DEF UrlBody, Bodies, TypeOK
<1>2. Reply(dev.url # "oversize", urlCmd, UrlBody) \in Entries
  BY <1>1, ReplyIsEntry
<1>3. Callback("onConnected") \in Entries
  BY EntryForms DEF Callbacks
<1> QED
  BY <1>2, <1>3

-----------------------------------------------------------------------------
(* The expiry test at a tick *)

\* At every tick the program's test for expiry is exact.
LEMMA ExpiryExact ==
  ASSUME TypeOK, ClockInv, WindowExact, armed
  PROVE  LET a == IF clockAnchored THEN anchor ELSE now IN
           /\ Deadline = Wrap(a + WindowMs)
           /\ Expired <=> now - a >= WindowMs
<1> DEFINE a == IF clockAnchored THEN anchor ELSE now
<1>1. a \in Nat /\ now \in Nat /\ a <= now
  BY DEF TypeOK, ClockInv
<1>2. Deadline = Wrap(a + WindowMs)
  BY DEF Deadline, ClockInv
<1>3. now - a < WindowMs + MaxGap \/ now = a
  BY WindowAssumption, GapAssumption DEF TypeOK, ClockInv, WindowExact
<1>4. -HalfRange <= now - (a + WindowMs) /\ now - (a + WindowMs) < HalfRange
  BY <1>1, <1>3, WindowAssumption, GapAssumption, ClockAssumption
<1> HIDE DEF a
<1>5. Expired <=> now >= a + WindowMs
  BY <1>1, <1>2, <1>4, WindowAssumption, ReachedExact DEF Expired
<1>6. now >= a + WindowMs <=> now - a >= WindowMs
  BY <1>1, WindowAssumption
<1>7. Expired <=> now - a >= WindowMs
  BY <1>5, <1>6
<1> QED
  BY <1>2, <1>7 DEF a

-----------------------------------------------------------------------------
(* The invariant *)

LEMMA InitInv == Init => IInv
<1> SUFFICES ASSUME Init PROVE IInv
  OBVIOUS
<1>1. TypeOK
  <2>1. log \in Seq(Entries)
    BY DEF Init
  <2>2. now \in Nat /\ anchor \in Nat /\ lastTick \in Nat
    BY BootAssumption DEF Init
  <2>3. deadlineMs \in 0..(ClockMod - 1)
    BY ClockModPositive DEF Init
  <2> QED
    BY <2>1, <2>2, <2>3 DEF Init, TypeOK, Commands, ScanStarts, Cleared
<1> QED
  BY <1>1, BootAssumption, GapAssumption
  DEF Init, IInv, TypeOK, ClockInv, WindowExact, HandlerInv, ScanReleased

\* What every request handler has in common.
LEMMA ReceiveKeeps ==
  ASSUME IInv, NEW c \in Requests, NEW frames \in Seq(Entries),
         Receive(c, frames)
  PROVE  /\ armed /\ pc = "loop"
         /\ log' \in Seq(Entries)
         /\ ClockInv' /\ WindowExact'
<1>1. Rpc(c) \in Entries /\ log \in Seq(Entries)
  BY EntryForms DEF IInv, TypeOK
<1> QED
  BY <1>1 DEF IInv, Receive, ClockInv, WindowExact, window, clock

\* What the handlers write at once.
FramesInUse ==
  /\ \A e \in Errors : <<ErrorFrame(e)>> \in Seq(Entries)
  /\ \A s \in States : <<StateFrame(s)>> \in Seq(Entries)
  /\ <<StateFrame("Provisioning"), ErrorFrame("Unknown")>> \in Seq(Entries)
  /\ <<Reply(dev.infoFits, "GetDeviceInfo", "info")>> \in Seq(Entries)
  /\ <<Terminator>> \in Seq(Entries)
  /\ <<>> \in Seq(Entries)

LEMMA FramesAreEntries == FramesInUse
BY EntryForms, ReplyIsEntry, ListsAreEntries
DEF FramesInUse, Errors, States, Commands, Bodies

LEMMA FeedFrameInv == ASSUME IInv, FeedFrame PROVE IInv'
<1>1. ASSUME NEW c \in Requests, NEW frames \in Seq(Entries),
             Receive(c, frames), Stay
      PROVE  IInv'
  <2>1. armed /\ pc = "loop" /\ log' \in Seq(Entries) /\ ClockInv' /\ WindowExact'
    BY <1>1, ReceiveKeeps
  <2>2. TypeOK'
    BY <1>1, <2>1
    DEF IInv, TypeOK, Receive, Stay, window, clock, config, handler
  <2> QED
    BY <1>1, <2>1, <2>2
    DEF IInv, HandlerInv, ScanReleased, Receive, Stay, window, config, handler
<1>2. ASSUME NEW c \in Commands, NEW frames \in Seq(Entries),
             NEW p \in {"url", "connect"},
             Receive(c, frames), SuspendAt(p, c)
      PROVE  IInv'
  <2>1. armed /\ pc = "loop" /\ log' \in Seq(Entries) /\ ClockInv' /\ WindowExact'
    BY <1>2, ReceiveKeeps DEF Requests
  <2>2. TypeOK'
    BY <1>2, <2>1
    DEF IInv, TypeOK, Receive, SuspendAt, window, clock, config
  <2> QED
    BY <1>2, <2>1, <2>2
    DEF IInv, HandlerInv, ScanReleased, Receive, SuspendAt, window, config
<1>3. FramesInUse
  BY FramesAreEntries
<1>4. CASE GetCurrentStateConnected
  BY <1>2, <1>3, <1>4 DEF FramesInUse, GetCurrentStateConnected, Commands, States
<1>5. CASE GetCurrentStateNotConnected
  BY <1>1, <1>3, <1>5 DEF FramesInUse, GetCurrentStateNotConnected, Requests, Commands, States
<1>6. CASE WifiSettingsIllegal
  BY <1>1, <1>3, <1>6 DEF FramesInUse, WifiSettingsIllegal, Requests, Commands, Errors
<1>7. CASE WifiSettingsNoBackend
  BY <1>1, <1>3, <1>7 DEF FramesInUse, WifiSettingsNoBackend, Requests, Commands
<1>8. CASE WifiSettingsConnect
  BY <1>2, <1>3, <1>8 DEF FramesInUse, WifiSettingsConnect, Commands, States
<1>9. CASE GetDeviceInfo
  BY <1>1, <1>3, <1>9 DEF FramesInUse, GetDeviceInfo, Requests, Commands
<1>10. CASE GetWifiNetworks
  <2>1. "GetWifiNetworks" \in Requests /\ <<>> \in Seq(Entries)
    BY <1>3 DEF FramesInUse, Requests, Commands
  <2>2. Receive("GetWifiNetworks", <<>>)
    BY <1>10 DEF GetWifiNetworks
  <2>3. armed /\ pc = "loop" /\ log' \in Seq(Entries) /\ ClockInv' /\ WindowExact'
    BY <2>1, <2>2, ReceiveKeeps
  <2>4. TypeOK'
    BY <1>10, <2>2, <2>3
    DEF IInv, TypeOK, GetWifiNetworks, Receive, window, clock, config, handler
  <2> QED
    BY <1>10, <2>2, <2>3, <2>4
    DEF IInv, HandlerInv, ScanReleased, GetWifiNetworks, Receive, window,
        config, handler
<1>11. CASE GetWifiNetworksNoBackend
  BY <1>1, <1>3, <1>11 DEF FramesInUse, GetWifiNetworksNoBackend, Requests, Commands
<1>12. CASE Identify
  BY <1>1, <1>3, <1>12 DEF FramesInUse, Identify, Requests, Commands, Errors
<1>13. CASE Malformed
  BY <1>1, <1>3, <1>13 DEF FramesInUse, Malformed, Requests, Errors
<1>14. CASE Unsupported
  BY <1>1, <1>3, <1>14 DEF FramesInUse, Unsupported, Requests, Errors
<1> QED
  BY <1>4, <1>5, <1>6, <1>7, <1>8, <1>9, <1>10, <1>11, <1>12, <1>13, <1>14
  DEF FeedFrame

LEMMA TickInv == ASSUME IInv, Tick PROVE IInv'
<1> DEFINE a == IF clockAnchored THEN anchor ELSE now
<1>1. CASE TickClosed
  BY <1>1, GapAssumption, WindowAssumption
  DEF TickClosed, IInv, TypeOK, ClockInv, WindowExact, HandlerInv, ScanReleased,
      window, handler, backend, config
<1>2. ASSUME armed, AnchorClock
      PROVE  /\ clockAnchored' /\ deadlineMs' = Wrap(anchor' + WindowMs)
             /\ deadlineMs' \in 0..(ClockMod - 1)
             /\ anchor' \in Nat /\ anchor' <= now
             /\ Expired <=> now - anchor' >= WindowMs
  <2>1. TypeOK /\ ClockInv /\ WindowExact
    BY DEF IInv
  <2>2. /\ Deadline = Wrap(a + WindowMs)
        /\ Expired <=> now - a >= WindowMs
    BY <1>2, <2>1, ExpiryExact
  <2>3. anchor' = a /\ a \in Nat /\ a <= now
    BY <1>2, <2>1 DEF AnchorClock, TypeOK, ClockInv
  <2> QED
    BY <1>2, <2>2, <2>3, WrapRange, WindowAssumption DEF AnchorClock
<1>3. CASE TickExpires
  <2>1. armed /\ AnchorClock /\ Expired
    BY <1>3 DEF TickExpires
  <2>2. TypeOK'
    BY <1>3, <1>2, <2>1
    DEF TickExpires, GiveBackScan, IInv, TypeOK, handler, config, ScanStarts, Cleared
  <2>3. ClockInv' /\ WindowExact'
    <3>1. now - anchor' >= WindowMs
      BY <1>2, <2>1
    <3>2. lastTick' = now /\ now' = now /\ armed' = FALSE
      BY <1>3 DEF TickExpires
    <3>3. now \in Nat
      BY DEF IInv, TypeOK
    <3>4. WindowExact'
      BY <1>2, <2>1, <3>1, <3>2, <3>3, WindowAssumption DEF WindowExact
    <3>5. ClockInv'
      BY <1>2, <2>1, <3>2, <3>3, GapAssumption DEF ClockInv
    <3> QED
      BY <3>4, <3>5
  <2> QED
    BY <1>3, <2>2, <2>3
    DEF TickExpires, GiveBackScan, IInv, HandlerInv, ScanReleased, handler, TypeOK
<1>4. CASE TickPumps
  <2>1. armed /\ AnchorClock /\ ~Expired /\ armed' = armed
    BY <1>4 DEF TickPumps
  <2>2. log' \in Seq(Entries)
    <3>1. CASE PumpNothing
      BY <3>1 DEF PumpNothing, IInv, TypeOK
    <3>2. CASE PumpReport
      <4>1. PICK aps \in ApFrames(scanResult) : log' = log \o aps \o <<Terminator>>
        BY <3>2 DEF PumpReport
      <4>2. scanResult \in Int /\ log \in Seq(Entries)
        BY BoundsAssumption
        DEF IInv, TypeOK, ScanStarts, ScanOutcomes, kScanRunning, kScanFailed
      <4>3. aps \in Seq(Entries)
        BY <4>2, ReportIsEntries
      <4> QED
        BY <4>1, <4>2, <4>3, ListsAreEntries
    <3> QED
      BY <1>4, <3>1, <3>2 DEF TickPumps
  <2>3. TypeOK'
    BY <1>4, <1>2, <2>1, <2>2
    DEF TickPumps, PumpNothing, PumpReport, IInv, TypeOK, handler, config,
        ScanStarts, Cleared
  <2>4. ClockInv' /\ WindowExact'
    BY <1>4, <1>2, <2>1, GapAssumption, WindowAssumption
    DEF TickPumps, IInv, TypeOK, ClockInv, WindowExact
  <2> QED
    BY <1>4, <2>1, <2>3, <2>4
    DEF TickPumps, PumpNothing, PumpReport, IInv, HandlerInv, ScanReleased,
        handler, config
<1> QED
  BY <1>1, <1>3, <1>4 DEF Tick

LEMMA ResumeInv == ASSUME IInv, ConnectReturns \/ SendUrl PROVE IInv'
<1> USE DEF IInv, TypeOK, ClockInv, WindowExact, HandlerInv, ScanReleased,
            window, backend, clock, config
<1>1. CASE ConnectSucceeds
  <2>1. <<ErrorFrame("None"), StateFrame("Provisioned")>> \in Seq(Entries)
    BY EntryForms DEF Errors, States
  <2>2. log' \in Seq(Entries)
    BY <1>1, <2>1 DEF ConnectSucceeds
  <2> QED
    BY <1>1, <2>2 DEF ConnectSucceeds
<1>2. CASE ConnectFails
  <2>1. <<ErrorFrame("UnableToConnect"), Callback("onError"),
          StateFrame("Authorized")>> \in Seq(Entries)
    BY EntryForms DEF Errors, States, Callbacks
  <2>2. log' \in Seq(Entries)
    BY <1>2, <2>1 DEF ConnectFails
  <2> QED
    BY <1>2, <2>2 DEF ConnectFails
<1>3. CASE SendUrl
  <2>1. log' \in Seq(Entries)
    BY <1>3, UrlIsEntries DEF SendUrl
  <2> QED
    BY <1>3, <2>1 DEF SendUrl
<1> QED
  BY <1>1, <1>2, <1>3 DEF ConnectReturns

LEMMA SurroundingsInv ==
  ASSUME IInv, SetDeviceInfo \/ LinkChanges \/ ScanEnds \/ Advance
  PROVE  IInv'
<1> USE DEF IInv, TypeOK, ClockInv, WindowExact, HandlerInv, ScanReleased,
            window, handler, backend, clock, config
<1>1. CASE SetDeviceInfo
  BY <1>1 DEF SetDeviceInfo
<1>2. CASE LinkChanges
  BY <1>2 DEF LinkChanges
<1>3. CASE ScanEnds
  BY <1>3 DEF ScanEnds, kScanRunning, Cleared
<1>4. CASE Advance
  BY <1>4, GapAssumption DEF Advance
<1> QED
  BY <1>1, <1>2, <1>3, <1>4

LEMMA NextInv == IInv /\ [Next]_vars => IInv'
<1> SUFFICES ASSUME IInv, [Next]_vars PROVE IInv'
  OBVIOUS
<1>1. CASE Next
  BY <1>1, FeedFrameInv, TickInv, ResumeInv, SurroundingsInv DEF Next
<1>2. CASE UNCHANGED vars
  BY <1>2
  DEF vars, IInv, TypeOK, ClockInv, WindowExact, HandlerInv, ScanReleased,
      window, handler, backend, clock, config
<1> QED
  BY <1>1, <1>2

THEOREM Invariance == Spec => []IInv
BY InitInv, NextInv, PTL DEF Spec

-----------------------------------------------------------------------------
(* The theorems *)

\* Every variable stays in its type; in particular the deadline is a uint32_t.
THEOREM TypeCorrect == Spec => []TypeOK
BY Invariance, PTL DEF IInv

\* The window is open for exactly WindowMs of true time after the first tick, as
\* ticks sample it, for every counter width and boot time
\* (improv_wifi.cpp:33-45).
THEOREM WindowIsExact == Spec => []WindowExact
BY Invariance, PTL DEF IInv

\* A scan is held by the backend only while pumpScan_() will still collect it
\* (improv_wifi.cpp:42-43).
THEOREM ScanIsReleased == Spec => []ScanReleased
BY Invariance, PTL DEF IInv

\* The countdown shown to users is the true one (improv_wifi.h:79-84).
THEOREM RemainingIsHonest == Spec => []RemainingHonest
<1>1. IInv => RemainingHonest
  <2> SUFFICES ASSUME IInv PROVE RemainingHonest
    OBVIOUS
  <2> DEFINE b == anchor + WindowMs
  <2>1. CASE armed /\ clockAnchored
    <3>1. b \in Int /\ now \in Int /\ deadlineMs = Wrap(b)
      BY <2>1, WindowAssumption DEF IInv, TypeOK, ClockInv
    <3>2. -HalfRange <= b - now /\ b - now < HalfRange
      BY <2>1, WindowAssumption, GapAssumption, ClockAssumption
      DEF IInv, TypeOK, ClockInv, WindowExact
    <3> HIDE DEF b
    <3>3. SignedDiff(deadlineMs, Wrap(now)) = b - now
      BY <3>1, <3>2, SignedDiffExact
    <3>4. b - now > 0 <=> b > now
      BY <3>1
    <3>5. WindowMsRemaining(Wrap(now)) = IF b > now THEN b - now ELSE 0
      BY <2>1, <3>3, <3>4 DEF WindowMsRemaining
    <3> QED
      BY <2>1, <3>5, WindowAssumption DEF RemainingHonest, b, IInv, TypeOK
  <2>2. CASE ~(armed /\ clockAnchored)
    BY <2>2 DEF RemainingHonest, WindowMsRemaining
  <2> QED
    BY <2>1, <2>2
<1> QED
  BY <1>1, Invariance, PTL

\* What is added to the log extends it.
LEMMA AddingExtends ==
  ASSUME NEW s \in Seq(Entries), NEW t \in Seq(Entries)
  PROVE  Window!Extends(s \o t, s)
BY DEF Window!Extends

LEMMA SameExtends ==
  ASSUME NEW s \in Seq(Entries)
  PROVE  Window!Extends(s, s)
BY DEF Window!Extends

\* Every request is received while the window is open, and adds to the log.
LEMMA FeedFrameSpeaks == ASSUME IInv, FeedFrame PROVE Window!Speak
<1>1. ASSUME NEW c \in Requests, NEW frames \in Seq(Entries), Receive(c, frames)
      PROVE  Window!Speak
  <2>1. log \in Seq(Entries) /\ <<Rpc(c)>> \o frames \in Seq(Entries)
    BY <1>1, EntryForms DEF IInv, TypeOK
  <2>2. log' = log \o (<<Rpc(c)>> \o frames)
    BY <1>1, <2>1, EntryForms DEF Receive
  <2>3. Window!Extends(log', log)
    BY <2>1, <2>2, AddingExtends
  <2> QED
    BY <1>1, <2>3 DEF Window!Speak, Receive, window, clock
<1>2. FramesInUse
  BY FramesAreEntries
<1>3. \E c \in Requests, frames \in Seq(Entries) : Receive(c, frames)
  BY <1>2
  DEF FramesInUse, FeedFrame, GetCurrentStateConnected,
      GetCurrentStateNotConnected, WifiSettingsIllegal, WifiSettingsNoBackend,
      WifiSettingsConnect, GetDeviceInfo, GetWifiNetworks,
      GetWifiNetworksNoBackend, Identify, Malformed, Unsupported, Requests,
      Commands, States, Errors
<1> QED
  BY <1>1, <1>3

LEMMA ResumeSpeaks == ASSUME IInv, ConnectReturns \/ SendUrl PROVE Window!Speak
<1>1. PICK t \in Seq(Entries) : log' = log \o t
  <2>1. <<ErrorFrame("None"), StateFrame("Provisioned")>> \in Seq(Entries)
    BY EntryForms DEF Errors, States
  <2>2. <<ErrorFrame("UnableToConnect"), Callback("onError"),
          StateFrame("Authorized")>> \in Seq(Entries)
    BY EntryForms DEF Errors, States, Callbacks
  <2>3. CASE ConnectSucceeds
    BY <2>1, <2>3 DEF ConnectSucceeds
  <2>4. CASE ConnectFails
    BY <2>2, <2>4 DEF ConnectFails
  <2>5. CASE SendUrl
    <3> DEFINE r == <<Reply(dev.url # "oversize", urlCmd, UrlBody)>>
               u == IF urlCmd = "WifiSettings" THEN <<Callback("onConnected")>>
                                               ELSE <<>>
    <3>1. r \in Seq(Entries) /\ u \in Seq(Entries)
      <4>1. UrlBody \in Bodies /\ urlCmd \in Commands
        BY DEF IInv, UrlBody, Bodies, TypeOK
      <4>2. Reply(dev.url # "oversize", urlCmd, UrlBody) \in Entries
        BY <4>1, ReplyIsEntry
      <4>3. Callback("onConnected") \in Entries
        BY EntryForms DEF Callbacks
      <4> QED
        BY <4>2, <4>3
    <3>2. log' = (log \o r) \o u
      BY <2>5 DEF SendUrl
    <3> HIDE DEF r, u
    <3>3. log \in Seq(Entries)
      BY DEF IInv, TypeOK
    <3>4. (log \o r) \o u = log \o (r \o u)
      BY <3>1, <3>3, ConcatAssociative
    <3>5. r \o u \in Seq(Entries)
      BY <3>1, ConcatProperties
    <3> QED
      BY <3>2, <3>4, <3>5
  <2> QED
    BY <2>3, <2>4, <2>5 DEF ConnectReturns
<1>2. Window!Extends(log', log)
  BY <1>1, AddingExtends DEF IInv, TypeOK
<1> QED
  BY <1>2
  DEF IInv, HandlerInv, Window!Speak, ConnectReturns, ConnectSucceeds,
      ConnectFails, SendUrl, window, clock

LEMMA NotReached ==
  ASSUME NEW t \in Int, NEW from \in Int, NEW ms \in Int, ~(t - from >= ms)
  PROVE  t - from < ms
OBVIOUS

LEMMA TickImplements == ASSUME IInv, Tick PROVE [Window!Next]_Window!vars
<1>1. CASE TickClosed
  BY <1>1 DEF TickClosed, window, Window!vars
<1>2. ASSUME armed, AnchorClock, now' = now
      PROVE  Window!Anchor /\ (Expired <=> now - anchor' >= WindowMs)
  <2>1. TypeOK /\ ClockInv /\ WindowExact
    BY DEF IInv
  <2>2. Expired <=> now - (IF clockAnchored THEN anchor ELSE now) >= WindowMs
    BY <1>2, <2>1, ExpiryExact
  <2> QED
    BY <1>2, <2>2 DEF AnchorClock, Window!Anchor
<1>3. CASE TickExpires
  BY <1>2, <1>3 DEF TickExpires, Window!TickCloses, Window!Next
<1>4. CASE TickPumps
  <2>1. now \in Nat /\ anchor' \in Nat /\ log \in Seq(Entries)
    BY <1>4 DEF IInv, TypeOK, TickPumps, AnchorClock
  <2>2. Window!Anchor /\ now - anchor' < WindowMs
    <3>1. armed /\ AnchorClock /\ now' = now /\ ~Expired
      BY <1>4 DEF TickPumps
    <3>2. Window!Anchor
      BY <1>2, <3>1
    <3>3. ~(now - anchor' >= WindowMs)
      BY <1>2, <3>1
    <3>4. now \in Int /\ anchor' \in Int /\ WindowMs \in Int
      BY <2>1, WindowAssumption
    <3>5. now - anchor' < WindowMs
      BY <3>3, <3>4, NotReached
    <3> QED
      BY <3>2, <3>5
  <2>3. Window!Extends(log', log)
    <3>1. CASE PumpNothing
      BY <2>1, <3>1, SameExtends DEF PumpNothing
    <3>2. CASE PumpReport
      <4>1. PICK aps \in ApFrames(scanResult) : log' = log \o aps \o <<Terminator>>
        BY <3>2 DEF PumpReport
      <4>2. scanResult \in Int
        BY BoundsAssumption
        DEF IInv, TypeOK, ScanStarts, ScanOutcomes, kScanRunning, kScanFailed
      <4>3. aps \in Seq(Entries) /\ <<Terminator>> \in Seq(Entries)
        BY <4>2, ReportIsEntries, ListsAreEntries
      <4>4. log' = log \o (aps \o <<Terminator>>) /\ aps \o <<Terminator>> \in Seq(Entries)
        BY <2>1, <4>1, <4>3
      <4> QED
        BY <2>1, <4>4, AddingExtends
    <3> QED
      BY <1>4, <3>1, <3>2 DEF TickPumps
  <2> QED
    BY <1>4, <2>2, <2>3 DEF TickPumps, Window!TickWithin, Window!Next
<1> QED
  BY <1>1, <1>3, <1>4 DEF Tick

\* The core implements the window its user was promised: it closes at the first
\* tick that finds WindowMs gone, for good, and is silent from then on, whatever
\* the commands, the scans, the suspended handlers and the counter do
\* (improv_wifi.h:40-84).
THEOREM CoreImplementsWindow == Spec => ImplementsWindow
<1>1. Init => Window!Init
  BY BootAssumption DEF Init, Window!Init
<1>2. IInv /\ [Next]_vars => [Window!Next]_Window!vars
  <2> SUFFICES ASSUME IInv, [Next]_vars PROVE [Window!Next]_Window!vars
    OBVIOUS
  <2>1. CASE Tick
    BY <2>1, TickImplements
  <2>2. CASE FeedFrame
    BY <2>2, FeedFrameSpeaks DEF Window!Next
  <2>3. CASE ConnectReturns \/ SendUrl
    BY <2>3, ResumeSpeaks DEF Window!Next
  <2>4. CASE SetDeviceInfo \/ LinkChanges \/ ScanEnds
    BY <2>4 DEF SetDeviceInfo, LinkChanges, ScanEnds, window, clock, Window!vars
  <2>5. CASE Advance
    BY <2>5 DEF Advance, window, IInv, TypeOK, Window!Next, Window!Pass
  <2>6. CASE UNCHANGED vars
    BY <2>6 DEF vars, window, clock, Window!vars
  <2> QED
    BY <2>1, <2>2, <2>3, <2>4, <2>5, <2>6 DEF Next
<1> QED
  BY <1>1, <1>2, Invariance, PTL DEF Spec, ImplementsWindow, Window!Safety

\* A frame written after WindowMs is late by less than the main loop's longest
\* absence (improv_wifi.cpp:20-48).
THEOREM LateFramesAreBounded == Spec => LateFramesBounded
<1>1. IInv /\ [Next]_vars =>
        [log' # log /\ clockAnchored => now - anchor < WindowMs + MaxGap]_vars
  <2> SUFFICES ASSUME IInv, Next, log' # log, clockAnchored
               PROVE  now - anchor < WindowMs + MaxGap
    OBVIOUS
  <2>1. armed
    BY DEF IInv, HandlerInv, Next, FeedFrame, GetCurrentStateConnected,
           GetCurrentStateNotConnected, WifiSettingsIllegal,
           WifiSettingsNoBackend, WifiSettingsConnect, GetDeviceInfo,
           GetWifiNetworks, GetWifiNetworksNoBackend, Identify, Malformed,
           Unsupported, Receive, Tick, TickClosed, TickExpires, TickPumps,
           ConnectReturns, ConnectSucceeds, ConnectFails, SendUrl,
           SetDeviceInfo, LinkChanges, ScanEnds, Advance
  <2> QED
    BY <2>1, WindowAssumption, GapAssumption
    DEF IInv, TypeOK, ClockInv, WindowExact
<1> QED
  BY <1>1, Invariance, PTL DEF Spec, LateFramesBounded

-----------------------------------------------------------------------------
(* What is added to the log *)

\* log' is log with t behind it, place by place.
LogAdds(t) ==
  /\ Len(t) \in Nat /\ Len(log) \in Nat /\ Len(log') = Len(log) + Len(t)
  /\ \A i \in 1..Len(log) : log'[i] = log[i]
  /\ \A k \in 1..Len(t) : log'[Len(log) + k] = t[k]
  /\ \A i \in 1..Len(log') : i \in 1..Len(log) \/ \E k \in 1..Len(t) : i = Len(log) + k

LEMMA Adding ==
  ASSUME log \in Seq(Entries), NEW t \in Seq(Entries), log' = log \o t
  PROVE  LogAdds(t)
<1>1. /\ Len(t) \in Nat /\ Len(log) \in Nat /\ Len(log') = Len(log) + Len(t)
      /\ \A i \in 1..Len(log) : log'[i] = log[i]
      /\ \A k \in 1..Len(t) : log'[Len(log) + k] = t[k]
  OBVIOUS
<1>2. ASSUME NEW i \in 1..Len(log'), i \notin 1..Len(log)
      PROVE  \E k \in 1..Len(t) : i = Len(log) + k
  <2>1. i - Len(log) \in 1..Len(t) /\ i = Len(log) + (i - Len(log))
    BY <1>1, <1>2
  <2> QED
    BY <2>1
<1> QED
  BY <1>1, <1>2 DEF LogAdds

LEMMA Receiving ==
  ASSUME IInv, NEW c \in Requests, NEW frames \in Seq(Entries), Receive(c, frames)
  PROVE  \E t \in Seq(Entries) :
           /\ LogAdds(t) /\ Len(t) = 1 + Len(frames) /\ t[1] = Rpc(c)
           /\ \A k \in 1..Len(frames) : t[1 + k] = frames[k]
<1>1. Rpc(c) \in Entries /\ log \in Seq(Entries)
  BY EntryForms DEF IInv, TypeOK
<1>2. <<Rpc(c)>> \in Seq(Entries) /\ Len(<<Rpc(c)>>) = 1 /\ <<Rpc(c)>>[1] = Rpc(c)
  BY <1>1
<1>3. PICK t : t = <<Rpc(c)>> \o frames
  OBVIOUS
<1>4. /\ t \in Seq(Entries) /\ Len(t) = 1 + Len(frames)
      /\ \A k \in 1..(1 + Len(frames)) :
           t[k] = IF k <= 1 THEN <<Rpc(c)>>[k] ELSE frames[k - 1]
  BY <1>2, <1>3, ConcatProperties
<1>5. Len(frames) \in Nat
  BY LenProperties
<1>6. t[1] = Rpc(c)
  BY <1>2, <1>4, <1>5
<1>7. ASSUME NEW k \in 1..Len(frames) PROVE t[1 + k] = frames[k]
  <2>1. 1 + k \in 1..(1 + Len(frames)) /\ ~(1 + k <= 1) /\ (1 + k) - 1 = k
    BY <1>5
  <2>2. t[1 + k] = frames[(1 + k) - 1]
    BY <1>4, <2>1
  <2> QED
    BY <2>1, <2>2
<1>8. log' = log \o t
  BY <1>3 DEF Receive
<1>9. LogAdds(t)
  BY <1>1, <1>4, <1>8, Adding
<1> QED
  BY <1>4, <1>6, <1>7, <1>9

\* Neither a request for networks nor a frame of a list.
Plain(t) == \A k \in 1..Len(t) : t[k] \notin {Rpc("GetWifiNetworks"), ApFrame, Terminator}

\* Frames without a request, and without a word of provisioning.
Closing(t) == \A k \in 1..Len(t) : t[k].kind # "rpc" /\ t[k] # StateFrame("Provisioning")

Kept == armed' = armed /\ hasBackend' = hasBackend

\* The ways in which a step can add to the log.
Silent ==
  /\ log' = log /\ pc' = pc /\ hasBackend' = hasBackend
  /\ (armed' => armed) /\ (scanPhase' = scanPhase \/ ~armed')
Reports ==
  /\ Kept /\ armed /\ pc = "loop" /\ pc' = "loop" /\ scanPhase = "Awaiting" /\ scanPhase' = "Idle"
  /\ \E t \in Seq(Entries) :
       /\ LogAdds(t) /\ Closing(t) /\ Len(t) >= 1 /\ t[Len(t)] = Terminator
       /\ \A k \in 1..(Len(t) - 1) : t[k] = ApFrame
AsksForScan ==
  /\ Kept /\ armed /\ pc = "loop" /\ pc' = "loop" /\ scanPhase' = "Awaiting"
  /\ LogAdds(<<Rpc("GetWifiNetworks")>>)
AsksInVain ==
  /\ Kept /\ armed /\ pc = "loop" /\ pc' = "loop" /\ ~hasBackend /\ scanPhase' = scanPhase
  /\ LogAdds(<<Rpc("GetWifiNetworks"), Terminator>>)
AsksAndIsTold ==
  /\ Kept /\ pc = "loop" /\ scanPhase' = scanPhase
  /\ \E c \in Requests \ {"GetWifiNetworks"}, e \in Entries :
       /\ e \in Answers(c) /\ Plain(<<Rpc(c), e>>)
       /\ \/ /\ e # StateFrame("Provisioning") /\ pc' # "connect"
             /\ LogAdds(<<Rpc(c), e>>)
          \/ /\ ~hasBackend /\ pc' = "loop"
             /\ LogAdds(<<Rpc(c), StateFrame("Provisioning"), e>>)
AsksToConnect ==
  /\ Kept /\ pc = "loop" /\ pc' = "connect" /\ scanPhase' = scanPhase
  /\ LogAdds(<<Rpc("WifiSettings"), StateFrame("Provisioning")>>)
Resumes ==
  /\ Kept /\ pc' # "connect" /\ scanPhase' = scanPhase
  /\ \E t \in Seq(Entries) :
       /\ LogAdds(t) /\ Plain(t) /\ Closing(t)
       /\ pc = "connect" =>
            Len(t) >= 1 /\ t[1].kind = "error" /\ \E k \in 1..Len(t) : t[k].kind = "state"

LogForms ==
  \/ Silent \/ Reports \/ AsksForScan \/ AsksInVain \/ AsksAndIsTold \/ AsksToConnect \/ Resumes

-----------------------------------------------------------------------------
(* Scan accounting *)

\* After the first n entries of s the host is owed a list.
OwedIn(s, n) ==
  \E i \in 1..n : /\ s[i] = Rpc("GetWifiNetworks")
                  /\ \A j \in (i + 1)..n : s[j] # Terminator

AccountInv ==
  /\ armed => (OwedIn(log, Len(log)) <=> scanPhase = "Awaiting")
  /\ \A i \in 1..Len(log) : log[i] \in {ApFrame, Terminator} => OwedIn(log, i - 1)

-----------------------------------------------------------------------------
(* Answers in order *)

AnsweredIn(s, i) ==
  \E j \in (i + 1)..Len(s) : /\ \A k \in (i + 1)..(j - 1) : s[k].kind # "rpc"
                             /\ s[j] \in Answers(s[i].arg)

\* Only a request to connect is without its answer while its handler is in
\* tryConnect(), and it is the latest one.
AnswerInv ==
  /\ \A i \in 1..Len(log) : log[i].kind = "rpc" /\ log[i].arg # "GetWifiNetworks" =>
       AnsweredIn(log, i) \/ (pc = "connect" /\ \A k \in (i + 1)..Len(log) : log[k].kind # "rpc")
  /\ pc # "connect" /\ hasBackend =>
       \A i \in 1..Len(log) : log[i] = StateFrame("Provisioning") =>
         \E j \in (i + 1)..Len(log) : log[j].kind = "state"

-----------------------------------------------------------------------------
(* Every step adds to the log in one of these ways *)

LEMMA AddsAlike ==
  ASSUME NEW t, NEW u, LogAdds(t), Len(u) = Len(t), \A k \in 1..Len(t) : u[k] = t[k]
  PROVE  LogAdds(u)
BY DEF LogAdds

LEMMA ReceiveNone ==
  ASSUME IInv, NEW c \in Requests, Receive(c, <<>>)
  PROVE  LogAdds(<<Rpc(c)>>)
<1>1. <<>> \in Seq(Entries) /\ Len(<<>>) = 0 /\ Len(<<Rpc(c)>>) = 1 /\ <<Rpc(c)>>[1] = Rpc(c)
  OBVIOUS
<1>2. PICK t \in Seq(Entries) : LogAdds(t) /\ Len(t) = 1 + Len(<<>>) /\ t[1] = Rpc(c)
  BY <1>1, Receiving
<1>3. \A k \in 1..Len(t) : <<Rpc(c)>>[k] = t[k]
  BY <1>1, <1>2
<1> QED
  BY <1>1, <1>2, <1>3, AddsAlike

LEMMA ReceiveOne ==
  ASSUME IInv, NEW c \in Requests, NEW e \in Entries, Receive(c, <<e>>)
  PROVE  LogAdds(<<Rpc(c), e>>)
<1>1. /\ <<e>> \in Seq(Entries) /\ Len(<<e>>) = 1 /\ <<e>>[1] = e
      /\ Len(<<Rpc(c), e>>) = 2 /\ <<Rpc(c), e>>[1] = Rpc(c) /\ <<Rpc(c), e>>[2] = e
  OBVIOUS
<1>2. PICK t \in Seq(Entries) :
        /\ LogAdds(t) /\ Len(t) = 1 + Len(<<e>>) /\ t[1] = Rpc(c)
        /\ \A k \in 1..Len(<<e>>) : t[1 + k] = <<e>>[k]
  BY <1>1, Receiving
<1>3. Len(t) = 2 /\ t[1 + 1] = e
  <2>1. 1 \in 1..Len(<<e>>)
    BY <1>1
  <2> QED
    BY <1>1, <1>2, <2>1
<1>4. \A k \in 1..Len(t) : <<Rpc(c), e>>[k] = t[k]
  <2>1. \A k \in 1..2 : k = 1 \/ k = 1 + 1
    OBVIOUS
  <2> QED
    BY <1>1, <1>2, <1>3, <2>1
<1> QED
  BY <1>1, <1>2, <1>3, <1>4, AddsAlike

LEMMA ReceiveTwo ==
  ASSUME IInv, NEW c \in Requests, NEW d \in Entries, NEW e \in Entries, Receive(c, <<d, e>>)
  PROVE  LogAdds(<<Rpc(c), d, e>>)
<1>1. /\ <<d, e>> \in Seq(Entries) /\ Len(<<d, e>>) = 2 /\ <<d, e>>[1] = d /\ <<d, e>>[2] = e
      /\ Len(<<Rpc(c), d, e>>) = 3 /\ <<Rpc(c), d, e>>[1] = Rpc(c)
      /\ <<Rpc(c), d, e>>[2] = d /\ <<Rpc(c), d, e>>[3] = e
  OBVIOUS
<1>2. PICK t \in Seq(Entries) :
        /\ LogAdds(t) /\ Len(t) = 1 + Len(<<d, e>>) /\ t[1] = Rpc(c)
        /\ \A k \in 1..Len(<<d, e>>) : t[1 + k] = <<d, e>>[k]
  BY <1>1, Receiving
<1>3. Len(t) = 3 /\ t[1 + 1] = d /\ t[1 + 2] = e
  <2>1. 1 \in 1..Len(<<d, e>>) /\ 2 \in 1..Len(<<d, e>>)
    BY <1>1
  <2> QED
    BY <1>1, <1>2, <2>1
<1>4. \A k \in 1..Len(t) : <<Rpc(c), d, e>>[k] = t[k]
  <2>1. \A k \in 1..3 : k = 1 \/ k = 1 + 1 \/ k = 1 + 2
    OBVIOUS
  <2> QED
    BY <1>1, <1>2, <1>3, <2>1
<1> QED
  BY <1>1, <1>2, <1>3, <1>4, AddsAlike

\* What tells the entries apart.
LEMMA Fields ==
  /\ \A c : Rpc(c).kind = "rpc" /\ Rpc(c).arg = c
  /\ \A s : StateFrame(s).kind = "state" /\ StateFrame(s).arg = s
  /\ \A e : ErrorFrame(e).kind = "error" /\ ErrorFrame(e).arg = e
  /\ \A c, b : Response(c, b).kind = "response" /\ Response(c, b).arg = c
  /\ \A f : Callback(f).kind = "callback" /\ Callback(f).arg = f
  /\ Terminator.kind = "response" /\ ApFrame.kind = "response"
  /\ Terminator.arg = "GetWifiNetworks" /\ ApFrame.arg = "GetWifiNetworks"
  /\ Terminator # ApFrame
<1>1. Terminator.body = "empty" /\ ApFrame.body = "ap"
  BY DEF Terminator, ApFrame, Response
<1> QED
  BY <1>1 DEF Rpc, StateFrame, ErrorFrame, Response, Callback, Terminator, ApFrame

\* Entries of other kinds are neither requests nor frames of a list.
LEMMA OtherKinds ==
  ASSUME NEW e
  PROVE  /\ e.kind # "rpc" => \A c : e # Rpc(c)
         /\ e.kind # "response" => e # ApFrame /\ e # Terminator
         /\ e.arg # "GetWifiNetworks" => e # Rpc("GetWifiNetworks") /\ e # ApFrame /\ e # Terminator
         /\ e.kind # "state" => e # StateFrame("Provisioning")
         /\ e.arg # "Provisioning" => e # StateFrame("Provisioning")
BY Fields

\* A frame that answers is neither a request for networks nor of a list.
LEMMA AnswerIsPlain ==
  ASSUME NEW c \in Requests \ {"GetWifiNetworks"}, NEW e \in Entries, e \in Answers(c)
  PROVE  Plain(<<Rpc(c), e>>)
<1>1. \A k \in 1..Len(<<Rpc(c), e>>) : k = 1 \/ k = 2
  OBVIOUS
<1>2. /\ <<Rpc(c), e>>[1] = Rpc(c) /\ <<Rpc(c), e>>[2] = e
  OBVIOUS
<1>3. Rpc(c) \notin {Rpc("GetWifiNetworks"), ApFrame, Terminator}
  <2>1. Rpc(c).arg # "GetWifiNetworks"
    BY Fields
  <2> QED
    BY <2>1, OtherKinds
<1>4. e \notin {Rpc("GetWifiNetworks"), ApFrame, Terminator}
  <2>1. e.kind \in {"error", "state"} \/ (e.kind = "response" /\ e.arg = c)
    BY DEF Answers
  <2>2. e.kind # "rpc" /\ (e.kind # "response" \/ e.arg # "GetWifiNetworks")
    BY <2>1
  <2> QED
    BY <2>2, OtherKinds
<1> QED
  BY <1>1, <1>2, <1>3, <1>4 DEF Plain

LEMMA FeedFrameForms == ASSUME IInv, FeedFrame PROVE LogForms
<1>1. ASSUME NEW c, NEW frames, Receive(c, frames) PROVE Kept /\ armed /\ pc = "loop"
  BY <1>1 DEF Receive, Kept, window, config
<1>2. ASSUME NEW c \in Requests \ {"GetWifiNetworks"}, NEW e \in Entries, Receive(c, <<e>>),
             e \in Answers(c), e # StateFrame("Provisioning"), pc' # "connect",
             scanPhase' = scanPhase
      PROVE  AsksAndIsTold
  BY <1>1, <1>2, ReceiveOne, AnswerIsPlain DEF AsksAndIsTold
<1>3. ASSUME NEW e \in Errors
      PROVE  ErrorFrame(e) \in Entries /\ ErrorFrame(e) # StateFrame("Provisioning")
  <2>1. ErrorFrame(e).kind = "error" /\ ErrorFrame(e) \in Entries
    BY Fields, EntryForms
  <2> QED
    BY <2>1, OtherKinds
<1>4. \A e \in Errors, c \in Requests : ErrorFrame(e) \in Answers(c)
  BY <1>3, Fields DEF Answers
<1>5. \A s \in {"Provisioned", "Authorized"} :
        /\ StateFrame(s) \in Entries /\ StateFrame(s) # StateFrame("Provisioning")
        /\ StateFrame(s) \in Answers("GetCurrentState")
  <2> SUFFICES ASSUME NEW s \in {"Provisioned", "Authorized"}
               PROVE  /\ StateFrame(s) \in Entries /\ StateFrame(s) # StateFrame("Provisioning")
                      /\ StateFrame(s) \in Answers("GetCurrentState")
    OBVIOUS
  <2>1. /\ StateFrame(s) \in Entries
        /\ StateFrame(s).kind = "state" /\ StateFrame(s).arg # "Provisioning"
    BY EntryForms, Fields DEF States
  <2> QED
    BY <2>1, OtherKinds DEF Answers
<1>6. LET r == Reply(dev.infoFits, "GetDeviceInfo", "info") IN
        r \in Entries /\ r # StateFrame("Provisioning") /\ r \in Answers("GetDeviceInfo")
  <2>1. Reply(dev.infoFits, "GetDeviceInfo", "info") \in Entries
    BY ReplyIsEntry DEF Commands, Bodies
  <2>2. LET r == Reply(dev.infoFits, "GetDeviceInfo", "info")
        IN  r.kind = "error" \/ (r.kind = "response" /\ r.arg = "GetDeviceInfo")
    BY Fields DEF Reply
  <2> QED
    BY <2>1, <2>2, OtherKinds DEF Answers
<1>7. CASE GetCurrentStateConnected \/ GetCurrentStateNotConnected
  BY <1>1, <1>2, <1>5, <1>7
  DEF GetCurrentStateConnected, GetCurrentStateNotConnected, Requests, Commands, LogForms,
      SuspendAt, Stay, handler
<1>8. CASE WifiSettingsIllegal \/ Identify \/ Malformed \/ Unsupported
  BY <1>1, <1>2, <1>3, <1>4, <1>8
  DEF WifiSettingsIllegal, Identify, Malformed, Unsupported, Requests, Commands, Errors, LogForms,
      Stay, handler
<1>9. CASE WifiSettingsNoBackend
  <2>1. /\ "WifiSettings" \in Requests \ {"GetWifiNetworks"} /\ "Unknown" \in Errors
        /\ StateFrame("Provisioning") \in Entries
    BY EntryForms DEF Requests, Commands, Errors, States
  <2>2. LogAdds(<<Rpc("WifiSettings"), StateFrame("Provisioning"), ErrorFrame("Unknown")>>)
    BY <1>3, <1>9, <2>1, ReceiveTwo DEF WifiSettingsNoBackend
  <2>3. Kept /\ pc = "loop" /\ pc' = "loop" /\ ~hasBackend /\ scanPhase' = scanPhase
    BY <1>1, <1>9 DEF WifiSettingsNoBackend, Stay, handler
  <2>4. /\ ErrorFrame("Unknown") \in Entries /\ ErrorFrame("Unknown") \in Answers("WifiSettings")
        /\ Plain(<<Rpc("WifiSettings"), ErrorFrame("Unknown")>>)
    BY <1>3, <1>4, <2>1, AnswerIsPlain
  <2> QED
    BY <2>1, <2>2, <2>3, <2>4 DEF AsksAndIsTold, LogForms
<1>10. CASE WifiSettingsConnect
  BY <1>1, <1>10, ReceiveOne, EntryForms
  DEF WifiSettingsConnect, SuspendAt, AsksToConnect, LogForms, Requests, Commands, States
<1>11. CASE GetDeviceInfo
  BY <1>1, <1>2, <1>6, <1>11
  DEF GetDeviceInfo, Requests, Commands, LogForms, Stay, handler
<1>12. CASE GetWifiNetworks
  BY <1>1, <1>12, ReceiveNone
  DEF GetWifiNetworks, AsksForScan, LogForms, Requests, Commands, handler
<1>13. CASE GetWifiNetworksNoBackend
  BY <1>1, <1>13, ReceiveOne, ListsAreEntries
  DEF GetWifiNetworksNoBackend, AsksInVain, LogForms, Requests, Commands, Stay, handler
<1> QED
  BY <1>7, <1>8, <1>9, <1>10, <1>11, <1>12, <1>13 DEF FeedFrame

LEMMA PumpForms == ASSUME IInv, TickPumps, PumpReport PROVE Reports
<1>1. PICK aps \in ApFrames(scanResult) : log' = log \o aps \o <<Terminator>>
  BY DEF PumpReport
<1>2. scanResult \in Int /\ log \in Seq(Entries)
  BY BoundsAssumption DEF IInv, TypeOK, ScanStarts, ScanOutcomes, kScanRunning, kScanFailed
<1>3. aps \in Seq(Entries) /\ aps \o <<Terminator>> \in Seq(Entries) /\ Terminator \in Entries
  BY <1>2, ReportIsEntries, ListsAreEntries
<1> DEFINE t == aps \o <<Terminator>>
<1>4. log' = log \o t
  BY <1>1, <1>2, <1>3
<1>5. \A k \in 1..Len(aps) : aps[k] = ApFrame
  BY <1>1, <1>2 DEF ApFrames
<1>6. /\ Len(t) = Len(aps) + 1 /\ Len(aps) \in Nat /\ t[Len(t)] = Terminator
      /\ \A k \in 1..(Len(t) - 1) : t[k] = ApFrame
  BY <1>3, <1>5
<1>7. LogAdds(t)
  BY <1>2, <1>3, <1>4, Adding
<1>8. Closing(t)
  <2>1. \A k \in 1..Len(t) : k \in 1..(Len(t) - 1) \/ k = Len(t)
    BY <1>6
  <2>2. \A e \in {Terminator, ApFrame} : e.kind # "rpc" /\ e # StateFrame("Provisioning")
    BY Fields, OtherKinds
  <2>3. \A k \in 1..Len(t) : t[k] \in {Terminator, ApFrame}
    BY <1>6, <2>1
  <2> HIDE DEF t
  <2> QED
    BY <2>2, <2>3 DEF Closing
<1>9. /\ Kept /\ armed /\ pc = "loop" /\ pc' = "loop" /\ scanPhase = "Awaiting" /\ scanPhase' = "Idle"
  BY DEF TickPumps, PumpReport, Kept, config, handler
<1>10. t \in Seq(Entries) /\ Len(t) >= 1
  BY <1>3, <1>6
<1> HIDE DEF t
<1> QED
  BY <1>6, <1>7, <1>8, <1>9, <1>10 DEF Reports

LEMMA ResumeForms == ASSUME IInv, ConnectReturns \/ SendUrl PROVE Resumes
<1>1. log \in Seq(Entries) /\ urlCmd \in Commands
  BY DEF IInv, TypeOK
<1>2. ASSUME NEW t \in Seq(Entries), log' = log \o t PROVE LogAdds(t)
  BY <1>1, <1>2, Adding
<1>3. CASE ConnectSucceeds
  <2> DEFINE t == <<ErrorFrame("None"), StateFrame("Provisioned")>>
  <2>1. t \in Seq(Entries) /\ log' = log \o t
    BY <1>3, EntryForms DEF ConnectSucceeds, Errors, States
  <2>2. Len(t) = 2 /\ t[1] = ErrorFrame("None") /\ t[2] = StateFrame("Provisioned")
        /\ \A k \in 1..2 : k = 1 \/ k = 2
    OBVIOUS
  <2>3. Kept /\ pc' # "connect" /\ scanPhase' = scanPhase
    BY <1>3 DEF ConnectSucceeds, Kept, window, config
  <2>4. LogAdds(t)
    BY <1>2, <2>1
  <2> HIDE DEF t
  <2>5. Plain(t) /\ Closing(t) /\ t[1].kind = "error" /\ t[2].kind = "state"
    <3>1. \A k \in 1..2 : t[k].kind \in {"error", "state"} /\ t[k].arg # "Provisioning"
      BY <2>2, Fields
    <3>2. \A k \in 1..2 : /\ t[k] \notin {Rpc("GetWifiNetworks"), ApFrame, Terminator}
                          /\ t[k].kind # "rpc" /\ t[k] # StateFrame("Provisioning")
      BY <3>1, OtherKinds
    <3> QED
      BY <2>2, <3>2, Fields DEF Plain, Closing
  <2>6. 1 <= Len(t) /\ 1 \in 1..Len(t) /\ Len(t) \in 1..Len(t) /\ t[Len(t)].kind = "state"
    BY <2>2, <2>5
  <2> QED
    BY <2>1, <2>3, <2>4, <2>5, <2>6 DEF Resumes
<1>4. CASE ConnectFails
  <2> DEFINE t == <<ErrorFrame("UnableToConnect"), Callback("onError"), StateFrame("Authorized")>>
  <2>1. t \in Seq(Entries) /\ log' = log \o t
    BY <1>4, EntryForms DEF ConnectFails, Errors, States, Callbacks
  <2>2. Len(t) = 3 /\ t[1] = ErrorFrame("UnableToConnect") /\ t[2] = Callback("onError")
        /\ t[3] = StateFrame("Authorized") /\ \A k \in 1..3 : k = 1 \/ k = 2 \/ k = 3
    OBVIOUS
  <2>3. Kept /\ pc' # "connect" /\ scanPhase' = scanPhase
    BY <1>4 DEF ConnectFails, Kept, window, config
  <2>4. LogAdds(t)
    BY <1>2, <2>1
  <2> HIDE DEF t
  <2>5. Plain(t) /\ Closing(t) /\ t[1].kind = "error" /\ t[3].kind = "state"
    <3>1. \A k \in 1..3 : t[k].kind \in {"error", "state", "callback"} /\ t[k].arg # "Provisioning"
      BY <2>2, Fields
    <3>2. \A k \in 1..3 : /\ t[k] \notin {Rpc("GetWifiNetworks"), ApFrame, Terminator}
                          /\ t[k].kind # "rpc" /\ t[k] # StateFrame("Provisioning")
      BY <3>1, OtherKinds
    <3> QED
      BY <2>2, <3>2, Fields DEF Plain, Closing
  <2>6. 1 <= Len(t) /\ 1 \in 1..Len(t) /\ Len(t) \in 1..Len(t) /\ t[Len(t)].kind = "state"
    BY <2>2, <2>5
  <2> QED
    BY <2>1, <2>3, <2>4, <2>5, <2>6 DEF Resumes
<1>5. CASE SendUrl
  <2> DEFINE r == Reply(dev.url # "oversize", urlCmd, UrlBody)
             u == IF urlCmd = "WifiSettings" THEN <<Callback("onConnected")>> ELSE <<>>
             t == <<r>> \o u
  <2>1. t \in Seq(Entries) /\ log' = log \o t
    <3>1. UrlBody \in Bodies /\ Callback("onConnected") \in Entries
      BY EntryForms DEF UrlBody, Bodies, Callbacks
    <3>2. <<r>> \in Seq(Entries) /\ u \in Seq(Entries)
      BY <1>1, <3>1, ReplyIsEntry
    <3>3. log' = (log \o <<r>>) \o u
      BY <1>5 DEF SendUrl
    <3> HIDE DEF r, u
    <3> QED
      BY <1>1, <3>2, <3>3
  <2>2. \A k \in 1..Len(t) : t[k] \in {r, Callback("onConnected")}
    <3>1. u \in {<<>>, <<Callback("onConnected")>>}
      OBVIOUS
    <3> HIDE DEF r, u
    <3>2. CASE u = <<>>
      BY <3>2
    <3>3. CASE u = <<Callback("onConnected")>>
      BY <3>3
    <3> QED
      BY <3>1, <3>2, <3>3
  <2>3. \A e \in {r, Callback("onConnected")} :
          /\ e \notin {Rpc("GetWifiNetworks"), ApFrame, Terminator}
          /\ e.kind # "rpc" /\ e # StateFrame("Provisioning")
    <3>1. r = ErrorFrame("Unknown") \/ r = Response(urlCmd, UrlBody)
      BY DEF Reply
    <3>2. UrlBody \in {"url", "url-without-ip"}
      BY DEF UrlBody
    <3>3. Response(urlCmd, UrlBody) \notin {ApFrame, Terminator}
      <4>1. /\ Response(urlCmd, UrlBody).body = UrlBody
            /\ ApFrame.body = "ap" /\ Terminator.body = "empty"
        BY DEF Response, ApFrame, Terminator
      <4> QED
        BY <3>2, <4>1
    <3> HIDE DEF r
    <3>4. \A e \in {r, Callback("onConnected")} :
            e.kind \in {"error", "response", "callback"}
      BY <3>1, Fields
    <3> QED
      BY <3>1, <3>3, <3>4, Fields, OtherKinds
  <2>4. Kept /\ pc = "url" /\ pc' # "connect" /\ scanPhase' = scanPhase
    BY <1>5 DEF SendUrl, Kept, window, config
  <2>5. LogAdds(t)
    BY <1>2, <2>1
  <2> HIDE DEF t, r, u
  <2>6. Plain(t) /\ Closing(t)
    BY <2>2, <2>3 DEF Plain, Closing
  <2> QED
    BY <2>1, <2>4, <2>5, <2>6 DEF Resumes
<1> QED
  BY <1>3, <1>4, <1>5 DEF ConnectReturns

\* The lemma the two invariants of the log rest on.
LEMMA StepForms == ASSUME IInv, [Next]_vars PROVE LogForms
<1>1. CASE UNCHANGED vars
  BY <1>1 DEF vars, LogForms, Silent, window, handler, config
<1>2. CASE SetDeviceInfo \/ LinkChanges \/ ScanEnds \/ Advance
  BY <1>2
  DEF SetDeviceInfo, LinkChanges, ScanEnds, Advance, LogForms, Silent, window, handler, config
<1>3. CASE Tick
  <2>1. CASE TickClosed \/ TickExpires
    BY <2>1 DEF TickClosed, TickExpires, LogForms, Silent, window, handler, config
  <2>2. CASE TickPumps /\ PumpNothing
    BY <2>2 DEF TickPumps, PumpNothing, LogForms, Silent, handler, config
  <2>3. CASE TickPumps /\ PumpReport
    BY <2>3, PumpForms DEF LogForms
  <2> QED
    BY <1>3, <2>1, <2>2, <2>3 DEF Tick, TickPumps
<1> QED
  BY <1>1, <1>2, <1>3, FeedFrameForms, ResumeForms DEF Next, LogForms

-----------------------------------------------------------------------------
(* Whether a list is owed, from one entry to the next *)

LEMMA OwedNext ==
  ASSUME NEW s, NEW n \in Nat
  PROVE  OwedIn(s, n + 1) <=>
           s[n + 1] = Rpc("GetWifiNetworks") \/ (OwedIn(s, n) /\ s[n + 1] # Terminator)
<1>1. ASSUME s[n + 1] = Rpc("GetWifiNetworks") PROVE OwedIn(s, n + 1)
  <2>1. n + 1 \in 1..(n + 1) /\ \A j \in ((n + 1) + 1)..(n + 1) : FALSE
    OBVIOUS
  <2> QED
    BY <1>1, <2>1 DEF OwedIn
<1>2. ASSUME OwedIn(s, n), s[n + 1] # Terminator PROVE OwedIn(s, n + 1)
  <2>1. PICK i \in 1..n : /\ s[i] = Rpc("GetWifiNetworks")
                          /\ \A j \in (i + 1)..n : s[j] # Terminator
    BY <1>2 DEF OwedIn
  <2>2. i \in 1..(n + 1) /\ \A j \in (i + 1)..(n + 1) : j \in (i + 1)..n \/ j = n + 1
    OBVIOUS
  <2> QED
    BY <1>2, <2>1, <2>2 DEF OwedIn
<1>3. ASSUME OwedIn(s, n + 1), s[n + 1] # Rpc("GetWifiNetworks")
      PROVE  OwedIn(s, n) /\ s[n + 1] # Terminator
  <2>1. PICK i \in 1..(n + 1) : /\ s[i] = Rpc("GetWifiNetworks")
                                /\ \A j \in (i + 1)..(n + 1) : s[j] # Terminator
    BY <1>3 DEF OwedIn
  <2>2. i # n + 1
    BY <1>3, <2>1
  <2>3. i \in 1..n /\ n + 1 \in (i + 1)..(n + 1) /\ \A j \in (i + 1)..n : j \in (i + 1)..(n + 1)
    BY <2>2
  <2> QED
    BY <2>1, <2>3 DEF OwedIn
<1> QED
  BY <1>1, <1>2, <1>3

\* Entries that neither ask for a list nor end one change nothing.
LEMMA OwedAcross ==
  ASSUME NEW s, NEW n \in Nat, NEW m \in Nat, n <= m,
         \A k \in (n + 1)..m : s[k] \notin {Rpc("GetWifiNetworks"), Terminator}
  PROVE  OwedIn(s, m) <=> OwedIn(s, n)
<1>1. ASSUME OwedIn(s, n) PROVE OwedIn(s, m)
  <2>1. PICK i \in 1..n : /\ s[i] = Rpc("GetWifiNetworks")
                          /\ \A j \in (i + 1)..n : s[j] # Terminator
    BY <1>1 DEF OwedIn
  <2>2. i \in 1..m /\ \A j \in (i + 1)..m : j \in (i + 1)..n \/ j \in (n + 1)..m
    OBVIOUS
  <2> QED
    BY <2>1, <2>2 DEF OwedIn
<1>2. ASSUME OwedIn(s, m) PROVE OwedIn(s, n)
  <2>1. PICK i \in 1..m : /\ s[i] = Rpc("GetWifiNetworks")
                          /\ \A j \in (i + 1)..m : s[j] # Terminator
    BY <1>2 DEF OwedIn
  <2>2. i \notin (n + 1)..m
    BY <2>1
  <2>3. i \in 1..n /\ \A j \in (i + 1)..n : j \in (i + 1)..m
    BY <2>2
  <2> QED
    BY <2>1, <2>3 DEF OwedIn
<1> QED
  BY <1>1, <1>2

\* What is added to the log does not change what was owed before it.
LEMMA OwedBefore ==
  ASSUME NEW t, LogAdds(t), NEW n \in 0..Len(log)
  PROVE  OwedIn(log', n) <=> OwedIn(log, n)
<1>1. /\ \A i \in 1..n : i \in 1..Len(log)
      /\ \A i \in 1..n : \A j \in (i + 1)..n : j \in 1..Len(log)
  BY DEF LogAdds
<1>2. \A i \in 1..Len(log) : log'[i] = log[i]
  BY DEF LogAdds
<1> QED
  BY <1>1, <1>2 DEF OwedIn

\* Steps that add nothing about networks.
LEMMA PlainAccount ==
  ASSUME IInv, AccountInv, NEW t, LogAdds(t), Plain(t), Kept, scanPhase' = scanPhase
  PROVE  AccountInv'
<1>1. /\ Len(t) \in Nat /\ Len(log) \in Nat /\ Len(log') = Len(log) + Len(t)
  BY DEF LogAdds
<1>2. ASSUME NEW i \in 1..Len(log'), i \notin 1..Len(log)
      PROVE  log'[i] \notin {Rpc("GetWifiNetworks"), ApFrame, Terminator}
  <2>1. PICK k \in 1..Len(t) : i = Len(log) + k
    BY <1>2 DEF LogAdds
  <2>2. log'[i] = t[k]
    BY <2>1 DEF LogAdds
  <2> QED
    BY <2>2 DEF Plain
<1>3. OwedIn(log', Len(log')) <=> OwedIn(log, Len(log))
  <2>1. \A k \in (Len(log) + 1)..Len(log') : k \in 1..Len(log') /\ k \notin 1..Len(log)
    BY <1>1
  <2>2. OwedIn(log', Len(log')) <=> OwedIn(log', Len(log))
    BY <1>1, <1>2, <2>1, OwedAcross
  <2>3. Len(log) \in 0..Len(log)
    BY <1>1
  <2> QED
    BY <2>2, <2>3, OwedBefore
<1>4. ASSUME NEW i \in 1..Len(log'), log'[i] \in {ApFrame, Terminator}
      PROVE  OwedIn(log', i - 1)
  <2>1. i \in 1..Len(log) /\ i - 1 \in 0..Len(log)
    BY <1>1, <1>2, <1>4
  <2>2. log'[i] = log[i]
    BY <2>1 DEF LogAdds
  <2>3. OwedIn(log, i - 1)
    BY <1>4, <2>1, <2>2 DEF AccountInv
  <2> QED
    BY <2>1, <2>3, OwedBefore
<1> QED
  BY <1>3, <1>4 DEF AccountInv, Kept

\* A list: what precedes each of its frames, and the end, is owed as before.
LEMMA ListAccount ==
  ASSUME IInv, AccountInv, Reports
  PROVE  AccountInv'
<1>1. PICK t \in Seq(Entries) :
        /\ LogAdds(t) /\ Len(t) >= 1 /\ t[Len(t)] = Terminator
        /\ \A k \in 1..(Len(t) - 1) : t[k] = ApFrame
  BY DEF Reports
<1>2. /\ Len(t) \in Nat /\ Len(log) \in Nat /\ Len(log') = Len(log) + Len(t)
  BY <1>1 DEF LogAdds
<1>3. OwedIn(log, Len(log))
  BY DEF Reports, AccountInv
<1>4. \A e \in {ApFrame, Terminator} : e # Rpc("GetWifiNetworks")
  BY Fields, OtherKinds
<1>5. ASSUME NEW k \in 1..Len(t) PROVE OwedIn(log', Len(log) + k - 1)
  <2>1. ASSUME NEW j \in (Len(log) + 1)..(Len(log) + k - 1)
        PROVE  log'[j] \notin {Rpc("GetWifiNetworks"), Terminator}
    <3>1. /\ j - Len(log) \in 1..(Len(t) - 1) /\ j - Len(log) \in 1..Len(t)
          /\ Len(log) + (j - Len(log)) = j
      BY <1>2
    <3>2. log'[j] = t[j - Len(log)]
      BY <1>1, <3>1 DEF LogAdds
    <3> QED
      BY <1>1, <1>4, <3>1, <3>2, Fields
  <2>2. Len(log) + k - 1 \in Nat /\ Len(log) <= Len(log) + k - 1 /\ Len(log) \in 0..Len(log)
    BY <1>2
  <2>3. OwedIn(log', Len(log) + k - 1) <=> OwedIn(log', Len(log))
    BY <1>2, <2>1, <2>2, OwedAcross
  <2> QED
    BY <1>1, <1>3, <2>2, <2>3, OwedBefore
<1>6. ~OwedIn(log', Len(log'))
  <2>1. Len(t) \in 1..Len(t) /\ Len(log') - 1 \in Nat /\ (Len(log') - 1) + 1 = Len(log')
    BY <1>1, <1>2
  <2>2. log'[Len(log')] = Terminator
    BY <1>1, <1>2, <2>1 DEF LogAdds
  <2> QED
    BY <1>4, <2>1, <2>2, OwedNext
<1>7. ASSUME NEW i \in 1..Len(log'), log'[i] \in {ApFrame, Terminator}
      PROVE  OwedIn(log', i - 1)
  <2>1. CASE i \in 1..Len(log)
    <3>1. log'[i] = log[i] /\ i - 1 \in 0..Len(log)
      BY <1>1, <1>2, <2>1 DEF LogAdds
    <3>2. OwedIn(log, i - 1)
      BY <1>7, <2>1, <3>1 DEF AccountInv
    <3> QED
      BY <1>1, <3>1, <3>2, OwedBefore
  <2>2. CASE i \notin 1..Len(log)
    <3>1. PICK k \in 1..Len(t) : i = Len(log) + k
      BY <1>1, <2>2 DEF LogAdds
    <3> QED
      BY <1>5, <3>1
  <2> QED
    BY <2>1, <2>2
<1>8. armed' /\ scanPhase' = "Idle"
  BY DEF Reports, Kept
<1> QED
  BY <1>6, <1>7, <1>8 DEF AccountInv

LEMMA AccountNext ==
  ASSUME IInv, AccountInv, LogForms
  PROVE  AccountInv'
<1>1. CASE Silent
  BY <1>1 DEF Silent, AccountInv
<1>2. CASE Reports
  BY <1>2, ListAccount
<1>3. CASE AsksForScan
  <2>1. /\ Len(log) \in Nat /\ Len(log') = Len(log) + 1
        /\ log'[Len(log) + 1] = Rpc("GetWifiNetworks")
        /\ \A i \in 1..Len(log) : log'[i] = log[i]
    <3>1. 1 \in 1..Len(<<Rpc("GetWifiNetworks")>>) /\ Len(<<Rpc("GetWifiNetworks")>>) = 1
          /\ <<Rpc("GetWifiNetworks")>>[1] = Rpc("GetWifiNetworks")
      OBVIOUS
    <3> QED
      BY <1>3, <3>1 DEF AsksForScan, LogAdds
  <2>2. OwedIn(log', Len(log'))
    BY <2>1, OwedNext
  <2>3. ASSUME NEW i \in 1..Len(log'), log'[i] \in {ApFrame, Terminator}
        PROVE  OwedIn(log', i - 1)
    <3>1. log'[i] # Rpc("GetWifiNetworks")
      BY <2>3, Fields, OtherKinds
    <3>2. i \in 1..Len(log) /\ i - 1 \in 0..Len(log)
      BY <2>1, <3>1
    <3>3. OwedIn(log, i - 1)
      BY <2>1, <2>3, <3>2 DEF AccountInv
    <3> QED
      BY <1>3, <3>2, <3>3, OwedBefore DEF AsksForScan
  <2>4. scanPhase' = "Awaiting"
    BY <1>3 DEF AsksForScan
  <2> QED
    BY <2>2, <2>3, <2>4 DEF AccountInv
<1>4. CASE AsksInVain
  <2> DEFINE t == <<Rpc("GetWifiNetworks"), Terminator>>
  <2>1. Len(t) = 2 /\ t[1] = Rpc("GetWifiNetworks") /\ t[2] = Terminator /\ LogAdds(t)
    BY <1>4 DEF AsksInVain
  <2> HIDE DEF t
  <2>2. /\ Len(log) \in Nat /\ Len(log') = Len(log) + 2
        /\ log'[Len(log) + 1] = Rpc("GetWifiNetworks") /\ log'[Len(log) + 2] = Terminator
        /\ \A i \in 1..Len(log) : log'[i] = log[i]
    <3>1. 1 \in 1..Len(t) /\ 2 \in 1..Len(t)
      BY <2>1
    <3> QED
      BY <2>1, <3>1 DEF LogAdds
  <2>3. OwedIn(log', Len(log) + 1)
    BY <2>2, OwedNext
  <2>4. Terminator # Rpc("GetWifiNetworks") /\ ApFrame # Rpc("GetWifiNetworks")
    BY Fields, OtherKinds
  <2>5. ~OwedIn(log', Len(log'))
    <3>1. Len(log) + 1 \in Nat /\ (Len(log) + 1) + 1 = Len(log') /\ Len(log') = Len(log) + 2
      BY <2>2
    <3>2. log'[Len(log')] = Terminator
      BY <2>2
    <3> QED
      BY <2>4, <3>1, <3>2, OwedNext
  <2>6. ASSUME NEW i \in 1..Len(log'), log'[i] \in {ApFrame, Terminator}
        PROVE  OwedIn(log', i - 1)
    <3>1. i # Len(log) + 1
      BY <2>2, <2>4, <2>6
    <3>2. CASE i = Len(log) + 2
      <4>1. i - 1 = Len(log) + 1
        BY <2>2, <3>2
      <4> QED
        BY <2>3, <4>1
    <3>3. CASE i # Len(log) + 2
      <4>1. i \in 1..Len(log) /\ i - 1 \in 0..Len(log)
        BY <2>2, <3>1, <3>3
      <4>2. OwedIn(log, i - 1)
        BY <2>2, <2>6, <4>1 DEF AccountInv
      <4> QED
        BY <2>1, <4>1, <4>2, OwedBefore
    <3> QED
      BY <3>2, <3>3
  <2>7. scanPhase' # "Awaiting"
    BY <1>4 DEF AsksInVain, IInv, HandlerInv
  <2> QED
    BY <2>5, <2>6, <2>7 DEF AccountInv
<1>5. CASE AsksAndIsTold
  <2>1. PICK c \in Requests \ {"GetWifiNetworks"}, e \in Entries :
          /\ Plain(<<Rpc(c), e>>)
          /\ \/ LogAdds(<<Rpc(c), e>>)
             \/ LogAdds(<<Rpc(c), StateFrame("Provisioning"), e>>)
    BY <1>5 DEF AsksAndIsTold
  <2>2. Plain(<<Rpc(c), StateFrame("Provisioning"), e>>)
    <3>1. StateFrame("Provisioning") \notin {Rpc("GetWifiNetworks"), ApFrame, Terminator}
      BY Fields, OtherKinds
    <3>2. \A k \in 1..2 : <<Rpc(c), e>>[k] \notin {Rpc("GetWifiNetworks"), ApFrame, Terminator}
      BY <2>1 DEF Plain
    <3>3. /\ <<Rpc(c), e>>[1] = Rpc(c) /\ <<Rpc(c), e>>[2] = e
          /\ <<Rpc(c), StateFrame("Provisioning"), e>>[1] = Rpc(c)
          /\ <<Rpc(c), StateFrame("Provisioning"), e>>[2] = StateFrame("Provisioning")
          /\ <<Rpc(c), StateFrame("Provisioning"), e>>[3] = e
          /\ Len(<<Rpc(c), StateFrame("Provisioning"), e>>) = 3
          /\ 1 \in 1..2 /\ 2 \in 1..2 /\ \A k \in 1..3 : k = 1 \/ k = 2 \/ k = 3
      OBVIOUS
    <3> QED
      BY <3>1, <3>2, <3>3 DEF Plain
  <2>3. Kept /\ scanPhase' = scanPhase
    BY <1>5 DEF AsksAndIsTold
  <2> QED
    BY <2>1, <2>2, <2>3, PlainAccount
<1>6. CASE AsksToConnect
  <2>1. Plain(<<Rpc("WifiSettings"), StateFrame("Provisioning")>>)
    <3>1. \A e \in {Rpc("WifiSettings"), StateFrame("Provisioning")} :
            e.arg # "GetWifiNetworks"
      BY Fields
    <3>2. \A k \in 1..2 : <<Rpc("WifiSettings"), StateFrame("Provisioning")>>[k]
                            \in {Rpc("WifiSettings"), StateFrame("Provisioning")}
      OBVIOUS
    <3> QED
      BY <3>1, <3>2, OtherKinds DEF Plain
  <2> QED
    BY <1>6, <2>1, PlainAccount DEF AsksToConnect
<1>7. CASE Resumes
  BY <1>7, PlainAccount DEF Resumes
<1> QED
  BY <1>1, <1>2, <1>3, <1>4, <1>5, <1>6, <1>7 DEF LogForms

\* The log as ScanAccounting reads it.
LEMMA AccountMeans ==
  ASSUME IInv, AccountInv
  PROVE  ScanAccounting
<1>1. log \in Seq(Entries) /\ Len(log) \in Nat /\ DOMAIN log = 1..Len(log)
  BY LenProperties DEF IInv, TypeOK
<1>2. Unanswered(log) <=> OwedIn(log, Len(log))
  BY <1>1 DEF Unanswered, OwedIn
<1>3. ASSUME NEW i \in 1..Len(log), OwedIn(log, i - 1)
      PROVE  Unanswered(SubSeq(log, 1, i - 1))
  <2> DEFINE before == SubSeq(log, 1, i - 1)
  <2>1. /\ before \in Seq(Entries) /\ Len(before) = i - 1
        /\ \A j \in 1..(i - 1) : before[j] = log[j]
    BY <1>1
  <2> HIDE DEF before
  <2>2. DOMAIN before = 1..(i - 1)
    BY <2>1, LenProperties
  <2>3. PICK n \in 1..(i - 1) : /\ log[n] = Rpc("GetWifiNetworks")
                                /\ \A j \in (n + 1)..(i - 1) : log[j] # Terminator
    BY <1>3 DEF OwedIn
  <2>4. \A j \in (n + 1)..(i - 1) : j \in 1..(i - 1)
    OBVIOUS
  <2>5. Unanswered(before)
    BY <2>1, <2>2, <2>3, <2>4 DEF Unanswered
  <2> QED
    BY <2>5 DEF before
<1> QED
  BY <1>1, <1>2, <1>3 DEF ScanAccounting, OwedIsAwaited, NoOrphanNetworks, AccountInv

\* The host is owed a list exactly while the open window's scan is awaited, and
\* list frames go only to a host that is owed one (improv_wifi.cpp:234-296).
THEOREM ScansAreAccountedFor == Spec => []ScanAccounting
<1>1. Init => AccountInv
  BY DEF Init, AccountInv, OwedIn
<1>2. IInv /\ AccountInv /\ [Next]_vars => AccountInv'
  BY StepForms, AccountNext
<1>3. IInv /\ AccountInv => ScanAccounting
  BY AccountMeans
<1> QED
  BY <1>1, <1>2, <1>3, Invariance, PTL DEF Spec

-----------------------------------------------------------------------------
(* Answers, from one step to the next *)

\* An answer stays an answer.
LEMMA AnswerStays ==
  ASSUME NEW t, LogAdds(t), NEW i \in 1..Len(log), AnsweredIn(log, i)
  PROVE  AnsweredIn(log', i)
<1>1. PICK j \in (i + 1)..Len(log) : /\ \A k \in (i + 1)..(j - 1) : log[k].kind # "rpc"
                                     /\ log[j] \in Answers(log[i].arg)
  BY DEF AnsweredIn
<1>2. Len(log) \in Nat /\ Len(t) \in Nat /\ Len(log') = Len(log) + Len(t)
  BY DEF LogAdds
<1>3. /\ j \in (i + 1)..Len(log') /\ j \in 1..Len(log)
      /\ \A k \in (i + 1)..(j - 1) : k \in 1..Len(log)
  BY <1>2
<1>4. log'[i] = log[i] /\ log'[j] = log[j] /\ \A k \in (i + 1)..(j - 1) : log'[k] = log[k]
  BY <1>3 DEF LogAdds
<1> QED
  BY <1>1, <1>3, <1>4 DEF AnsweredIn

\* What the old entries of the log need, and what the new ones.
AnswerOld ==
  \A i \in 1..Len(log) :
    /\ log[i].kind = "rpc" /\ log[i].arg # "GetWifiNetworks" => AnsweredIn(log', i)
    /\ pc' # "connect" /\ hasBackend' /\ log[i] = StateFrame("Provisioning") =>
         \E j \in (i + 1)..Len(log') : log'[j].kind = "state"
AnswerNew ==
  \A i \in 1..Len(log') : i \notin 1..Len(log) =>
    /\ log'[i].kind = "rpc" /\ log'[i].arg # "GetWifiNetworks" =>
         \/ AnsweredIn(log', i)
         \/ pc' = "connect" /\ \A k \in (i + 1)..Len(log') : log'[k].kind # "rpc"
    /\ pc' # "connect" /\ hasBackend' => log'[i] # StateFrame("Provisioning")

LEMMA AnswerParts ==
  ASSUME NEW t, LogAdds(t), AnswerOld, AnswerNew
  PROVE  AnswerInv'
<1>1. \A i \in 1..Len(log) : log'[i] = log[i]
  BY DEF LogAdds
<1>2. ASSUME NEW i \in 1..Len(log'), log'[i].kind = "rpc", log'[i].arg # "GetWifiNetworks"
      PROVE  \/ AnsweredIn(log', i)
             \/ pc' = "connect" /\ \A k \in (i + 1)..Len(log') : log'[k].kind # "rpc"
  BY <1>1, <1>2 DEF AnswerOld, AnswerNew
<1>3. ASSUME pc' # "connect", hasBackend', NEW i \in 1..Len(log'),
             log'[i] = StateFrame("Provisioning")
      PROVE  \E j \in (i + 1)..Len(log') : log'[j].kind = "state"
  BY <1>1, <1>3 DEF AnswerOld, AnswerNew
<1> QED
  BY <1>2, <1>3 DEF AnswerInv

\* Outside tryConnect() nothing is left to answer, whatever is added.
LEMMA OldIsAnswered ==
  ASSUME AnswerInv, NEW t, LogAdds(t), pc # "connect", Kept
  PROVE  AnswerOld
<1>1. Len(log) \in Nat /\ Len(t) \in Nat /\ Len(log') = Len(log) + Len(t)
  BY DEF LogAdds
<1> SUFFICES ASSUME NEW i \in 1..Len(log)
             PROVE  /\ log[i].kind = "rpc" /\ log[i].arg # "GetWifiNetworks" => AnsweredIn(log', i)
                    /\ hasBackend' /\ log[i] = StateFrame("Provisioning") =>
                         \E j \in (i + 1)..Len(log') : log'[j].kind = "state"
  BY DEF AnswerOld
<1>2. ASSUME log[i].kind = "rpc", log[i].arg # "GetWifiNetworks" PROVE AnsweredIn(log', i)
  <2>1. AnsweredIn(log, i)
    BY <1>2 DEF AnswerInv
  <2> QED
    BY <2>1, AnswerStays
<1>3. ASSUME hasBackend', log[i] = StateFrame("Provisioning")
      PROVE  \E j \in (i + 1)..Len(log') : log'[j].kind = "state"
  <2>1. PICK j \in (i + 1)..Len(log) : log[j].kind = "state"
    BY <1>3 DEF AnswerInv, Kept
  <2>2. j \in (i + 1)..Len(log') /\ j \in 1..Len(log)
    BY <1>1
  <2>3. log'[j] = log[j]
    BY <2>2 DEF LogAdds
  <2> QED
    BY <2>1, <2>2, <2>3
<1> QED
  BY <1>2, <1>3

\* An entry that answers at once.
LEMMA AnsweredByLast ==
  ASSUME NEW n \in Nat, NEW m \in Nat, n < m, Len(log') = m,
         \A k \in (n + 1)..(m - 1) : log'[k].kind # "rpc",
         log'[m] \in Answers(log'[n].arg)
  PROVE  AnsweredIn(log', n)
<1>1. m \in (n + 1)..Len(log')
  OBVIOUS
<1> QED
  BY <1>1 DEF AnsweredIn

LEMMA ClosingNew ==
  ASSUME NEW t, LogAdds(t), Closing(t)
  PROVE  AnswerNew
<1>1. ASSUME NEW i \in 1..Len(log'), i \notin 1..Len(log)
      PROVE  log'[i].kind # "rpc" /\ log'[i] # StateFrame("Provisioning")
  <2>1. PICK k \in 1..Len(t) : i = Len(log) + k
    BY <1>1 DEF LogAdds
  <2> QED
    BY <2>1 DEF LogAdds, Closing
<1> QED
  BY <1>1 DEF AnswerNew

LEMMA AnswerNext ==
  ASSUME IInv, AnswerInv, LogForms
  PROVE  AnswerInv'
<1>1. CASE Silent
  BY <1>1 DEF Silent, AnswerInv
<1>2. CASE Reports
  <2>1. PICK t : LogAdds(t) /\ Closing(t)
    BY <1>2 DEF Reports
  <2>2. pc # "connect" /\ Kept
    BY <1>2 DEF Reports
  <2> QED
    BY <2>1, <2>2, OldIsAnswered, ClosingNew, AnswerParts
<1>3. CASE AsksForScan
  <2> DEFINE t == <<Rpc("GetWifiNetworks")>>
  <2>1. LogAdds(t) /\ pc # "connect" /\ Kept
    BY <1>3 DEF AsksForScan
  <2>2. AnswerNew
    <3>1. Len(t) = 1 /\ t[1] = Rpc("GetWifiNetworks")
      OBVIOUS
    <3> HIDE DEF t
    <3>2. ASSUME NEW i \in 1..Len(log'), i \notin 1..Len(log)
          PROVE  log'[i] = Rpc("GetWifiNetworks")
      <4>1. PICK k \in 1..Len(t) : i = Len(log) + k
        BY <2>1, <3>2 DEF LogAdds
      <4>2. k = 1
        BY <3>1
      <4> QED
        BY <2>1, <3>1, <4>1, <4>2 DEF LogAdds
    <3> QED
      BY <3>2, Fields, OtherKinds DEF AnswerNew
  <2> QED
    BY <2>1, <2>2, OldIsAnswered, AnswerParts
<1>4. CASE AsksInVain
  <2> DEFINE t == <<Rpc("GetWifiNetworks"), Terminator>>
  <2>1. LogAdds(t) /\ pc # "connect" /\ Kept
    BY <1>4 DEF AsksInVain
  <2>2. AnswerNew
    <3>1. Len(t) = 2 /\ t[1] = Rpc("GetWifiNetworks") /\ t[2] = Terminator
          /\ \A k \in 1..2 : k = 1 \/ k = 2
      OBVIOUS
    <3> HIDE DEF t
    <3>2. ASSUME NEW i \in 1..Len(log'), i \notin 1..Len(log)
          PROVE  log'[i] \in {Rpc("GetWifiNetworks"), Terminator}
      <4>1. PICK k \in 1..Len(t) : i = Len(log) + k
        BY <2>1, <3>2 DEF LogAdds
      <4> QED
        BY <2>1, <3>1, <4>1 DEF LogAdds
    <3> QED
      BY <3>2, Fields, OtherKinds DEF AnswerNew
  <2> QED
    BY <2>1, <2>2, OldIsAnswered, AnswerParts
<1>5. CASE AsksAndIsTold
  <2>1. PICK c \in Requests \ {"GetWifiNetworks"}, e \in Entries :
          /\ e \in Answers(c)
          /\ \/ /\ e # StateFrame("Provisioning") /\ pc' # "connect"
                /\ LogAdds(<<Rpc(c), e>>)
             \/ /\ ~hasBackend /\ pc' = "loop"
                /\ LogAdds(<<Rpc(c), StateFrame("Provisioning"), e>>)
    BY <1>5 DEF AsksAndIsTold
  <2>2. pc # "connect" /\ Kept
    BY <1>5 DEF AsksAndIsTold
  <2>3. Rpc(c).arg = c /\ Rpc(c) # StateFrame("Provisioning") /\ e.kind # "rpc"
        /\ StateFrame("Provisioning").kind # "rpc"
    <3>1. e.kind \in {"error", "state", "response"}
      BY <2>1 DEF Answers
    <3> QED
      BY <3>1, Fields, OtherKinds
  <2>4. ASSUME e # StateFrame("Provisioning"), LogAdds(<<Rpc(c), e>>)
        PROVE  AnswerInv'
    <3> DEFINE t == <<Rpc(c), e>>
    <3>1. Len(t) = 2 /\ t[1] = Rpc(c) /\ t[2] = e /\ LogAdds(t)
      BY <2>4
    <3> HIDE DEF t
    <3>2. Len(log) \in Nat /\ Len(log') = Len(log) + 2
          /\ log'[Len(log) + 1] = Rpc(c) /\ log'[Len(log) + 2] = e
      <4>1. 1 \in 1..Len(t) /\ 2 \in 1..Len(t)
        BY <3>1
      <4> QED
        BY <3>1, <4>1 DEF LogAdds
    <3>3. AnsweredIn(log', Len(log) + 1)
      <4>1. /\ Len(log) + 1 \in Nat /\ Len(log) + 2 \in Nat /\ Len(log) + 1 < Len(log) + 2
            /\ \A k \in ((Len(log) + 1) + 1)..((Len(log) + 2) - 1) : FALSE
        BY <3>2
      <4>2. log'[Len(log) + 2] \in Answers(log'[Len(log) + 1].arg)
        BY <2>1, <2>3, <3>2
      <4> QED
        BY <3>2, <4>1, <4>2, AnsweredByLast
    <3>4. ASSUME NEW i \in 1..Len(log'), i \notin 1..Len(log)
          PROVE  i = Len(log) + 1 \/ i = Len(log) + 2
      BY <3>2, <3>4
    <3>5. AnswerNew
      BY <2>3, <2>4, <3>2, <3>3, <3>4 DEF AnswerNew
    <3> QED
      BY <2>2, <3>1, <3>5, OldIsAnswered, AnswerParts
  <2>5. ASSUME ~hasBackend, LogAdds(<<Rpc(c), StateFrame("Provisioning"), e>>)
        PROVE  AnswerInv'
    <3> DEFINE t == <<Rpc(c), StateFrame("Provisioning"), e>>
    <3>1. Len(t) = 3 /\ t[1] = Rpc(c) /\ t[2] = StateFrame("Provisioning") /\ t[3] = e /\ LogAdds(t)
      BY <2>5
    <3> HIDE DEF t
    <3>2. Len(log) \in Nat /\ Len(log') = Len(log) + 3 /\ log'[Len(log) + 1] = Rpc(c)
          /\ log'[Len(log) + 2] = StateFrame("Provisioning") /\ log'[Len(log) + 3] = e
      <4>1. 1 \in 1..Len(t) /\ 2 \in 1..Len(t) /\ 3 \in 1..Len(t)
        BY <3>1
      <4> QED
        BY <3>1, <4>1 DEF LogAdds
    <3>3. AnsweredIn(log', Len(log) + 1)
      <4>1. /\ Len(log) + 1 \in Nat /\ Len(log) + 3 \in Nat /\ Len(log) + 1 < Len(log) + 3
            /\ \A k \in ((Len(log) + 1) + 1)..((Len(log) + 3) - 1) : k = Len(log) + 2
        BY <3>2
      <4>2. log'[Len(log) + 3] \in Answers(log'[Len(log) + 1].arg)
        BY <2>1, <2>3, <3>2
      <4>3. \A k \in ((Len(log) + 1) + 1)..((Len(log) + 3) - 1) : log'[k].kind # "rpc"
        BY <2>3, <3>2, <4>1
      <4> QED
        BY <3>2, <4>1, <4>2, <4>3, AnsweredByLast
    <3>4. ASSUME NEW i \in 1..Len(log'), i \notin 1..Len(log)
          PROVE  i = Len(log) + 1 \/ i = Len(log) + 2 \/ i = Len(log) + 3
      BY <3>2, <3>4
    <3>5. ~hasBackend'
      BY <2>2, <2>5 DEF Kept
    <3>6. AnswerNew
      BY <2>3, <3>2, <3>3, <3>4, <3>5 DEF AnswerNew
    <3> QED
      BY <2>2, <3>1, <3>6, OldIsAnswered, AnswerParts
  <2> QED
    BY <2>1, <2>4, <2>5
<1>6. CASE AsksToConnect
  <2> DEFINE t == <<Rpc("WifiSettings"), StateFrame("Provisioning")>>
  <2>1. Len(t) = 2 /\ t[1] = Rpc("WifiSettings") /\ t[2] = StateFrame("Provisioning") /\ LogAdds(t)
    BY <1>6 DEF AsksToConnect
  <2> HIDE DEF t
  <2>2. pc # "connect" /\ pc' = "connect" /\ Kept
    BY <1>6 DEF AsksToConnect
  <2>3. Len(log) \in Nat /\ Len(log') = Len(log) + 2
        /\ log'[Len(log) + 1] = Rpc("WifiSettings")
        /\ log'[Len(log) + 2] = StateFrame("Provisioning")
    <3>1. 1 \in 1..Len(t) /\ 2 \in 1..Len(t)
      BY <2>1
    <3> QED
      BY <2>1, <3>1 DEF LogAdds
  <2>4. StateFrame("Provisioning").kind # "rpc"
    BY Fields
  <2>5. ASSUME NEW i \in 1..Len(log'), i \notin 1..Len(log)
        PROVE  \/ log'[i].kind # "rpc"
               \/ \A k \in (i + 1)..Len(log') : log'[k].kind # "rpc"
    <3>1. i = Len(log) + 1 \/ i = Len(log) + 2
      BY <2>3, <2>5
    <3>2. i = Len(log) + 1 => \A k \in (i + 1)..Len(log') : k = Len(log) + 2
      BY <2>3
    <3> QED
      BY <2>3, <2>4, <3>1, <3>2
  <2>6. AnswerNew
    BY <2>2, <2>5 DEF AnswerNew
  <2> QED
    BY <2>1, <2>2, <2>6, OldIsAnswered, AnswerParts
<1>7. CASE Resumes
  <2>1. PICK t \in Seq(Entries) :
          /\ LogAdds(t) /\ Closing(t)
          /\ pc = "connect" =>
               Len(t) >= 1 /\ t[1].kind = "error" /\ \E k \in 1..Len(t) : t[k].kind = "state"
    BY <1>7 DEF Resumes
  <2>2. pc' # "connect" /\ Kept
    BY <1>7 DEF Resumes
  <2>3. AnswerNew
    BY <2>1, ClosingNew
  <2>4. CASE pc # "connect"
    BY <2>1, <2>2, <2>3, <2>4, OldIsAnswered, AnswerParts
  <2>5. CASE pc = "connect"
    <3>1. Len(log) \in Nat /\ Len(t) \in Nat /\ Len(log') = Len(log) + Len(t) /\ Len(t) >= 1
      BY <2>1, <2>5 DEF LogAdds
    <3>2. log'[Len(log) + 1].kind = "error" /\ log'[Len(log) + 1] \in Entries
      <4>1. 1 \in 1..Len(t)
        BY <3>1
      <4>2. log'[Len(log) + 1] = t[1] /\ t[1] \in Entries
        BY <2>1, <4>1 DEF LogAdds
      <4> QED
        BY <2>1, <2>5, <4>2
    <3>3. ASSUME NEW i \in 1..Len(log), log[i].kind = "rpc", log[i].arg # "GetWifiNetworks"
          PROVE  AnsweredIn(log', i)
      <4>1. AnsweredIn(log, i) \/ \A k \in (i + 1)..Len(log) : log[k].kind # "rpc"
        BY <3>3 DEF AnswerInv
      <4>2. ASSUME \A k \in (i + 1)..Len(log) : log[k].kind # "rpc" PROVE AnsweredIn(log', i)
        <5>1. Len(log) + 1 \in (i + 1)..Len(log')
          BY <3>1
        <5>2. \A k \in (i + 1)..((Len(log) + 1) - 1) : k \in (i + 1)..Len(log) /\ k \in 1..Len(log)
          BY <3>1
        <5>3. \A k \in (i + 1)..((Len(log) + 1) - 1) : log'[k].kind # "rpc"
          BY <2>1, <4>2, <5>2 DEF LogAdds
        <5>4. log'[Len(log) + 1] \in Answers(log'[i].arg)
          BY <3>2 DEF Answers
        <5> QED
          BY <5>1, <5>3, <5>4 DEF AnsweredIn
      <4> QED
        BY <2>1, <4>1, <4>2, AnswerStays
    <3>4. PICK k \in 1..Len(t) : t[k].kind = "state"
      BY <2>1, <2>5
    <3>5. log'[Len(log) + k].kind = "state"
      BY <2>1, <3>4 DEF LogAdds
    <3>6. \A i \in 1..Len(log) : Len(log) + k \in (i + 1)..Len(log')
      BY <3>1
    <3>7. AnswerOld
      BY <3>3, <3>5, <3>6 DEF AnswerOld
    <3> QED
      BY <2>1, <2>3, <3>7, AnswerParts
  <2> QED
    BY <2>4, <2>5
<1> QED
  BY <1>1, <1>2, <1>3, <1>4, <1>5, <1>6, <1>7 DEF LogForms

\* The log as AnsweredInOrder reads it.
LEMMA AnswerMeans ==
  ASSUME IInv, AnswerInv
  PROVE  AnsweredInOrder
<1>1. log \in Seq(Entries) /\ Len(log) \in Nat /\ DOMAIN log = 1..Len(log)
  BY LenProperties DEF IInv, TypeOK
<1>2. ASSUME NEW i \in 1..Len(log), AnsweredIn(log, i) PROVE IsAnswered(i)
  <2>1. PICK j \in (i + 1)..Len(log) : /\ \A k \in (i + 1)..(j - 1) : log[k].kind # "rpc"
                                       /\ log[j] \in Answers(log[i].arg)
    BY <1>2 DEF AnsweredIn
  <2>2. j \in (i + 1)..(Len(log) + 1) /\ ~(j > Len(log))
    BY <1>1
  <2> QED
    BY <2>1, <2>2 DEF IsAnswered
<1>3. ASSUME NEW i \in 1..Len(log), pc = "connect",
             \A k \in (i + 1)..Len(log) : log[k].kind # "rpc"
      PROVE  IsAnswered(i)
  <2>1. /\ Len(log) + 1 \in (i + 1)..(Len(log) + 1) /\ Len(log) + 1 > Len(log)
        /\ (Len(log) + 1) - 1 = Len(log)
    BY <1>1
  <2> QED
    BY <1>3, <2>1 DEF IsAnswered
<1> QED
  BY <1>1, <1>2, <1>3 DEF AnsweredInOrder, AnswerInv

\* Between two requests the first has been answered, and no handler leaves the
\* host at "provisioning" (improv_wifi.cpp:145-232).
THEOREM RequestsAreAnsweredInOrder == Spec => []AnsweredInOrder
<1>1. Init => AnswerInv
  BY DEF Init, AnswerInv
<1>2. IInv /\ AnswerInv /\ [Next]_vars => AnswerInv'
  BY StepForms, AnswerNext
<1>3. IInv /\ AnswerInv => AnsweredInOrder
  BY AnswerMeans
<1> QED
  BY <1>1, <1>2, <1>3, Invariance, PTL DEF Spec

-----------------------------------------------------------------------------
(* What a fold computes.  Induction is over a set: the library's theorems take *)
(* an operator, which the provers cannot instantiate.                          *)

\* Every non-empty set of naturals has a least element.
LEMMA LeastNat ==
  ASSUME NEW T \in SUBSET Nat, T # {}
  PROVE  \E m \in T : \A k \in T : m <= k
<1>1. IsWellFoundedOn(OpToRel(<, Nat), Nat)
  BY NatLessThanWellFounded
<1>2. PICK m \in T : \A k \in T : ~ (<<k, m>> \in OpToRel(<, Nat))
  <2>. HIDE DEF OpToRel
  <2> QED BY <1>1, WFMin
<1>3. \A k \in T : k \in Nat /\ (k < m => <<k, m>> \in OpToRel(<, Nat))
  BY DEF OpToRel
<1>4. m \in Nat /\ \A k \in T : k \in Nat /\ ~ (k < m)
  BY <1>2, <1>3
<1>5. \A k \in T : m <= k
  BY <1>4
<1> QED BY <1>5

\* What holds at 0, and at every place behind one where it holds, holds up to n.
LEMMA Induction ==
  ASSUME NEW n \in Nat, NEW S, 0 \in S, \A k \in 1..n : k - 1 \in S => k \in S
  PROVE  \A k \in 0..n : k \in S
<1> DEFINE T == {k \in 0..n : k \notin S}
<1> SUFFICES ASSUME T # {} PROVE FALSE
  OBVIOUS
<1>1. T \in SUBSET Nat
  OBVIOUS
<1>2. PICK m \in T : \A k \in T : m <= k
  <2> HIDE DEF T
  <2> QED BY <1>1, LeastNat
<1>3. m \in 1..n /\ m \notin S
  OBVIOUS
<1>4. m - 1 \in 0..n /\ ~(m <= m - 1)
  BY <1>3
<1>5. m - 1 \in S
  BY <1>2, <1>4
<1> QED BY <1>3, <1>5

LEMMA MaxInSet ==
  ASSUME NEW n \in Nat, NEW s \in SUBSET (1..n), s # {}
  PROVE  Max(s) \in s /\ \A y \in s : y <= Max(s)
<1> DEFINE Bounds == {m \in Nat : \A y \in s : y <= m}
<1>1. PICK m \in Bounds : \A k \in Bounds : m <= k
  <2>1. n \in Bounds
    OBVIOUS
  <2>2. Bounds \in SUBSET Nat
    OBVIOUS
  <2> HIDE DEF Bounds
  <2> QED BY <2>1, <2>2, LeastNat
<1>2. m \in s
  <2> SUFFICES ASSUME m \notin s PROVE FALSE
    OBVIOUS
  <2>1. PICK z \in s : TRUE
    OBVIOUS
  <2>2. m \in Nat /\ m > 0 /\ \A y \in s : y \in Nat /\ y <= m /\ y # m
    BY <2>1
  <2>3. m - 1 \in Bounds
    BY <2>2
  <2>4. m <= m - 1
    BY <1>1, <2>3
  <2> QED BY <2>2, <2>4
<1>3. \E x \in s : \A y \in s : x >= y
  BY <1>2
<1>4. Max(s) \in s /\ \A y \in s : Max(s) >= y
  BY <1>3 DEF Max
<1> QED BY <1>4

LEMMA LessMax ==
  ASSUME NEW n \in Nat, NEW k \in 1..n, NEW s \in SUBSET (1..k), s # {}
  PROVE  Max(s) \in 1..k /\ s \ {Max(s)} \in SUBSET (1..(k - 1))
<1>1. PICK x \in s : x = Max(s) /\ \A y \in s : y <= x
  BY MaxInSet, k \in Nat
<1>2. \A y \in s \ {x} : y \in 1..(k - 1)
  BY <1>1, k \in Nat
<1> QED BY <1>1, <1>2

\* One round of a loop over 1..n, as a function.
Steps(F, n, B) == F \in [B \X (1..n) -> B]

\* MapThenFoldSet recurs over the sets of places.
Recurs(g, n, base, F) ==
  \A s \in SUBSET (1..n) : g[s] = IF s = {} THEN base ELSE F[<<g[s \ {Max(s)}], Max(s)>>]

LEMMA FoldExists ==
  ASSUME NEW n \in Nat, NEW B, NEW base \in B, NEW F \in [B \X (1..n) -> B]
  PROVE  \E g \in [SUBSET (1..n) -> B] : Recurs(g, n, base, F)
<1> DEFINE S == {k \in 0..n : \E g \in [SUBSET (1..k) -> B] : Recurs(g, k, base, F)}
<1>1. 0 \in S
  <2> DEFINE g == [s \in SUBSET (1..0) |-> base]
  <2>1. \A s \in SUBSET (1..0) : s = {}
    OBVIOUS
  <2>2. g \in [SUBSET (1..0) -> B] /\ Recurs(g, 0, base, F)
    BY <2>1 DEF Recurs
  <2> HIDE DEF g
  <2>3. \E f \in [SUBSET (1..0) -> B] : Recurs(f, 0, base, F)
    BY <2>2
  <2>4. 0 \in 0..n
    OBVIOUS
  <2> QED BY <2>3, <2>4
<1>2. ASSUME NEW k \in 1..n, k - 1 \in S PROVE k \in S
  <2>1. PICK g \in [SUBSET (1..(k - 1)) -> B] : Recurs(g, k - 1, base, F)
    BY <1>2
  <2> DEFINE Value(s) == IF s = {} THEN base ELSE F[<<g[s \ {Max(s)}], Max(s)>>]
             h == [s \in SUBSET (1..k) |-> Value(s)]
  <2>2. ASSUME NEW s \in SUBSET (1..k)
        PROVE  Value(s) \in B /\ Value(s) = IF s = {} THEN base ELSE F[<<h[s \ {Max(s)}], Max(s)>>]
    <3>1. CASE s = {}
      BY <3>1
    <3>2. CASE s # {}
      <4> DEFINE t == s \ {Max(s)}
      <4>1. Max(s) \in 1..k /\ t \in SUBSET (1..(k - 1))
        BY <3>2, LessMax
      <4>2. t \in SUBSET (1..k) /\ Max(s) \in 1..n
        BY <4>1
      <4>3. h[t] = Value(t)
        BY <4>2
      <4>4. Value(t) = g[t]
        BY <2>1, <4>1 DEF Recurs
      <4>5. g[t] \in B
        BY <4>1
      <4>6. F[<<g[t], Max(s)>>] \in B
        BY <4>2, <4>5
      <4>7. Value(s) = F[<<g[t], Max(s)>>]
        BY <3>2
      <4> HIDE DEF t, h, Value
      <4>8. F[<<h[t], Max(s)>>] = F[<<g[t], Max(s)>>]
        BY <4>3, <4>4
      <4> QED BY <3>2, <4>6, <4>7, <4>8 DEF t
    <3> QED BY <3>1, <3>2
  <2>3. h \in [SUBSET (1..k) -> B]
    <3> HIDE DEF Value
    <3> QED BY <2>2
  <2>4. Recurs(h, k, base, F)
    <3>1. ASSUME NEW s \in SUBSET (1..k)
          PROVE  h[s] = IF s = {} THEN base ELSE F[<<h[s \ {Max(s)}], Max(s)>>]
      <4>1. h[s] = Value(s)
        OBVIOUS
      <4> HIDE DEF h, Value
      <4> QED BY <4>1, <2>2
    <3> HIDE DEF h
    <3> QED BY <3>1 DEF Recurs
  <2> HIDE DEF h
  <2> QED BY <2>3, <2>4
<1> HIDE DEF S
<1>3. n \in S
  BY <1>1, <1>2, Induction
<1> QED BY <1>3 DEF S

\* The sets it passes through on its way are those of the first places.
LEMMA Initial ==
  ASSUME NEW n \in Nat, NEW k \in 1..n
  PROVE  /\ 1..k \in SUBSET (1..n) /\ 1..k # {} /\ Max(1..k) = k
         /\ (1..k) \ {k} = 1..(k - 1) /\ 1..(k - 1) \in SUBSET (1..n)
<1>1. k \in Nat /\ k >= 1 /\ k <= n
  OBVIOUS
<1>2. k \in 1..k
  BY <1>1
<1>3. Max(1..k) = k
  <2>1. Max(1..k) \in 1..k /\ \A y \in 1..k : y <= Max(1..k)
    BY <1>1, <1>2, MaxInSet
  <2> QED BY <2>1, <1>2
<1>4. \A y : y \in (1..k) \ {k} <=> y \in 1..(k - 1)
  BY <1>1
<1>5. \A y \in 1..k : y \in 1..n
  BY <1>1
<1> QED BY <1>2, <1>3, <1>4, <1>5

LEMMA None == 1..0 = {} /\ \A n \in Nat : 1..0 \in SUBSET (1..n)
OBVIOUS

\* As far as its values are known to be in B.
RecursIn(g, n, B, base, F) ==
  /\ g[{}] = base
  /\ \A s \in SUBSET (1..n) : s # {} /\ g[s \ {Max(s)}] \in B =>
       g[s] = F[<<g[s \ {Max(s)}], Max(s)>>]

Loops(v, n, base, F) == v[0] = base /\ \A k \in 1..n : v[k] = F[<<v[k - 1], k>>]

\* Whatever else it is, a function that recurs so on the values in B passes
\* through the values of a loop over 1..n.
LEMMA FoldIsLoop ==
  ASSUME NEW n \in Nat, NEW B, NEW base \in B, NEW F, NEW g, Steps(F, n, B),
         RecursIn(g, n, B, base, F)
  PROVE  \E v : v \in [0..n -> B] /\ Loops(v, n, base, F) /\ v[n] = g[1..n]
<1> USE DEF Steps
<1> DEFINE v == [k \in 0..n |-> g[1..k]]
           S == {k \in 0..n : v[k] \in B}
<1>1. v[0] = base /\ 0 \in 0..n
  BY None DEF RecursIn
<1>2. ASSUME NEW k \in 1..n, v[k - 1] \in B PROVE v[k] \in B /\ v[k] = F[<<v[k - 1], k>>]
  <2>1. v[k - 1] = g[1..(k - 1)] /\ v[k] = g[1..k]
    OBVIOUS
  <2>2. g[1..k] = F[<<g[1..(k - 1)], k>>]
    <3>1. PICK s \in SUBSET (1..n) : s = 1..k
      BY Initial
    <3>2. s # {} /\ Max(s) = k /\ s \ {Max(s)} = 1..(k - 1)
      BY <3>1, Initial
    <3>3. g[s \ {Max(s)}] \in B
      BY <1>2, <2>1, <3>2
    <3> QED BY <3>1, <3>2, <3>3 DEF RecursIn
  <2> HIDE DEF v
  <2>3. v[k] = F[<<v[k - 1], k>>]
    BY <2>1, <2>2
  <2> QED BY <1>2, <2>3
<1>3. \A k \in 0..n : k \in S
  <2>1. 0 \in S
    BY <1>1
  <2>2. ASSUME NEW k \in 1..n, k - 1 \in S PROVE k \in S
    <3> HIDE DEF v
    <3>1. v[k - 1] \in B
      BY <2>2
    <3>2. k \in 0..n
      OBVIOUS
    <3> QED BY <1>2, <3>1, <3>2
  <2> HIDE DEF S
  <2> QED BY <2>1, <2>2, Induction
<1>4. \A k \in 0..n : v[k] \in B
  BY <1>3
<1>5. v \in [0..n -> B] /\ v[n] = g[1..n]
  BY <1>4
<1>6. ASSUME NEW k \in 1..n PROVE v[k] = F[<<v[k - 1], k>>]
  <2>1. k - 1 \in 0..n
    OBVIOUS
  <2> HIDE DEF v
  <2> QED BY <1>2, <1>4, <2>1
<1> HIDE DEF v
<1> QED BY <1>1, <1>5, <1>6 DEF Loops

-----------------------------------------------------------------------------
(* The order of the records *)

\* The places of a list, and the orders its records may be in.
Places(n) == [j \in 1..n |-> j]
Orders(n) == [1..n -> 1..n]

\* A step of the inner loop of the sort, and a round of the fold it is written as.
PassStep(aps, i, o, j) == IF j > i THEN Step(aps, o, i, j) ELSE o
PassRound(aps, i, n, o, s, g) ==
  IF s = {} THEN o ELSE PassStep(aps, i, g[s \ {Max(s)}], Places(n)[Max(s)])

LEMMA PassStepType ==
  ASSUME NEW n \in Nat, NEW aps, NEW o \in Orders(n), NEW i \in 1..n, NEW j \in 1..n
  PROVE  PassStep(aps, i, o, j) \in Orders(n)
BY DEF PassStep, Step, Swap, Orders

PassLoops(aps, n, o, i, v) ==
  /\ v \in [0..n -> Orders(n)] /\ v[0] = o /\ v[n] = Pass(aps, o, i)
  /\ \A k \in 1..n : v[k] = PassStep(aps, i, v[k - 1], k)

LEMMA PassIsLoop ==
  ASSUME NEW n \in Nat, NEW aps, Len(aps) = n, NEW o \in Orders(n), NEW i \in 1..n
  PROVE  \E v : PassLoops(aps, n, o, i, v)
<1> DEFINE B == Orders(n)
           g == CHOOSE f : f = [s \in SUBSET (DOMAIN Places(n)) |-> PassRound(aps, i, n, o, s, f)]
           F == [p \in B \X (1..n) |-> PassStep(aps, i, p[1], p[2])]
<1>1. Pass(aps, o, i) = FoldLeft(LAMBDA b, j : PassStep(aps, i, b, j), o, Places(n))
  BY DEF Pass, PassStep, Places
<1>2. FoldLeft(LAMBDA b, j : PassStep(aps, i, b, j), o, Places(n)) = g[DOMAIN Places(n)]
  BY DEF FoldLeft, MapThenFoldSet, PassRound
<1>3. DOMAIN Places(n) = 1..n /\ \A k \in 1..n : Places(n)[k] = k
  BY DEF Places
<1>4. Steps(F, n, B)
  BY PassStepType DEF Steps
<1>5. \A b \in B, k \in 1..n : F[<<b, k>>] = PassStep(aps, i, b, k)
  OBVIOUS
<1> HIDE DEF F
<1>6. PICK h \in [SUBSET (1..n) -> B] : Recurs(h, n, o, F)
  BY <1>4, FoldExists DEF Steps
<1>7. ASSUME NEW f, NEW s \in SUBSET (1..n), s # {}, f[s \ {Max(s)}] \in B
      PROVE  PassRound(aps, i, n, o, s, f) = F[<<f[s \ {Max(s)}], Max(s)>>]
  <2>1. PICK m \in 1..n : m = Max(s)
    BY <1>7, MaxInSet
  <2>2. PICK b \in B : b = f[s \ {Max(s)}]
    BY <1>7
  <2> HIDE DEF B
  <2>3. F[<<b, m>>] = PassStep(aps, i, b, m) /\ Places(n)[m] = m
    BY <1>3, <1>5
  <2> QED BY <1>7, <2>1, <2>2, <2>3 DEF PassRound
<1>8. h = [s \in SUBSET (1..n) |-> PassRound(aps, i, n, o, s, h)]
  <2>1. ASSUME NEW s \in SUBSET (1..n) PROVE h[s] = PassRound(aps, i, n, o, s, h)
    <3>1. s # {} => s \ {Max(s)} \in SUBSET (1..n)
      OBVIOUS
    <3> HIDE DEF B
    <3> QED BY <1>6, <1>7, <3>1 DEF Recurs, PassRound
  <2> QED BY <2>1
<1>9. g = [s \in SUBSET (1..n) |-> PassRound(aps, i, n, o, s, g)]
  <2>1. g = CHOOSE f : f = [s \in SUBSET (1..n) |-> PassRound(aps, i, n, o, s, f)]
    BY <1>3
  <2> QED BY <1>8, <2>1
<1>10. g[1..n] = Pass(aps, o, i)
  BY <1>1, <1>2, <1>3
<1> HIDE DEF g
<1>11. g[{}] = o
  BY <1>9 DEF PassRound
<1>12. RecursIn(g, n, B, o, F)
  <2> HIDE DEF B
  <2> QED BY <1>7, <1>9, <1>11 DEF RecursIn
<1>13. PICK v \in [0..n -> B] : Loops(v, n, o, F) /\ v[n] = g[1..n]
  <2> HIDE DEF B
  <2>1. o \in B
    BY DEF B
  <2> QED BY <1>4, <1>12, <2>1, FoldIsLoop
<1>14. \A k \in 1..n : v[k] = PassStep(aps, i, v[k - 1], k)
  <2> TAKE k \in 1..n
  <2>1. v[k - 1] \in B
    <3>1. k - 1 \in 0..n
      OBVIOUS
    <3> QED BY <3>1
  <2> HIDE DEF B
  <2> QED BY <1>5, <1>13, <2>1 DEF Loops
<1> QED BY <1>10, <1>13, <1>14 DEF Loops, PassLoops

LEMMA PassType ==
  ASSUME NEW n \in Nat, NEW aps, Len(aps) = n, NEW o \in Orders(n), NEW i \in 1..n
  PROVE  Pass(aps, o, i) \in Orders(n)
<1>1. n \in 0..n
  OBVIOUS
<1> QED BY <1>1, PassIsLoop DEF PassLoops

LEMMA PlacesType == ASSUME NEW n \in Nat PROVE Places(n) \in Orders(n)
BY DEF Places, Orders

OrderRound(aps, n, s, g) ==
  IF s = {} THEN Places(n) ELSE Pass(aps, g[s \ {Max(s)}], Places(n)[Max(s)])

LEMMA OrderIsLoop ==
  ASSUME NEW n \in Nat, NEW aps, Len(aps) = n
  PROVE  \E v \in [0..n -> Orders(n)] :
            /\ v[0] = Places(n) /\ v[n] = Order(aps)
            /\ \A k \in 1..n : v[k] = Pass(aps, v[k - 1], k)
<1> DEFINE B == Orders(n)
           g == CHOOSE f : f = [s \in SUBSET (DOMAIN Places(n)) |-> OrderRound(aps, n, s, f)]
           F == [p \in B \X (1..n) |-> Pass(aps, p[1], p[2])]
<1>1. Order(aps) = FoldLeft(LAMBDA b, j : Pass(aps, b, j), Places(n), Places(n))
  BY DEF Order, Places
<1>2. FoldLeft(LAMBDA b, j : Pass(aps, b, j), Places(n), Places(n)) = g[DOMAIN Places(n)]
  BY DEF FoldLeft, MapThenFoldSet, OrderRound
<1>3. DOMAIN Places(n) = 1..n /\ \A k \in 1..n : Places(n)[k] = k
  BY DEF Places
<1>4. Steps(F, n, B)
  BY PassType DEF Steps
<1>5. \A b \in B, k \in 1..n : F[<<b, k>>] = Pass(aps, b, k)
  OBVIOUS
<1> HIDE DEF F
<1>6. PICK h \in [SUBSET (1..n) -> B] : Recurs(h, n, Places(n), F)
  BY <1>4, PlacesType, FoldExists DEF Steps
<1>7. ASSUME NEW f, NEW s \in SUBSET (1..n), s # {}, f[s \ {Max(s)}] \in B
      PROVE  OrderRound(aps, n, s, f) = F[<<f[s \ {Max(s)}], Max(s)>>]
  <2>1. PICK m \in 1..n : m = Max(s)
    BY <1>7, MaxInSet
  <2>2. PICK b \in B : b = f[s \ {Max(s)}]
    BY <1>7
  <2> HIDE DEF B
  <2>3. F[<<b, m>>] = Pass(aps, b, m) /\ Places(n)[m] = m
    BY <1>3, <1>5
  <2> QED BY <1>7, <2>1, <2>2, <2>3 DEF OrderRound
<1>8. h = [s \in SUBSET (1..n) |-> OrderRound(aps, n, s, h)]
  <2>1. ASSUME NEW s \in SUBSET (1..n) PROVE h[s] = OrderRound(aps, n, s, h)
    <3>1. s # {} => s \ {Max(s)} \in SUBSET (1..n)
      OBVIOUS
    <3> HIDE DEF B
    <3> QED BY <1>6, <1>7, <3>1 DEF Recurs, OrderRound
  <2> QED BY <2>1
<1>9. g = [s \in SUBSET (1..n) |-> OrderRound(aps, n, s, g)]
  <2>1. g = CHOOSE f : f = [s \in SUBSET (1..n) |-> OrderRound(aps, n, s, f)]
    BY <1>3
  <2> QED BY <1>8, <2>1
<1>10. g[1..n] = Order(aps)
  BY <1>1, <1>2, <1>3
<1> HIDE DEF g
<1>11. g[{}] = Places(n)
  BY <1>9 DEF OrderRound
<1>12. RecursIn(g, n, B, Places(n), F)
  <2> HIDE DEF B
  <2> QED BY <1>7, <1>9, <1>11 DEF RecursIn
<1>13. PICK v \in [0..n -> B] : Loops(v, n, Places(n), F) /\ v[n] = g[1..n]
  <2> HIDE DEF B
  <2>1. Places(n) \in B
    BY PlacesType DEF B
  <2> QED BY <1>4, <1>12, <2>1, FoldIsLoop
<1>14. \A k \in 1..n : v[k] = Pass(aps, v[k - 1], k)
  <2> TAKE k \in 1..n
  <2>1. v[k - 1] \in B
    <3>1. k - 1 \in 0..n
      OBVIOUS
    <3> QED BY <3>1
  <2> HIDE DEF B
  <2> QED BY <1>5, <1>13, <2>1 DEF Loops
<1> QED BY <1>10, <1>13, <1>14 DEF Loops

\* The record in place k is shown.
Shown(aps, o, k) ==
  /\ aps[o[k]].ssid # Hidden
  /\ \A e \in 1..(k - 1) : aps[o[e]].ssid # aps[o[k]].ssid
ReportStep(aps, o, r, k) == IF Shown(aps, o, k) THEN Append(r, aps[o[k]]) ELSE r
ReportRound(aps, o, n, s, g) ==
  IF s = {} THEN <<>> ELSE ReportStep(aps, o, g[s \ {Max(s)}], Places(n)[Max(s)])

LEMMA ReportStepType ==
  ASSUME NEW n \in Nat, NEW aps \in [1..n -> Records], NEW o \in Orders(n),
         NEW r \in Seq(Records), NEW k \in 1..n
  PROVE  ReportStep(aps, o, r, k) \in Seq(Records)
<1>1. aps[o[k]] \in Records
  BY DEF Orders
<1> QED BY <1>1, AppendProperties DEF ReportStep

LEMMA ReportedIsLoop ==
  ASSUME NEW n \in Nat, NEW aps \in [1..n -> Records], Len(aps) = n,
         Order(aps) \in Orders(n)
  PROVE  \E v \in [0..n -> Seq(Records)] :
            /\ v[0] = <<>> /\ v[n] = Reported(aps)
            /\ \A k \in 1..n : v[k] = ReportStep(aps, Order(aps), v[k - 1], k)
<1> DEFINE B == Seq(Records)
           g == CHOOSE f : f = [s \in SUBSET (DOMAIN Places(n)) |-> ReportRound(aps, Order(aps), n, s, f)]
           F == [p \in B \X (1..n) |-> ReportStep(aps, Order(aps), p[1], p[2])]
<1>1. Reported(aps) = FoldLeft(LAMBDA b, j : ReportStep(aps, Order(aps), b, j), <<>>, Places(n))
  BY DEF Reported, ReportStep, Shown, Places
<1>2. FoldLeft(LAMBDA b, j : ReportStep(aps, Order(aps), b, j), <<>>, Places(n)) = g[DOMAIN Places(n)]
  BY DEF FoldLeft, MapThenFoldSet, ReportRound
<1>3. DOMAIN Places(n) = 1..n /\ \A k \in 1..n : Places(n)[k] = k
  BY DEF Places
<1>4. Steps(F, n, B)
  BY ReportStepType DEF Steps
<1>5. \A b \in B, k \in 1..n : F[<<b, k>>] = ReportStep(aps, Order(aps), b, k)
  OBVIOUS
<1> HIDE DEF F
<1>6. PICK h \in [SUBSET (1..n) -> B] : Recurs(h, n, <<>>, F)
  BY <1>4, EmptySeq, FoldExists DEF Steps
<1>7. ASSUME NEW f, NEW s \in SUBSET (1..n), s # {}, f[s \ {Max(s)}] \in B
      PROVE  ReportRound(aps, Order(aps), n, s, f) = F[<<f[s \ {Max(s)}], Max(s)>>]
  <2>1. PICK m \in 1..n : m = Max(s)
    BY <1>7, MaxInSet
  <2>2. PICK b \in B : b = f[s \ {Max(s)}]
    BY <1>7
  <2> HIDE DEF B
  <2>3. F[<<b, m>>] = ReportStep(aps, Order(aps), b, m) /\ Places(n)[m] = m
    BY <1>3, <1>5
  <2> QED BY <1>7, <2>1, <2>2, <2>3 DEF ReportRound
<1>8. h = [s \in SUBSET (1..n) |-> ReportRound(aps, Order(aps), n, s, h)]
  <2>1. ASSUME NEW s \in SUBSET (1..n) PROVE h[s] = ReportRound(aps, Order(aps), n, s, h)
    <3>1. s # {} => s \ {Max(s)} \in SUBSET (1..n)
      OBVIOUS
    <3> HIDE DEF B
    <3> QED BY <1>6, <1>7, <3>1 DEF Recurs, ReportRound
  <2> QED BY <2>1
<1>9. g = [s \in SUBSET (1..n) |-> ReportRound(aps, Order(aps), n, s, g)]
  <2>1. g = CHOOSE f : f = [s \in SUBSET (1..n) |-> ReportRound(aps, Order(aps), n, s, f)]
    BY <1>3
  <2> QED BY <1>8, <2>1
<1>10. g[1..n] = Reported(aps)
  BY <1>1, <1>2, <1>3
<1> HIDE DEF g
<1>11. g[{}] = <<>>
  BY <1>9 DEF ReportRound
<1>12. RecursIn(g, n, B, <<>>, F)
  <2> HIDE DEF B
  <2> QED BY <1>7, <1>9, <1>11 DEF RecursIn
<1>13. PICK v \in [0..n -> B] : Loops(v, n, <<>>, F) /\ v[n] = g[1..n]
  <2> HIDE DEF B
  <2>1. <<>> \in B
    BY EmptySeq DEF B
  <2> QED BY <1>4, <1>12, <2>1, FoldIsLoop
<1>14. \A k \in 1..n : v[k] = ReportStep(aps, Order(aps), v[k - 1], k)
  <2> TAKE k \in 1..n
  <2>1. v[k - 1] \in B
    <3>1. k - 1 \in 0..n
      OBVIOUS
    <3> QED BY <3>1
  <2> HIDE DEF B
  <2> QED BY <1>5, <1>13, <2>1 DEF Loops
<1> QED BY <1>10, <1>13, <1>14 DEF Loops

-----------------------------------------------------------------------------
(* What the sort and the removal of duplicates make of the records *)

\* Every record is in one place.
Bijective(o, n) ==
  /\ \A a, b \in 1..n : o[a] = o[b] => a = b
  /\ \A c \in 1..n : \E a \in 1..n : o[a] = c

LEMMA SwapBijective ==
  ASSUME NEW n \in Nat, NEW o \in Orders(n), Bijective(o, n), NEW i \in 1..n, NEW j \in 1..n, i # j
  PROVE  /\ Swap(o, i, j) \in Orders(n) /\ Bijective(Swap(o, i, j), n)
         /\ Swap(o, i, j)[i] = o[j] /\ Swap(o, i, j)[j] = o[i]
         /\ \A a \in 1..n : a # i /\ a # j => Swap(o, i, j)[a] = o[a]
<1> DEFINE q == Swap(o, i, j)
<1>1. /\ q \in Orders(n) /\ q[i] = o[j] /\ q[j] = o[i]
      /\ \A a \in 1..n : a # i /\ a # j => q[a] = o[a]
  BY DEF Swap, Orders
<1> HIDE DEF q
<1>2. \A a, b \in 1..n : q[a] = q[b] => a = b
  BY <1>1 DEF Bijective
<1>3. ASSUME NEW c \in 1..n PROVE \E a \in 1..n : q[a] = c
  <2>1. PICK a \in 1..n : o[a] = c
    BY DEF Bijective
  <2>2. CASE a = i
    BY <2>1, <2>2, <1>1
  <2>3. CASE a = j
    BY <2>1, <2>3, <1>1
  <2>4. CASE a # i /\ a # j
    BY <2>1, <2>4, <1>1
  <2> QED BY <2>2, <2>3, <2>4
<1> QED BY <1>1, <1>2, <1>3 DEF Bijective, q

\* After place k of the inner loop the strongest of the places from i to k is at i,
\* and nothing before i has moved.
Passed(aps, n, o, i, p, k) ==
  /\ p \in Orders(n) /\ Bijective(p, n)
  /\ \A a \in 1..n : a < i => p[a] = o[a]
  /\ \A b \in 1..n : i < b /\ b <= k => aps[p[b]].rssi <= aps[p[i]].rssi

LEMMA StepPasses ==
  ASSUME NEW n \in Nat, NEW aps \in [1..n -> Records], NEW o, NEW i \in 1..n, NEW k \in 1..n,
         NEW p, Passed(aps, n, o, i, p, k - 1)
  PROVE  Passed(aps, n, o, i, PassStep(aps, i, p, k), k)
<1>1. \A c \in 1..n : aps[c].rssi \in Int
  BY RssiAssumption DEF Records
<1>2. \A a \in 1..n : p[a] \in 1..n /\ aps[p[a]].rssi \in Int
  BY <1>1 DEF Passed, Orders
<1>3. CASE ~ (k > i)
  BY <1>3 DEF Passed, PassStep
<1>4. CASE k > i /\ ~ (aps[p[k]].rssi > aps[p[i]].rssi)
  <2>1. PassStep(aps, i, p, k) = p
    BY <1>4 DEF PassStep, Step
  <2>2. aps[p[k]].rssi <= aps[p[i]].rssi
    <3>1. aps[p[k]].rssi \in Int /\ aps[p[i]].rssi \in Int
      BY <1>2
    <3> QED BY <1>4, <3>1
  <2> QED BY <2>1, <2>2 DEF Passed
<1>5. CASE k > i /\ aps[p[k]].rssi > aps[p[i]].rssi
  <2> DEFINE q == Swap(p, i, k)
  <2>1. PassStep(aps, i, p, k) = q
    BY <1>5 DEF PassStep, Step
  <2>2. /\ q \in Orders(n) /\ Bijective(q, n) /\ q[i] = p[k] /\ q[k] = p[i]
        /\ \A a \in 1..n : a # i /\ a # k => q[a] = p[a]
    BY <1>5, SwapBijective DEF Passed
  <2> HIDE DEF q
  <2>3. \A a \in 1..n : a < i => q[a] = o[a]
    BY <1>5, <2>2 DEF Passed
  <2>4. ASSUME NEW b \in 1..n, i < b, b <= k PROVE aps[q[b]].rssi <= aps[q[i]].rssi
    <3>1. CASE b = k
      <4>1. aps[p[k]].rssi \in Int /\ aps[p[i]].rssi \in Int
        BY <1>2
      <4> QED BY <1>5, <2>2, <3>1, <4>1
    <3>2. CASE b # k
      <4>1. aps[p[b]].rssi <= aps[p[i]].rssi
        BY <2>4, <3>2 DEF Passed
      <4>2. q[b] = p[b]
        BY <2>2, <2>4, <3>2
      <4>3. aps[p[b]].rssi \in Int /\ aps[p[i]].rssi \in Int /\ aps[p[k]].rssi \in Int
        BY <1>2
      <4> QED BY <1>5, <2>2, <4>1, <4>2, <4>3
    <3> QED BY <3>1, <3>2
  <2> QED BY <2>1, <2>2, <2>3, <2>4 DEF Passed
<1> QED BY <1>3, <1>4, <1>5

LEMMA PassSorts ==
  ASSUME NEW n \in Nat, NEW aps \in [1..n -> Records], Len(aps) = n,
         NEW o \in Orders(n), Bijective(o, n), NEW i \in 1..n
  PROVE  Passed(aps, n, o, i, Pass(aps, o, i), n)
<1>0. PICK v : PassLoops(aps, n, o, i, v)
  BY PassIsLoop
<1>1. /\ v[0] = o /\ v[n] = Pass(aps, o, i)
      /\ \A k \in 1..n : v[k] = PassStep(aps, i, v[k - 1], k)
  BY <1>0 DEF PassLoops
<1> DEFINE S == {k \in 0..n : Passed(aps, n, o, i, v[k], k)}
<1>2. 0 \in S
  BY <1>1 DEF Passed
<1>3. ASSUME NEW k \in 1..n, k - 1 \in S PROVE k \in S
  <2>1. Passed(aps, n, o, i, v[k - 1], k - 1)
    BY <1>3
  <2>2. Passed(aps, n, o, i, PassStep(aps, i, v[k - 1], k), k)
    BY <2>1, StepPasses
  <2>3. k \in 0..n
    OBVIOUS
  <2> QED BY <1>1, <2>2, <2>3
<1> HIDE DEF S
<1>4. \A k \in 0..n : k \in S
  BY <1>2, <1>3, Induction
<1> QED BY <1>1, <1>4 DEF S

\* After round k of the outer loop the first k places are those of the strongest.
Ordered(aps, n, o, k) ==
  /\ o \in Orders(n) /\ Bijective(o, n)
  /\ \A a, b \in 1..n : a <= k /\ a < b => aps[o[b]].rssi <= aps[o[a]].rssi

LEMMA PassOrders ==
  ASSUME NEW n \in Nat, NEW aps \in [1..n -> Records], Len(aps) = n,
         NEW o, NEW k \in 1..n, Ordered(aps, n, o, k - 1)
  PROVE  Ordered(aps, n, Pass(aps, o, k), k)
<1>1. PICK p : p = Pass(aps, o, k)
  OBVIOUS
<1>2. Passed(aps, n, o, k, p, n) /\ o \in Orders(n) /\ Bijective(o, n)
  BY <1>1, PassSorts DEF Ordered
<1>3. ASSUME NEW a \in 1..n, NEW b \in 1..n, a <= k, a < b
      PROVE  aps[p[b]].rssi <= aps[p[a]].rssi
  <2>1. CASE a = k
    BY <1>2, <1>3, <2>1 DEF Passed
  <2>2. CASE a # k
    <3>1. a < k /\ p[a] = o[a]
      BY <1>2, <1>3, <2>2 DEF Passed
    <3>2. PICK c \in 1..n : o[c] = p[b]
      <4>1. p[b] \in 1..n
        BY <1>2 DEF Passed, Orders
      <4> QED BY <1>2, <4>1 DEF Bijective
    <3>3. a < c
      <4>1. c # a
        BY <1>2, <1>3, <3>1, <3>2 DEF Passed, Bijective
      <4>2. c < a => p[c] = o[c] /\ c = b
        <5> SUFFICES ASSUME c < a PROVE p[c] = o[c] /\ c = b
          OBVIOUS
        <5>1. p[c] = o[c]
          BY <1>2, <3>1 DEF Passed
        <5> QED BY <1>2, <3>2, <5>1 DEF Passed, Bijective
      <4> QED BY <1>3, <4>1, <4>2
    <3>4. aps[o[c]].rssi <= aps[o[a]].rssi
      BY <3>1, <3>3 DEF Ordered
    <3> QED BY <3>1, <3>2, <3>4
  <2> QED BY <2>1, <2>2
<1> QED BY <1>1, <1>2, <1>3 DEF Ordered, Passed

LEMMA OrderSorts ==
  ASSUME NEW n \in Nat, NEW aps \in [1..n -> Records], Len(aps) = n
  PROVE  Ordered(aps, n, Order(aps), n)
<1>1. PICK v \in [0..n -> Orders(n)] :
        /\ v[0] = Places(n) /\ v[n] = Order(aps)
        /\ \A k \in 1..n : v[k] = Pass(aps, v[k - 1], k)
  BY OrderIsLoop
<1> DEFINE S == {k \in 0..n : Ordered(aps, n, v[k], k)}
<1>2. 0 \in S
  <2>1. Bijective(Places(n), n)
    BY DEF Places, Bijective
  <2> QED BY <1>1, <2>1, PlacesType DEF Ordered
<1>3. ASSUME NEW k \in 1..n, k - 1 \in S PROVE k \in S
  <2>1. Ordered(aps, n, v[k - 1], k - 1)
    BY <1>3
  <2>2. Ordered(aps, n, Pass(aps, v[k - 1], k), k)
    BY <2>1, PassOrders
  <2>3. k \in 0..n
    OBVIOUS
  <2> QED BY <1>1, <2>2, <2>3
<1> HIDE DEF S
<1>4. \A k \in 0..n : k \in S
  BY <1>2, <1>3, Induction
<1> QED BY <1>1, <1>4 DEF S

\* After place k the report has what is shown of the first k, in their order.
Lists(aps, n, o, r, k) ==
  /\ r \in Seq(Records) /\ Len(r) <= k
  /\ \A m \in 1..Len(r) : \E e \in 1..n : e <= k /\ Shown(aps, o, e) /\ r[m] = aps[o[e]]
  /\ \A e \in 1..n : e <= k /\ Shown(aps, o, e) => \E m \in 1..Len(r) : r[m] = aps[o[e]]
  /\ \A m, l \in 1..Len(r) : m < l => r[l].ssid # r[m].ssid /\ r[l].rssi <= r[m].rssi

LEMMA StepLists ==
  ASSUME NEW n \in Nat, NEW aps \in [1..n -> Records], NEW o, Ordered(aps, n, o, n),
         NEW k \in 1..n, NEW r, Lists(aps, n, o, r, k - 1)
  PROVE  Lists(aps, n, o, ReportStep(aps, o, r, k), k)
<1>1. r \in Seq(Records) /\ Len(r) \in Nat
  BY LenProperties DEF Lists
<1>2. CASE ~ Shown(aps, o, k)
  <2>1. ReportStep(aps, o, r, k) = r
    BY <1>2 DEF ReportStep
  <2>2. \A e \in 1..n : e <= k /\ Shown(aps, o, e) => e <= k - 1
    BY <1>2
  <2>3. \A e \in 1..n : e <= k - 1 => e <= k
    OBVIOUS
  <2>4. Len(r) <= k
    BY <1>1 DEF Lists
  <2> QED BY <2>1, <2>2, <2>3, <2>4 DEF Lists
<1>3. CASE Shown(aps, o, k)
  <2>1. PICK q : q = ReportStep(aps, o, r, k)
    OBVIOUS
  <2>2. PICK a \in Records : a = aps[o[k]]
    BY DEF Ordered, Orders
  <2>3. q = Append(r, a)
    BY <1>3, <2>1, <2>2 DEF ReportStep
  <2>4. /\ q \in Seq(Records) /\ Len(q) = Len(r) + 1 /\ q[Len(r) + 1] = a
        /\ \A m \in 1..Len(r) : q[m] = r[m]
    BY <1>1, <2>3, AppendProperties
  <2>5. \A m \in 1..Len(q) : m \in 1..Len(r) \/ m = Len(r) + 1
    BY <1>1, <2>4
  <2>6. Len(q) <= k
    BY <1>1, <2>4 DEF Lists
  <2>7. ASSUME NEW m \in 1..Len(q)
        PROVE  \E e \in 1..n : e <= k /\ Shown(aps, o, e) /\ q[m] = aps[o[e]]
    <3>1. CASE m \in 1..Len(r)
      <4>1. PICK e \in 1..n : e <= k - 1 /\ Shown(aps, o, e) /\ r[m] = aps[o[e]]
        BY <3>1 DEF Lists
      <4> QED BY <4>1, <3>1, <2>4
    <3>2. CASE m = Len(r) + 1
      BY <3>2, <2>2, <2>4, <1>3
    <3> QED BY <3>1, <3>2, <2>5
  <2>8. ASSUME NEW e \in 1..n, e <= k, Shown(aps, o, e)
        PROVE  \E m \in 1..Len(q) : q[m] = aps[o[e]]
    <3>1. CASE e = k
      <4>1. Len(r) + 1 \in 1..Len(q)
        BY <1>1, <2>4
      <4> QED BY <3>1, <4>1, <2>2, <2>4
    <3>2. CASE e # k
      <4>1. e <= k - 1
        BY <2>8, <3>2
      <4>2. PICK m \in 1..Len(r) : r[m] = aps[o[e]]
        BY <2>8, <4>1 DEF Lists
      <4>3. m \in 1..Len(q)
        BY <1>1, <2>4
      <4> QED BY <4>2, <4>3, <2>4
    <3> QED BY <3>1, <3>2
  <2>9. ASSUME NEW m \in 1..Len(q), NEW l \in 1..Len(q), m < l
        PROVE  q[l].ssid # q[m].ssid /\ q[l].rssi <= q[m].rssi
    <3>1. m \in 1..Len(r) /\ q[m] = r[m]
      BY <1>1, <2>4, <2>5, <2>9
    <3>2. CASE l \in 1..Len(r)
      <4>1. q[l] = r[l]
        BY <3>2, <2>4
      <4> QED BY <2>9, <3>1, <3>2, <4>1 DEF Lists
    <3>3. CASE l = Len(r) + 1
      <4>1. PICK e \in 1..n : e <= k - 1 /\ r[m] = aps[o[e]]
        BY <3>1 DEF Lists
      <4>2. e \in 1..(k - 1) /\ e < k
        BY <4>1
      <4>3. aps[o[e]].ssid # aps[o[k]].ssid
        BY <1>3, <4>2 DEF Shown
      <4>4. aps[o[k]].rssi <= aps[o[e]].rssi
        BY <4>2 DEF Ordered
      <4> QED BY <2>2, <2>4, <3>1, <3>3, <4>1, <4>3, <4>4
    <3> QED BY <2>5, <3>2, <3>3
  <2> QED BY <2>1, <2>4, <2>6, <2>7, <2>8, <2>9 DEF Lists
<1> QED BY <1>2, <1>3

LEMMA ReportedLists ==
  ASSUME NEW n \in Nat, NEW aps \in [1..n -> Records], Len(aps) = n
  PROVE  Lists(aps, n, Order(aps), Reported(aps), n)
<1>1. Ordered(aps, n, Order(aps), n)
  BY OrderSorts
<1>2. PICK v \in [0..n -> Seq(Records)] :
        /\ v[0] = <<>> /\ v[n] = Reported(aps)
        /\ \A k \in 1..n : v[k] = ReportStep(aps, Order(aps), v[k - 1], k)
  BY <1>1, ReportedIsLoop DEF Ordered
<1> DEFINE S == {k \in 0..n : Lists(aps, n, Order(aps), v[k], k)}
<1>3. 0 \in S
  <2>1. <<>> \in Seq(Records) /\ Len(<<>>) = 0
    BY EmptySeq
  <2>2. Lists(aps, n, Order(aps), <<>>, 0)
    BY <2>1 DEF Lists
  <2>3. 0 \in 0..n
    OBVIOUS
  <2> QED BY <1>2, <2>2, <2>3
<1>4. ASSUME NEW k \in 1..n, k - 1 \in S PROVE k \in S
  <2>1. Lists(aps, n, Order(aps), v[k - 1], k - 1)
    BY <1>4
  <2>2. Lists(aps, n, Order(aps), ReportStep(aps, Order(aps), v[k - 1], k), k)
    BY <1>1, <2>1, StepLists
  <2>3. k \in 0..n
    OBVIOUS
  <2> QED BY <1>2, <2>2, <2>3
<1> HIDE DEF S
<1>5. \A k \in 0..n : k \in S
  BY <1>3, <1>4, Induction
<1> QED BY <1>2, <1>5 DEF S

\* The list of a scan is what it is for, whatever was found and in what order
\* (improv_wifi.cpp:260-292).
LEMMA ReportIsRight ==
  ASSUME NEW n \in Nat, NEW aps \in [1..n -> Records], Len(aps) = n
  PROVE  IsReport(Reported(aps), aps) /\ Len(Reported(aps)) \in 0..n
<1>1. PICK o, r : o = Order(aps) /\ r = Reported(aps)
  OBVIOUS
<1>2. Lists(aps, n, o, r, n) /\ Ordered(aps, n, o, n)
  BY <1>1, ReportedLists, OrderSorts
<1>3. r \in Seq(Records) /\ Len(r) \in 0..n /\ DOMAIN r = 1..Len(r) /\ DOMAIN aps = 1..n
  BY <1>2, LenProperties DEF Lists
<1>4. \A e \in 1..n : o[e] \in 1..n
  BY <1>2 DEF Ordered, Orders
<1>5. ASSUME NEW i \in 1..n PROVE \E f \in 1..n : o[f] = i
  BY <1>2 DEF Ordered, Bijective
\* The first place with a name is shown.
<1>6. ASSUME NEW i \in 1..n, aps[i].ssid # Hidden
      PROVE  \E e \in 1..n : Shown(aps, o, e) /\ aps[o[e]].ssid = aps[i].ssid
  <2> DEFINE T == {e \in 1..n : aps[o[e]].ssid = aps[i].ssid}
  <2>0. PICK d \in 1..n : o[d] = i
    BY <1>5
  <2>1. T \in SUBSET Nat /\ d \in T
    BY <2>0
  <2>2. PICK e \in T : \A f \in T : e <= f
    <3> HIDE DEF T
    <3> QED BY <2>1, LeastNat
  <2>3. \A f \in 1..(e - 1) : f \notin T /\ f \in 1..n
    BY <2>2
  <2>4. Shown(aps, o, e)
    BY <1>6, <2>3 DEF Shown
  <2> QED BY <2>4
<1>7. {r[k].ssid : k \in DOMAIN r} = {aps[i].ssid : i \in DOMAIN aps} \ {Hidden}
  <2>1. ASSUME NEW k \in 1..Len(r) PROVE \E i \in 1..n : aps[i].ssid = r[k].ssid /\ r[k].ssid # Hidden
    <3>1. PICK e \in 1..n : Shown(aps, o, e) /\ r[k] = aps[o[e]]
      BY <1>2 DEF Lists
    <3> QED BY <1>4, <3>1 DEF Shown
  <2>2. ASSUME NEW i \in 1..n, aps[i].ssid # Hidden PROVE \E k \in 1..Len(r) : r[k].ssid = aps[i].ssid
    <3>1. PICK e \in 1..n : Shown(aps, o, e) /\ aps[o[e]].ssid = aps[i].ssid
      BY <1>6, <2>2
    <3>2. PICK k \in 1..Len(r) : r[k] = aps[o[e]]
      BY <1>2, <3>1 DEF Lists
    <3> QED BY <3>1, <3>2
  <2> DEFINE Names == {r[k].ssid : k \in 1..Len(r)}
             Seen  == {aps[i].ssid : i \in 1..n}
  <2>3. \A x \in Names : x \in Seen \ {Hidden}
    BY <2>1
  <2>4. \A x \in Seen \ {Hidden} : x \in Names
    BY <2>2
  <2>5. Names = Seen \ {Hidden}
    <3> HIDE DEF Names, Seen
    <3> QED BY <2>3, <2>4
  <2> QED BY <1>3, <2>5
<1>8. ASSUME NEW k \in 1..Len(r)
      PROVE  /\ \E i \in DOMAIN aps : aps[i] = r[k]
             /\ \A i \in DOMAIN aps : aps[i].ssid = r[k].ssid => aps[i].rssi <= r[k].rssi
  <2>1. PICK e \in 1..n : Shown(aps, o, e) /\ r[k] = aps[o[e]]
    BY <1>2 DEF Lists
  <2>2. ASSUME NEW i \in 1..n, aps[i].ssid = r[k].ssid PROVE aps[i].rssi <= r[k].rssi
    <3>1. PICK f \in 1..n : o[f] = i
      BY <1>5
    <3>2. f \notin 1..(e - 1)
      BY <2>1, <2>2, <3>1 DEF Shown
    <3>3. CASE e < f
      BY <1>2, <2>1, <3>1, <3>3 DEF Ordered
    <3>4. CASE f = e
      <4>1. aps[i].rssi \in Int
        BY RssiAssumption DEF Records
      <4> QED BY <2>1, <3>1, <3>4, <4>1
    <3> QED BY <3>2, <3>3, <3>4
  <2> QED BY <1>3, <1>4, <2>1, <2>2
<1>9. ASSUME NEW k \in 1..Len(r), NEW l \in (k + 1)..Len(r)
      PROVE  r[l].ssid # r[k].ssid /\ r[l].rssi <= r[k].rssi
  <2>1. l \in 1..Len(r) /\ k < l
    BY <1>3
  <2> QED BY <1>2, <2>1 DEF Lists
<1>10. \A k \in DOMAIN r :
         /\ \E i \in DOMAIN aps : aps[i] = r[k]
         /\ \A i \in DOMAIN aps : aps[i].ssid = r[k].ssid => aps[i].rssi <= r[k].rssi
         /\ \A l \in (k + 1)..Len(r) : r[l].ssid # r[k].ssid /\ r[l].rssi <= r[k].rssi
  BY <1>3, <1>8, <1>9
<1>11. IsReport(r, aps)
  BY <1>7, <1>10 DEF IsReport
<1> QED BY <1>1, <1>3, <1>11

\* Whatever the core is doing, the list it would make of a scan is the one that the
\* host is meant to see (improv_wifi.cpp:260-292).
THEOREM ListsAreRight == Spec => []ScanReported
<1>1. ListsAreReports
  <2> SUFFICES ASSUME NEW aps \in Scans
               PROVE  LET r == Reported(aps) IN
                        /\ IsReport(r, aps)
                        /\ [k \in DOMAIN r |-> ApFrame] \in ApFrames(Len(aps))
    BY DEF ListsAreReports
  <2>1. PICK n \in Nat : aps \in [1..n -> Records]
    BY RecordsAssumption DEF Scans
  <2>2. aps \in Seq(Records) /\ Len(aps) = n
    <3>1. aps \in Seq(Records) /\ DOMAIN aps = 1..n
      BY <2>1, SeqDef
    <3> QED BY <3>1, <2>1, LenProperties
  <2>3. PICK r : r = Reported(aps)
    OBVIOUS
  <2>4. IsReport(r, aps) /\ Len(r) \in 0..n /\ r \in Seq(Records)
    BY <2>1, <2>2, <2>3, ReportIsRight, ReportedLists DEF Lists
  <2>5. DOMAIN r = 1..Len(r)
    BY <2>4, LenProperties
  <2>6. [k \in DOMAIN r |-> ApFrame] \in [1..Len(r) -> {ApFrame}]
    BY <2>5
  <2>7. Len(r) \in 0..(IF n > 0 THEN n ELSE 0)
    BY <2>4
  <2> QED BY <2>2, <2>3, <2>4, <2>6, <2>7 DEF ApFrames
<1>2. ScanReported
  BY <1>1 DEF ScanReported
<1> QED BY <1>2, PTL
=============================================================================
