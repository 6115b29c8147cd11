------------------------ MODULE ArduinoBackendProofs ------------------------
(* Proofs about ArduinoBackend, for every width of the counter, every timeout *)
(* and poll interval, and every number of requests.                           *)
EXTENDS ArduinoBackend, WellFoundedInduction, TLAPS

-----------------------------------------------------------------------------
(* The deadline and the wrap of millis() *)

LEMMA ClockModPositive == ClockMod \in Nat \ {0} /\ ClockMod = 2 * HalfRange
BY ClockAssumption DEF ClockMod

\* A reading of the counter is a uint32_t.
LEMMA WrapRange == ASSUME NEW t \in Int PROVE Wrap(t) \in 0..(ClockMod - 1)
BY ClockModPositive DEF Wrap

LEMMA DivMod ==
  ASSUME NEW t \in Int
  PROVE  /\ t \div ClockMod \in Int
         /\ Wrap(t) \in 0..(ClockMod - 1)
         /\ t = ClockMod * (t \div ClockMod) + Wrap(t)
<1> ClockMod \in Nat \ {0}
  BY ClockModPositive
<1> QED
  BY DEF Wrap

\* Quotient and remainder are unique.
LEMMA RemainderUnique ==
  ASSUME NEW x \in Int, NEW q \in Int, NEW r \in 0..(ClockMod - 1),
         x = ClockMod * q + r
  PROVE  Wrap(x) = r
<1> DEFINE d == x \div ClockMod
           s == Wrap(x)
           M == ClockMod
<1>1. x = M * d + s /\ d \in Int /\ s \in 0..(M - 1)
  BY DivMod
<1>2. M \in Nat \ {0} /\ x = M * q + r /\ r \in 0..(M - 1)
  BY ClockModPositive
<1> HIDE DEF d, s, M
<1>3. M * (d - q) = r - s
  BY <1>1, <1>2
<1>4. d - q < 1
  <2>1. SUFFICES ASSUME d - q >= 1 PROVE FALSE
    BY <1>1
  <2>2. M * (d - q) >= M
    BY <2>1, <1>1, <1>2
  <2> QED
    BY <2>2, <1>1, <1>2, <1>3
<1>5. d - q > -1
  <2>1. SUFFICES ASSUME d - q <= -1 PROVE FALSE
    BY <1>1
  <2>2. M * (q - d) >= M
    BY <2>1, <1>1, <1>2
  <2>3. M * (q - d) = s - r
    BY <1>1, <1>2, <1>3
  <2> QED
    BY <2>2, <2>3, <1>1, <1>2
<1>6. d = q
  BY <1>1, <1>4, <1>5
<1>7. s = r
  BY <1>1, <1>2, <1>3, <1>6
<1> QED
  BY <1>7 DEF s

\* A reading d later, as long as the counter has not come round once more.
LEMMA WrapLater ==
  ASSUME NEW b \in Nat, NEW d \in Nat
  PROVE  /\ Wrap(b) + d < ClockMod => Wrap(b + d) = Wrap(b) + d
         /\ Wrap(b) + d \in ClockMod..(2 * ClockMod - 1) => Wrap(b + d) = Wrap(b) + d - ClockMod
<1> DEFINE q == b \div ClockMod
           w == Wrap(b)
<1>1. /\ b \in Int /\ b = ClockMod * q + w /\ q \in Int /\ w \in 0..(ClockMod - 1)
      /\ ClockMod \in Nat \ {0}
  <2>1. b \in Int
    OBVIOUS
  <2> QED
    BY <2>1, DivMod, ClockModPositive
<1> HIDE DEF q, w
<1>3. ASSUME w + d < ClockMod PROVE Wrap(b + d) = w + d
  <2>1. b + d \in Int /\ w + d \in 0..(ClockMod - 1) /\ b + d = ClockMod * q + (w + d)
    BY <1>1, <1>3
  <2> QED
    BY <1>1, <2>1, RemainderUnique, Zenon
<1>4. ASSUME w + d \in ClockMod..(2 * ClockMod - 1) PROVE Wrap(b + d) = w + d - ClockMod
  <2>1. b + d \in Int /\ w + d - ClockMod \in 0..(ClockMod - 1) /\ q + 1 \in Int
    BY <1>1, <1>4
  <2>2. ClockMod * (q + 1) = ClockMod * q + ClockMod
    BY <1>1
  <2>3. b + d = ClockMod * (q + 1) + (w + d - ClockMod)
    BY <1>1, <2>2
  <2> QED
    BY <2>1, <2>3, RemainderUnique, Zenon
<1> QED
  BY <1>3, <1>4 DEF w

\* How long the wait has gone on.
Waited == now - begun

\* The deadline is where the counter will be, and no poll is made when it has
\* wrapped by then.
Timed ==
  pc \in {"waiting", "giveup"} =>
    /\ deadline = Wrap(begun + TimeoutMs)
    /\ DeadlineWraps => Waited = 0
    /\ ~DeadlineJumped => Waited < TimeoutMs + Longest
    /\ pc = "giveup" /\ ~DeadlineWraps => Waited >= TimeoutMs

\* A connect reports nothing before it returns, and a failure is reported after
\* WiFi.disconnect(), which stops the driver's own retries.
Reported ==
  /\ pc # "loop" => outcome = "none"
  /\ outcome = "failed" => link = "down" /\ ~wanted

\* A list, or a scan that will make one, belongs to the core until it is given back.
Owned == scan # "none" => abandoned \/ (scanInFlight /\ awaiting)

IInv ==
  /\ TypeOK
  /\ begun <= now
  /\ Timed /\ Reported /\ Owned

LEMMA InitIInv == Init => IInv
<1> SUFFICES ASSUME Init PROVE IInv
  OBVIOUS
<1>1. /\ <<>> \in Lists /\ 0 \in 0..MaxAps /\ 0 \in 0..(ClockMod - 1)
  <2>1. <<>> \in [1..0 -> ApType] /\ 0 \in 0..MaxAps
    BY BoundsAssumption
  <2> QED
    BY <2>1, ClockModPositive DEF Lists
<1>2. now \in Nat /\ begun = now
  BY BoundsAssumption DEF Init
<1>3. TypeOK
  BY <1>1, <1>2 DEF Init, TypeOK, ConnectOK, WifiOK, ScanOK, CoreOK
<1> QED
  BY <1>2, <1>3 DEF Init, IInv, Timed, Reported, Owned

\* Before the wait and after it Timed says nothing.
LEMMA TimedIdle == ASSUME pc' \notin {"waiting", "giveup"} PROVE Timed'
BY DEF Timed

LEMMA TimedKept ==
  ASSUME IInv, UNCHANGED <<pc, deadline, begun, now>> PROVE Timed' /\ begun' <= now'
BY DEF IInv, Timed, Waited, DeadlineWraps, DeadlineJumped

LEMMA ConnectKept ==
  ASSUME ConnectOK, UNCHANGED <<connect, now>> PROVE ConnectOK'
BY DEF ConnectOK, connect
LEMMA WifiKept == ASSUME WifiOK, UNCHANGED wifi PROVE WifiOK'
BY DEF WifiOK, wifi
LEMMA ScanKept == ASSUME ScanOK, UNCHANGED <<scanner, scanInFlight>> PROVE ScanOK'
BY DEF ScanOK, scanner

LEMMA DriverIInv == IInv /\ Driver => IInv'
<1> SUFFICES ASSUME IInv, Driver PROVE IInv'
  OBVIOUS
<1>0. ConnectOK /\ WifiOK /\ ScanOK /\ CoreOK
  BY DEF IInv, TypeOK
<1>1. UNCHANGED <<connect, core, options, scanInFlight, now, abandoned>>
  BY DEF Driver, LinkLeft, LinkUp, LinkLost, LinkRetries, ScanEnds, scanner
<1>2. Timed' /\ begun' <= now' /\ ConnectOK'
  BY <1>0, <1>1, TimedKept, ConnectKept DEF connect
<1>3. CASE LinkLeft \/ LinkUp \/ LinkLost \/ LinkRetries
  <2>1. UNCHANGED scanner
    BY <1>3 DEF LinkLeft, LinkUp, LinkLost, LinkRetries
  <2>2. WifiOK'
    BY <1>0, <1>3 DEF LinkLeft, LinkUp, LinkLost, LinkRetries, WifiOK
  <2>3. excused' \in BOOLEAN
    BY <1>0, <1>3 DEF LinkLeft, LinkUp, LinkLost, LinkRetries, CoreOK
  <2>4. ScanOK' /\ CoreOK'
    BY <1>0, <1>1, <2>1, <2>3, ScanKept DEF CoreOK, core, options
  <2>5. Reported' /\ Owned'
    BY <1>1, <1>3, <2>1
    DEF LinkLeft, LinkUp, LinkLost, LinkRetries, IInv, Reported, Owned, connect, core, scanner
  <2> QED
    BY <1>2, <2>2, <2>4, <2>5 DEF IInv, TypeOK
<1>4. CASE ScanEnds
  <2>1. scan' \in {"done", "none"} /\ scan = "running" /\ found' \in 0..MaxAps
    BY <1>4, BoundsAssumption DEF ScanEnds
  <2>2. UNCHANGED <<wifi, excused>>
    BY <1>4 DEF ScanEnds
  <2>3. WifiOK' /\ ScanOK' /\ CoreOK'
    BY <1>0, <1>1, <2>1, <2>2, WifiKept DEF ScanOK, CoreOK, core, options
  <2>4. Reported' /\ Owned'
    BY <1>1, <2>1, <2>2 DEF IInv, Reported, Owned, connect, wifi, core
  <2> QED
    BY <1>2, <2>3, <2>4 DEF IInv, TypeOK
<1> QED
  BY <1>3, <1>4 DEF Driver

\* Giving a scan back leaves none, or one that is abandoned.
LEMMA ScanGivenBack ==
  ASSUME ScanOK, Owned, ClearScan
  PROVE  ScanOK' /\ (scan' # "none" => abandoned')
<1>1. 0 \in 0..MaxAps
  BY BoundsAssumption
<1>2. CASE scanInFlight
  BY <1>1, <1>2 DEF ClearScan, ScanDelete, ScanOK
<1>3. CASE ~scanInFlight
  BY <1>3 DEF ClearScan, scanner, ScanOK, Owned
<1> QED
  BY <1>2, <1>3

LEMMA CoreIInv == IInv /\ (GetNetworks \/ Pump \/ CloseWindow) => IInv'
<1> SUFFICES ASSUME IInv, GetNetworks \/ Pump \/ CloseWindow PROVE IInv'
  OBVIOUS
<1>0. ConnectOK /\ WifiOK /\ ScanOK /\ CoreOK /\ Owned
  BY DEF IInv, TypeOK
<1>1. UNCHANGED <<connect, wifi, options, now, excused>>
  BY DEF GetNetworks, Pump, CloseWindow
<1>2. Timed' /\ begun' <= now' /\ Reported' /\ ConnectOK' /\ WifiOK'
  BY <1>0, <1>1, TimedKept, ConnectKept, WifiKept DEF connect, wifi, IInv, Reported
<1>3. CoreOK'
  <2>1. open' \in BOOLEAN /\ awaiting' \in BOOLEAN
    BY <1>0 DEF GetNetworks, Request, Pump, CloseWindow, CoreOK
  <2>2. calls' \in {calls, calls + 1}
    BY DEF GetNetworks, Request, Pump, CloseWindow
  <2> QED
    BY <1>0, <1>1, <2>1, <2>2 DEF CoreOK, options
<1>4. CASE GetNetworks
  <2>1. /\ scan' \in {"none", "running"} /\ found' = 0 /\ 0 \in 0..MaxAps
        /\ abandoned' = FALSE /\ scanInFlight' = TRUE /\ awaiting' = TRUE
    BY <1>4, BoundsAssumption DEF GetNetworks, StartScan
  <2>2. ScanOK' /\ Owned'
    BY <2>1 DEF ScanOK, Owned
  <2> QED
    BY <1>2, <1>3, <2>2 DEF IInv, TypeOK
<1>5. CASE Pump \/ CloseWindow
  <2>1. CASE ClearScan
    BY <1>0, <1>2, <1>3, <2>1, ScanGivenBack DEF IInv, TypeOK, Owned
  <2>2. CASE CloseWindow /\ ~awaiting
    BY <1>0, <1>2, <1>3, <2>2, ScanKept DEF CloseWindow, IInv, TypeOK, Owned, scanner
  <2> QED
    BY <1>5, <2>1, <2>2 DEF Pump, CloseWindow
<1> QED
  BY <1>4, <1>5

-----------------------------------------------------------------------------
(* tryConnect() *)

\* A step of tryConnect() that leaves the scanner and the clock alone.
LEMMA ConnectStep ==
  ASSUME IInv, ConnectOK', WifiOK', CoreOK', Timed', Reported',
         UNCHANGED <<scanner, scanInFlight, awaiting, begun, now>>
  PROVE  IInv'
<1>1. ScanOK' /\ Owned'
  BY ScanKept DEF IInv, TypeOK, Owned, scanner
<1> QED
  BY <1>1 DEF IInv, TypeOK

LEMMA BeforeWaitIInv ==
  IInv /\ (CustomConnect \/ TryConnect \/ Settle) => IInv'
<1> SUFFICES ASSUME IInv, CustomConnect \/ TryConnect \/ Settle PROVE IInv'
  OBVIOUS
<1>0. ConnectOK /\ WifiOK /\ CoreOK /\ Reported
  BY DEF IInv, TypeOK
<1>1. UNCHANGED <<scanner, scanInFlight, now, seen, deadline, begun, open, awaiting, options>>
  BY DEF CustomConnect, TryConnect, Settle, Quiet
<1>2. pc' \in {"loop", "settle", "prescan", "begin"}
  BY DEF CustomConnect, TryConnect, Settle, Request, AfterSettling
<1>3. Timed'
  BY <1>2, TimedIdle
<1>4. calls' \in {calls, calls + 1} /\ outcome' \in {outcome, "none", "custom"}
  BY DEF CustomConnect, TryConnect, Settle, Request
<1>5. excused' \in BOOLEAN
  BY <1>0 DEF CustomConnect, TryConnect, Settle, WifiOK, CoreOK
<1>6. ConnectOK' /\ CoreOK'
  BY <1>0, <1>1, <1>2, <1>4, <1>5 DEF ConnectOK, CoreOK, options
<1>7. WifiOK' /\ Reported'
  <2>1. CASE CustomConnect
    BY <1>0, <2>1 DEF CustomConnect, Request, WifiOK, Reported
  <2>2. CASE TryConnect
    BY <1>0, <2>2 DEF TryConnect, Request, Disconnect, WifiOK, Reported, wifi
  <2>3. CASE Settle
    BY <1>0, <2>3 DEF Settle, WifiOK, Reported, wifi
  <2> QED
    BY <2>1, <2>2, <2>3
<1> QED
  BY <1>1, <1>3, <1>6, <1>7, ConnectStep

LEMMA PreScanIInv == IInv /\ (PreScan \/ PreScanEnds) => IInv'
<1> SUFFICES ASSUME IInv, PreScan \/ PreScanEnds PROVE IInv'
  OBVIOUS
<1>0. ConnectOK /\ WifiOK /\ ScanOK /\ CoreOK /\ Reported /\ Owned
  BY DEF IInv, TypeOK
<1>1. UNCHANGED <<deadline, begun, outcome, wifi, now, calls, excused, open, awaiting, options>>
  BY DEF PreScan, PreScanEnds, Quiet
<1>2. pc' \in {"begin", "scanning"} /\ pc # "loop"
  BY DEF PreScan, PreScanEnds
<1>3. seen' \in Lists
  BY <1>0 DEF PreScan, PreScanEnds, ConnectOK
<1>4. Timed' /\ ConnectOK' /\ WifiOK' /\ CoreOK' /\ Reported' /\ begun' <= now'
  <2>1. Timed'
    BY <1>2, TimedIdle
  <2>2. ConnectOK' /\ CoreOK'
    BY <1>0, <1>1, <1>2, <1>3 DEF ConnectOK, CoreOK, options
  <2>3. WifiOK' /\ Reported' /\ begun' <= now'
    BY <1>0, <1>1, <1>2, WifiKept DEF Reported, wifi, IInv
  <2> QED
    BY <2>1, <2>2, <2>3
<1>5. ScanOK' /\ Owned'
  <2>0. 0 \in 0..MaxAps
    BY BoundsAssumption
  <2>1. CASE PreScan /\ pc' = "scanning"
    BY <1>0, <2>0, <2>1 DEF PreScan, ScanOK, Owned
  <2>2. CASE PreScan /\ ScanDelete /\ scanInFlight' = FALSE
    BY <1>0, <2>0, <2>2 DEF ScanDelete, ScanOK, Owned
  <2>3. CASE PreScan /\ UNCHANGED scanner /\ ~scanInFlight /\ scanInFlight' = FALSE
    BY <1>0, <2>3 DEF ScanOK, Owned, scanner
  <2>4. CASE PreScanEnds
    BY <1>0, <1>1, <2>4, ScanKept DEF PreScanEnds, Owned, scanner
  <2> QED
    BY <2>1, <2>2, <2>3, <2>4 DEF PreScan
<1> QED
  BY <1>4, <1>5 DEF IInv, TypeOK

LEMMA BeginIInv == IInv /\ BeginConnect => IInv'
<1> SUFFICES ASSUME IInv, BeginConnect PROVE IInv'
  OBVIOUS
<1>0. ConnectOK /\ WifiOK /\ ScanOK /\ CoreOK /\ Reported
  BY DEF IInv, TypeOK
<1>1. now \in Nat /\ TimeoutMs \in Nat \ {0} /\ Longest \in Nat \ {0}
  BY <1>0, TimeAssumption DEF ConnectOK, Longest
<1>2. Deadline \in 0..(ClockMod - 1)
  BY <1>1, WrapRange DEF Deadline
<1>3. <<>> \in Lists
  <2>1. <<>> \in [1..0 -> ApType] /\ 0 \in 0..MaxAps
    BY BoundsAssumption
  <2> QED
    BY <2>1 DEF Lists
<1>4. ConnectOK'
  BY <1>0, <1>1, <1>2, <1>3 DEF BeginConnect, ConnectOK
<1>5. WifiOK' /\ ScanOK' /\ CoreOK'
  <2>1. WifiOK'
    BY <1>0 DEF BeginConnect, Begin, WifiOK
  <2>2. ScanOK'
    BY <1>0, ScanKept DEF BeginConnect
  <2>3. CoreOK'
    BY <1>0 DEF BeginConnect, Quiet, CoreOK, options
  <2> QED
    BY <2>1, <2>2, <2>3
<1>6. Timed'
  BY <1>1 DEF BeginConnect, Timed, Waited, Deadline
<1>7. Reported' /\ Owned' /\ begun' <= now'
  BY <1>1 DEF BeginConnect, Quiet, IInv, Reported, Owned, scanner
<1> QED
  BY <1>4, <1>5, <1>6, <1>7 DEF IInv, TypeOK

\* What the comparison of two readings says of the true time that was waited.
LEMMA WaitCompares ==
  ASSUME IInv, pc = "waiting"
  PROVE  /\ BeforeDeadline => ~DeadlineWraps /\ (~DeadlineJumped => Waited < TimeoutMs)
         /\ ~BeforeDeadline /\ ~DeadlineWraps => Waited >= TimeoutMs
<1> DEFINE w == Wrap(begun)
           M == ClockMod
           d == Waited
<1>1. /\ begun \in Nat /\ d \in Nat /\ now = begun + d
      /\ w \in 0..(M - 1) /\ M \in Nat \ {0}
  <2>1. begun \in Nat /\ now \in Nat /\ begun <= now
    BY DEF IInv, TypeOK, ConnectOK
  <2>2. begun \in Int
    BY <2>1
  <2> QED
    BY <2>1, <2>2, WrapRange, ClockModPositive DEF Waited
<1>2. TimeoutMs \in 1..(M - 1) /\ Longest \in Nat \ {0}
  BY <1>1, TimeAssumption, WaitAssumption DEF Longest
<1>3. /\ deadline = Wrap(begun + TimeoutMs)
      /\ DeadlineWraps => d = 0
      /\ ~DeadlineJumped => d < TimeoutMs + Longest
  BY DEF IInv, Timed
<1>4. /\ w + TimeoutMs < M => deadline = w + TimeoutMs
      /\ w + TimeoutMs >= M => deadline = w + TimeoutMs - M
  <2>1. TimeoutMs \in Nat /\ w + TimeoutMs \in 0..(2 * M - 1)
    BY <1>1, <1>2
  <2> QED
    BY <1>1, <1>3, <2>1, WrapLater
<1>5. w + d < M => Wrap(now) = w + d
  BY <1>1, WrapLater
<1>6. BeforeDeadline <=> Wrap(now) < deadline
  BY DEF BeforeDeadline
<1>7. DeadlineWraps <=> w + TimeoutMs >= M
  BY DEF DeadlineWraps
<1>8. DeadlineJumped <=> w + TimeoutMs \in (M - Longest + 1)..(M - 1)
  BY DEF DeadlineJumped
<1> HIDE DEF w, M, d
<1>9. ASSUME BeforeDeadline PROVE ~DeadlineWraps
  BY <1>1, <1>2, <1>3, <1>4, <1>5, <1>6, <1>7, <1>9
<1>10. ASSUME BeforeDeadline, ~DeadlineJumped PROVE d < TimeoutMs
  <2>1. w + TimeoutMs <= M - Longest
    BY <1>1, <1>2, <1>7, <1>8, <1>9, <1>10
  <2> QED
    BY <1>1, <1>2, <1>3, <1>4, <1>5, <1>6, <1>10, <2>1
<1>11. ASSUME ~BeforeDeadline, ~DeadlineWraps PROVE d >= TimeoutMs
  BY <1>1, <1>2, <1>4, <1>5, <1>6, <1>7, <1>11
<1> QED
  BY <1>9, <1>10, <1>11 DEF d

LEMMA OneDelayLater ==
  ASSUME NEW b \in Nat, NEW n \in Nat, NEW m \in Nat, NEW t \in Nat, NEW l \in Nat,
         m <= n + l, n - b < t
  PROVE  m - b < t + l
OBVIOUS

LEMMA WaitIInv == IInv /\ (WaitSeesLink \/ WaitPolls \/ WaitTimesOut \/ GiveUp) => IInv'
<1> SUFFICES ASSUME IInv, WaitSeesLink \/ WaitPolls \/ WaitTimesOut \/ GiveUp PROVE IInv'
  OBVIOUS
<1>0. ConnectOK /\ WifiOK /\ ScanOK /\ CoreOK /\ Reported /\ Timed
  BY DEF IInv, TypeOK
<1>1. UNCHANGED <<scanner, scanInFlight, open, awaiting, options, calls, excused>>
  BY DEF WaitSeesLink, WaitPolls, WaitTimesOut, GiveUp, Return, Quiet
<1>2. CoreOK'
  BY <1>0, <1>1 DEF CoreOK, options
<1>3. CASE WaitPolls
  <2>1. /\ pc = "waiting" /\ BeforeDeadline /\ UNCHANGED <<connect, wifi>>
        /\ now' \in (now + PollMs)..(now + PollMs + MaxLate)
    BY <1>3 DEF WaitPolls
  <2>2. now \in Nat /\ begun \in Nat /\ begun <= now
    BY <1>0 DEF ConnectOK, IInv
  <2>3. now' \in Nat /\ now' >= now /\ now' <= now + Longest
    BY <2>1, <2>2, TimeAssumption DEF Longest
  <2>4. ConnectOK' /\ WifiOK' /\ ScanOK'
    BY <1>0, <1>1, <2>1, <2>3, WifiKept, ScanKept DEF ConnectOK, connect
  <2>5. Timed'
    <3>1. ~DeadlineWraps /\ (~DeadlineJumped => Waited < TimeoutMs)
      BY <2>1, WaitCompares
    <3>2. UNCHANGED <<pc, deadline, begun>>
      BY <2>1 DEF connect
    <3>3. (DeadlineWraps' <=> DeadlineWraps) /\ (DeadlineJumped' <=> DeadlineJumped)
      BY <3>2 DEF DeadlineWraps, DeadlineJumped
    <3>4. Waited < TimeoutMs => Waited' < TimeoutMs + Longest
      <4>1. begun' = begun /\ Longest \in Nat /\ TimeoutMs \in Nat
        BY <3>2, TimeAssumption DEF Longest
      <4> QED
        BY <2>2, <2>3, <4>1, OneDelayLater DEF Waited
    <3> QED
      BY <1>0, <2>1, <3>1, <3>2, <3>3, <3>4 DEF Timed
  <2>6. Reported' /\ Owned' /\ begun' <= now'
    BY <1>0, <1>1, <2>1, <2>2, <2>3 DEF Reported, Owned, IInv, connect, wifi, scanner
  <2> QED
    BY <1>2, <2>4, <2>5, <2>6 DEF IInv, TypeOK
<1>4. CASE WaitSeesLink
  <2>1. Timed'
    BY <1>4, TimedIdle DEF WaitSeesLink, Return
  <2>2. ConnectOK' /\ WifiOK' /\ Reported'
    BY <1>0, <1>4, WifiKept DEF WaitSeesLink, Return, ConnectOK, Reported
  <2> QED
    BY <1>1, <1>2, <1>4, <2>1, <2>2, ConnectStep DEF WaitSeesLink, Return
<1>5. CASE WaitTimesOut
  <2>1. /\ pc = "waiting" /\ pc' = "giveup" /\ ~BeforeDeadline
        /\ UNCHANGED <<seen, deadline, begun, outcome, wifi, now>>
    BY <1>5 DEF WaitTimesOut
  <2>2. ~DeadlineWraps => Waited >= TimeoutMs
    BY <2>1, WaitCompares
  <2>3. Timed'
    BY <1>0, <2>1, <2>2 DEF Timed, Waited, DeadlineWraps, DeadlineJumped
  <2>4. ConnectOK' /\ WifiOK' /\ Reported'
    BY <1>0, <2>1, WifiKept DEF ConnectOK, Reported, wifi
  <2> QED
    BY <1>1, <1>2, <2>1, <2>3, <2>4, ConnectStep
<1>6. CASE GiveUp
  <2>1. Timed'
    BY <1>6, TimedIdle DEF GiveUp, Return
  <2>2. ConnectOK' /\ WifiOK' /\ Reported'
    BY <1>0, <1>6 DEF GiveUp, Return, Disconnect, ConnectOK, WifiOK, Reported
  <2> QED
    BY <1>1, <1>2, <1>6, <2>1, <2>2, ConnectStep DEF GiveUp, Return
<1> QED
  BY <1>3, <1>4, <1>5, <1>6

LEMMA NextIInv == IInv /\ [Next]_vars => IInv'
<1>1. IInv /\ UNCHANGED vars => IInv'
  <2> SUFFICES ASSUME IInv, UNCHANGED vars PROVE IInv'
    OBVIOUS
  <2>1. Timed' /\ ConnectOK' /\ WifiOK' /\ ScanOK'
    BY TimedKept, ConnectKept, WifiKept, ScanKept DEF vars, connect, IInv, TypeOK
  <2> QED
    BY <2>1
    DEF vars, connect, wifi, scanner, core, options, IInv, TypeOK, CoreOK, Reported, Owned
<1> QED
  BY <1>1, DriverIInv, CoreIInv, BeforeWaitIInv, PreScanIInv, BeginIInv, WaitIInv
  DEF Next, Step

THEOREM Invariance == Spec => []IInv
BY InitIInv, NextIInv, PTL DEF Spec

\* Type correctness.
THEOREM TypeCorrect == Spec => []TypeOK
<1>1. IInv => TypeOK
  BY DEF IInv
<1> QED
  BY <1>1, Invariance, PTL

\* A connect lasts its timeout and no longer than one more delay, for every width of
\* the counter and wherever the boot puts the deadline.
THEOREM TimeoutIsKept == Spec => []TimeoutKept
<1>1. IInv => TimeoutKept
  BY DEF IInv, Timed, TimeoutKept, ConnectBounded, FailureWaited, Waited
<1> QED
  BY <1>1, Invariance, PTL

\* After a reported failure the device does not join on its own.
THEOREM FailedLinkIsGivenUp == Spec => []FailedLinkGivenUp
<1>1. IInv => FailedLinkGivenUp
  BY DEF IInv, Reported, FailedLinkGivenUp
<1> QED
  BY <1>1, Invariance, PTL

\* No list of the WiFi library outlives its reader, but for a scan given up running.
THEOREM ListIsReleased == Spec => []ListReleased
<1>1. IInv => ListReleased
  BY DEF IInv, Owned, ListReleased
<1> QED
  BY <1>1, Invariance, PTL

-----------------------------------------------------------------------------
(* The link that a success is reported for *)

\* Until WiFi.begin() a link that shows is an old one, and excused; after it the
\* link that shows is the one asked for.
Genuine ==
  /\ pc = "settle" => link = "down" /\ ~wanted
  /\ pc \in {"prescan", "scanning", "begin"} /\ ~excused => ~status
  /\ pc \in {"waiting", "giveup"} => ours
  /\ pc \in {"waiting", "giveup"} /\ ~excused => ~owes /\ (status => link = "up")

LEMMA DriverGenuine == ASSUME Genuine, Driver PROVE Genuine'
<1>1. pc' = pc
  BY DEF Driver, LinkLeft, LinkUp, LinkLost, LinkRetries, ScanEnds, connect
<1>2. CASE LinkLeft
  BY <1>1, <1>2 DEF LinkLeft, Genuine
<1>3. CASE LinkUp
  BY <1>1, <1>3 DEF LinkUp, Genuine
<1>4. CASE LinkLost
  BY <1>1, <1>4 DEF LinkLost, Genuine
<1>5. CASE LinkRetries
  BY <1>1, <1>5 DEF LinkRetries, Genuine
<1>6. CASE ScanEnds
  BY <1>1, <1>6 DEF ScanEnds, wifi, Genuine
<1> QED
  BY <1>2, <1>3, <1>4, <1>5, <1>6 DEF Driver

LEMMA CallGenuine ==
  ASSUME Genuine, GetNetworks \/ Pump \/ CloseWindow \/ CustomConnect \/ TryConnect
  PROVE  Genuine'
<1>1. CASE GetNetworks \/ Pump \/ CloseWindow \/ CustomConnect
  <2>1. pc' = "loop"
    BY <1>1 DEF GetNetworks, Pump, CloseWindow, CustomConnect, Request, connect
  <2> QED
    BY <2>1 DEF Genuine
<1>2. CASE TryConnect
  <2>1. excused' = FALSE
    BY <1>2 DEF TryConnect
  <2>2. CASE status
    BY <1>2, <2>2 DEF TryConnect, Disconnect, Genuine
  <2>3. CASE ~status
    BY <1>2, <2>1, <2>3 DEF TryConnect, AfterSettling, wifi, Genuine
  <2> QED
    BY <2>2, <2>3
<1> QED
  BY <1>1, <1>2

LEMMA StepGenuine == ASSUME IInv, Genuine, Step PROVE Genuine'
<1>1. CASE Settle
  BY <1>1 DEF Settle, AfterSettling, wifi, Genuine
<1>2. CASE PreScan \/ PreScanEnds
  BY <1>2 DEF PreScan, PreScanEnds, wifi, Genuine
<1>3. CASE BeginConnect
  BY <1>3 DEF BeginConnect, Begin, Genuine
<1>4. CASE WaitPolls \/ WaitTimesOut
  <2>1. /\ UNCHANGED wifi /\ excused' = excused
        /\ pc = "waiting" /\ pc' \in {"waiting", "giveup"}
    BY <1>4 DEF WaitPolls, WaitTimesOut, connect
  <2> QED
    BY <2>1 DEF wifi, Genuine
<1>5. CASE WaitSeesLink \/ GiveUp
  BY <1>5 DEF WaitSeesLink, GiveUp, Return, Genuine
<1> QED
  BY <1>1, <1>2, <1>3, <1>4, <1>5 DEF Step

\* A success is reported for the network that was asked for, unless the driver took
\* longer than the delay to leave the old one, or reached it between the first look
\* and WiFi.begin() (backend_arduino.cpp:40-104).
THEOREM SuccessIsGenuine == Spec => SuccessGenuine
<1>1. Init => Genuine
  BY DEF Init, Genuine
<1>2. IInv /\ Genuine /\ [Next]_vars => Genuine'
  <2> SUFFICES ASSUME IInv, Genuine, [Next]_vars PROVE Genuine'
    OBVIOUS
  <2>1. CASE UNCHANGED vars
    BY <2>1 DEF vars, connect, wifi, Genuine
  <2> QED
    BY <2>1, DriverGenuine, CallGenuine, StepGenuine DEF Next
<1>3. IInv /\ Genuine /\ [Next]_vars =>
        [outcome' = "connected" /\ outcome # "connected" => (link = "up" /\ ours) \/ excused]_vars
  <2> SUFFICES ASSUME IInv, Genuine, [Next]_vars, outcome' = "connected", outcome # "connected"
               PROVE  (link = "up" /\ ours) \/ excused
    OBVIOUS
  <2>1. CASE WaitSeesLink
    BY <2>1 DEF WaitSeesLink, Genuine
  <2>2. CASE GetNetworks \/ Pump \/ CloseWindow \/ CustomConnect \/ TryConnect
    BY <2>2 DEF GetNetworks, Pump, CloseWindow, CustomConnect, TryConnect, connect
  <2>3. CASE Settle \/ PreScan \/ PreScanEnds \/ BeginConnect
    BY <2>3 DEF Settle, PreScan, PreScanEnds, BeginConnect
  <2>4. CASE WaitPolls \/ WaitTimesOut \/ GiveUp
    BY <2>4 DEF WaitPolls, WaitTimesOut, GiveUp, Return, connect
  <2>5. CASE Driver
    BY <2>5 DEF Driver, LinkLeft, LinkUp, LinkLost, LinkRetries, ScanEnds, connect
  <2>6. CASE UNCHANGED vars
    BY <2>6 DEF vars, connect
  <2> QED
    BY <2>1, <2>2, <2>3, <2>4, <2>5, <2>6 DEF Next, Step
<1> QED
  BY Invariance, <1>1, <1>2, <1>3, PTL DEF Spec, SuccessGenuine

-----------------------------------------------------------------------------
(* The scan for the strongest record.  What the fold computes is shown by the  *)
(* least counterexample.                                                       *)

\* Every non-empty set of naturals has a least element.
LEMMA LeastNat ==
  ASSUME NEW T \in SUBSET Nat, T # {}
  PROVE  \E m \in T : \A k \in T : m <= k
<1>1. IsWellFoundedOn(OpToRel(<, Nat), Nat)
  BY NatLessThanWellFounded
<1>2. PICK m \in T : \A k \in T : ~ (<<k, m>> \in OpToRel(<, Nat))
  <2>. HIDE DEF OpToRel
  <2> QED BY <1>1, WFMin
<1>3. \A k \in T : k \in Nat /\ (k < m => <<k, m>> \in OpToRel(<, Nat))
  BY DEF OpToRel
<1>4. m \in Nat /\ \A k \in T : k \in Nat /\ ~ (k < m)
  BY <1>2, <1>3
<1>5. \A k \in T : m <= k
  BY <1>4
<1> QED BY <1>5

LEMMA MaxInSet ==
  ASSUME NEW n \in Nat, NEW s \in SUBSET (1..n), s # {}
  PROVE  Max(s) \in s /\ \A y \in s : y <= Max(s)
<1> DEFINE Bounds == {m \in Nat : \A y \in s : y <= m}
<1>1. PICK m \in Bounds : \A k \in Bounds : m <= k
  <2>1. n \in Bounds
    OBVIOUS
  <2>2. Bounds \in SUBSET Nat
    OBVIOUS
  <2> HIDE DEF Bounds
  <2> QED BY <2>1, <2>2, LeastNat
<1>2. m \in s
  <2> SUFFICES ASSUME m \notin s PROVE FALSE
    OBVIOUS
  <2>0. PICK z \in s : TRUE
    OBVIOUS
  <2>1. m \in Nat /\ m > 0 /\ \A y \in s : y \in Nat /\ y <= m /\ y # m
    BY <2>0
  <2>2. m - 1 \in Bounds
    BY <2>1
  <2>3. m <= m - 1
    BY <1>1, <2>2
  <2> QED BY <2>1, <2>3
<1>3. \E x \in s : \A y \in s : x >= y
  BY <1>2
<1>4. Max(s) \in s /\ \A y \in s : Max(s) >= y
  BY <1>3 DEF Max
<1> QED BY <1>4

\* One round of the loop, and the fold that makes them.
Scan(l, b, i) ==
  IF l[i].match /\ l[i].rssi > (IF b = 0 THEN FloorRssi ELSE l[b].rssi) THEN i ELSE b
Index(l) == [i \in DOMAIN l |-> i]
Round(l, s, g) ==
  IF s = {} THEN 0 ELSE Scan(l, g[s \ {Max(s)}], Index(l)[Max(s)])
Rounds(l) == CHOOSE g : g = [s \in SUBSET (DOMAIN l) |-> Round(l, s, g)]

LEMMA BestIsFold == \A l : Best(l) = Rounds(l)[DOMAIN l]
<1> TAKE l
<1>1. Best(l) = FoldLeft(LAMBDA b, i : Scan(l, b, i), 0, Index(l))
  BY DEF Best, FoldLeftDomain, Scan, Index
<1>2. FoldLeft(LAMBDA b, i : Scan(l, b, i), 0, Index(l)) =
      MapThenFoldSet(LAMBDA i, b : Scan(l, b, i), 0, LAMBDA i : Index(l)[i],
                     LAMBDA S : Max(S), DOMAIN Index(l))
  BY DEF FoldLeft
<1>3. MapThenFoldSet(LAMBDA i, b : Scan(l, b, i), 0, LAMBDA i : Index(l)[i],
                     LAMBDA S : Max(S), DOMAIN Index(l)) =
      (CHOOSE g : g = [s \in SUBSET (DOMAIN Index(l)) |-> Round(l, s, g)])[DOMAIN Index(l)]
  BY DEF MapThenFoldSet, Round
<1>4. DOMAIN Index(l) = DOMAIN l
  BY DEF Index
<1> QED BY <1>1, <1>2, <1>3, <1>4 DEF Rounds

\* The recursion over the sets of indices has a solution.
LEMMA RoundsExist ==
  ASSUME NEW l, NEW n \in Nat
  PROVE  \E g : g = [s \in SUBSET (1..n) |-> Round(l, s, g)]
<1> DEFINE Has(k) == \E g : g = [s \in SUBSET (1..k) |-> Round(l, s, g)]
           Without == {k \in Nat : ~Has(k)}
<1> SUFFICES ASSUME ~Has(n) PROVE FALSE
  OBVIOUS
<1>1. PICK m \in Without : \A k \in Without : m <= k
  <2>1. n \in Without /\ Without \in SUBSET Nat
    OBVIOUS
  <2> HIDE DEF Without
  <2> QED BY <2>1, LeastNat
<1>2. m # 0
  <2>1. Has(0)
    <3> DEFINE g == [s \in SUBSET (1..0) |-> 0]
    <3>1. 1..0 = {}
      OBVIOUS
    <3>2. \A s \in SUBSET (1..0) : Round(l, s, g) = 0
      BY <3>1 DEF Round
    <3>3. g = [s \in SUBSET (1..0) |-> Round(l, s, g)]
      BY <3>2
    <3> HIDE DEF g
    <3> QED BY <3>3
  <2> HIDE DEF Has
  <2> QED BY <2>1
<1>3. Has(m - 1)
  <2> HIDE DEF Has
  <2>1. m \in Nat /\ m - 1 \in Nat /\ ~(m <= m - 1)
    BY <1>2
  <2> QED BY <1>1, <2>1
<1>4. PICK g : g = [s \in SUBSET (1..(m - 1)) |-> Round(l, s, g)]
  BY <1>3
<1> DEFINE h == [s \in SUBSET (1..m) |-> Round(l, s, g)]
<1>5. \A s \in SUBSET (1..m) : Round(l, s, h) = Round(l, s, g)
  <2> TAKE s \in SUBSET (1..m)
  <2>1. CASE s = {}
    BY <2>1 DEF Round
  <2>2. CASE s # {}
    <3>1. Max(s) \in s /\ \A y \in s : y <= Max(s)
      BY <2>2, MaxInSet, m \in Nat
    <3>2. s \ {Max(s)} \in SUBSET (1..(m - 1)) /\ s \ {Max(s)} \in SUBSET (1..m)
      <4>1. PICK x \in s : x = Max(s)
        BY <3>1
      <4>2. \A y \in s \ {x} : y \in 1..(m - 1)
        BY <3>1, <4>1, m \in Nat
      <4> QED BY <4>1, <4>2
    <3>3. h[s \ {Max(s)}] = Round(l, s \ {Max(s)}, g)
      BY <3>2
    <3>4. g[s \ {Max(s)}] = Round(l, s \ {Max(s)}, g)
      BY <3>2, <1>4
    <3>5. h[s \ {Max(s)}] = g[s \ {Max(s)}]
      BY <3>3, <3>4
    <3> HIDE DEF h
    <3> QED BY <3>5 DEF Round
  <2> QED BY <2>1, <2>2
<1>6. h = [s \in SUBSET (1..m) |-> Round(l, s, h)]
  BY <1>5
<1>7. Has(m)
  <2> HIDE DEF h
  <2> QED BY <1>6
<1> QED BY <1>7

\* Before record k + 1 the loop has looked at the first k.
LEMMA RoundsStep ==
  ASSUME NEW l, NEW n \in Nat, DOMAIN l = 1..n
  PROVE  /\ Rounds(l)[1..0] = 0
         /\ \A k \in 1..n : Rounds(l)[1..k] = Scan(l, Rounds(l)[1..(k - 1)], k)
<1> DEFINE r == Rounds(l)
<1>1. r = [s \in SUBSET (1..n) |-> Round(l, s, r)]
  BY RoundsExist DEF Rounds
<1> HIDE DEF r
<1>2. \A s \in SUBSET (1..n) : r[s] = Round(l, s, r)
  BY <1>1
<1>3. r[1..0] = 0
  <2>1. 1..0 = {} /\ 1..0 \in SUBSET (1..n)
    OBVIOUS
  <2> QED BY <1>2, <2>1 DEF Round
<1>4. ASSUME NEW k \in 1..n PROVE r[1..k] = Scan(l, r[1..(k - 1)], k)
  <2>0. k \in Nat /\ k >= 1 /\ k <= n
    OBVIOUS
  <2>1. k \in 1..k /\ 1..k \in SUBSET (1..n)
    BY <2>0
  <2>2. Max(1..k) = k
    <3>1. Max(1..k) \in 1..k /\ \A y \in 1..k : y <= Max(1..k)
      BY <2>0, <2>1, MaxInSet
    <3> QED BY <3>1
  <2>3. (1..k) \ {k} = 1..(k - 1)
    <3>1. \A y : y \in (1..k) \ {k} <=> y \in 1..(k - 1)
      OBVIOUS
    <3> QED BY <3>1
  <2>4. Index(l)[k] = k
    BY DEF Index
  <2>5. r[1..k] = Round(l, 1..k, r)
    BY <1>2, <2>1
  <2> QED BY <2>1, <2>2, <2>3, <2>4, <2>5 DEF Round
<1> QED BY <1>3, <1>4 DEF r

\* After k records the one kept is the strongest of those, or none was heard.
RssiOf(l, b) == IF b = 0 THEN FloorRssi ELSE l[b].rssi
StrongestOf(l, b, k) ==
  /\ b \in 0..k
  /\ b # 0 => l[b].match
  /\ \A i \in 1..k : l[i].match => l[i].rssi <= RssiOf(l, b)

LEMMA BestIsStrongest ==
  ASSUME NEW l \in Lists
  PROVE  \E n \in Nat : DOMAIN l = 1..n /\ StrongestOf(l, Best(l), n)
<1>1. PICK n \in Nat : l \in [1..n -> ApType]
  BY BoundsAssumption DEF Lists
<1>2. DOMAIN l = 1..n /\ \A i \in 1..n : l[i].match \in BOOLEAN /\ l[i].rssi \in Int
  BY <1>1, RssiAssumption DEF ApType
<1> DEFINE r == Rounds(l)
           Wrong == {k \in Nat : k <= n /\ ~StrongestOf(l, r[1..k], k)}
<1>3. r[1..0] = 0 /\ \A k \in 1..n : r[1..k] = Scan(l, r[1..(k - 1)], k)
  BY <1>2, RoundsStep
<1> HIDE DEF r
<1>4. Wrong = {}
  <2> SUFFICES ASSUME Wrong # {} PROVE FALSE
    OBVIOUS
  <2>1. PICK m \in Wrong : \A k \in Wrong : m <= k
    <3>1. Wrong \in SUBSET Nat
      OBVIOUS
    <3> HIDE DEF Wrong
    <3> QED BY <3>1, LeastNat
  <2>2. m # 0
    BY <1>3 DEF StrongestOf
  <2>3. m \in 1..n /\ m - 1 \in Nat /\ m - 1 <= n /\ ~(m <= m - 1)
    BY <2>2
  <2>4. StrongestOf(l, r[1..(m - 1)], m - 1)
    BY <2>1, <2>3
  <2>5. PICK b : b = r[1..(m - 1)]
    OBVIOUS
  <2>6. StrongestOf(l, b, m - 1) /\ r[1..m] = Scan(l, b, m)
    BY <2>3, <2>4, <2>5, <1>3
  <2>7. StrongestOf(l, Scan(l, b, m), m)
    BY <2>3, <2>6, <1>2 DEF StrongestOf, Scan, RssiOf, FloorRssi
  <2> QED BY <2>6, <2>7
<1>5. StrongestOf(l, r[1..n], n)
  BY <1>4
<1>6. Best(l) = r[1..n]
  BY <1>2, BestIsFold DEF r
<1> QED BY <1>2, <1>5, <1>6

\* However many records a scan returns, the one that is pinned is of the wanted
\* network and none of that network is stronger (backend_arduino.cpp:59-77).
THEOREM StrongestIsPinned == Spec => []PinIsStrongest
<1>1. Init => PinIsStrongest
  BY DEF Init, PinIsStrongest
<1>2. PinIsStrongest /\ [Next]_vars => PinIsStrongest'
  <2> SUFFICES ASSUME PinIsStrongest, [Next]_vars PROVE PinIsStrongest'
    OBVIOUS
  <2>1. CASE PreScanEnds
    <3>1. seen' \in Lists /\ pin' \in {Best(seen'), 0}
      BY <2>1 DEF PreScanEnds
    <3>2. PICK l \in Lists : l = seen'
      BY <3>1
    <3>3. PICK n \in Nat : DOMAIN l = 1..n /\ StrongestOf(l, Best(l), n)
      BY BestIsStrongest
    <3>4. Best(l) # 0 => /\ Best(l) \in DOMAIN l /\ l[Best(l)].match
                         /\ \A i \in DOMAIN l : l[i].match => l[i].rssi <= l[Best(l)].rssi
      BY <3>3 DEF StrongestOf, RssiOf
    <3>5. pin' # 0 => pin' = Best(l)
      BY <3>1, <3>2
    <3> HIDE DEF Best
    <3> QED
      BY <3>2, <3>4, <3>5 DEF PinIsStrongest
  <2>2. CASE BeginConnect
    BY <2>2 DEF BeginConnect, PinIsStrongest
  <2>3. CASE UNCHANGED <<seen, pin>>
    BY <2>3 DEF PinIsStrongest
  <2>4. CASE Driver \/ UNCHANGED vars
    BY <2>3, <2>4 DEF Driver, LinkLeft, LinkUp, LinkLost, LinkRetries, ScanEnds, connect, vars
  <2>5. CASE GetNetworks \/ Pump \/ CloseWindow \/ CustomConnect \/ TryConnect
    BY <2>3, <2>5 DEF GetNetworks, Pump, CloseWindow, CustomConnect, TryConnect, connect
  <2>6. CASE Settle \/ PreScan \/ WaitPolls \/ WaitTimesOut \/ WaitSeesLink \/ GiveUp
    BY <2>3, <2>6 DEF Settle, PreScan, WaitPolls, WaitTimesOut, WaitSeesLink, GiveUp,
         Return, connect
  <2> QED
    BY <2>1, <2>2, <2>4, <2>5, <2>6 DEF Next, Step
<1> QED
  BY <1>1, <1>2, PTL DEF Spec
=============================================================================
