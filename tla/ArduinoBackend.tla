--------------------------- MODULE ArduinoBackend ---------------------------
(* ArduinoWiFiBackend (backend_arduino.cpp) behind the facade's WrappedBackend *)
(* (ImprovWiFiLibrary.h), between the core that calls it from the main loop   *)
(* and the WiFi library, whose driver works in a task of its own.             *)
(*                                                                            *)
(* tryConnect() is cut wherever it lets the driver run: at its delays, in the *)
(* synchronous scan, and between a reading of WiFi.status() and what is done  *)
(* because of it.  WiFi.status() is what the driver's events made of it: after*)
(* WiFi.disconnect() it says "connected" until the event has been handled.    *)
EXTENDS Sequences, SequencesExt, Clock32

CONSTANTS
  TimeoutMs,   \* Options::connectTimeoutMs
  PollMs,      \* Options::connectPollMs
  MaxLate,     \* by how much a delay() may last too long
  BootTimes,   \* uptimes at which the backend is first used
  Rssis,       \* signal strengths of the records of a scan
  MaxAps,      \* bound on the records of one scan
  MaxCalls,    \* bound on the host's requests
  MaxTime      \* bound on the uptime at which a request arrives; a connect that
               \* waits for the next round of the counter is followed for one round

ASSUME TimeAssumption ==
  TimeoutMs \in Nat \ {0} /\ PollMs \in Nat \ {0} /\ MaxLate \in Nat
ASSUME WaitAssumption == TimeoutMs < ClockMod
ASSUME RssiAssumption == Rssis \subseteq Int
ASSUME BoundsAssumption ==
  BootTimes \subseteq Nat /\ MaxAps \in Nat /\ MaxCalls \in Nat /\ MaxTime \in Nat

VARIABLES
  scanInFlight, connectToStrongest, customConnect,  \* fields and options
  pc, seen, pin, deadline, begun,                   \* tryConnect()
  outcome,                                          \* what it last returned
  status, owes, link, ours, wanted,                 \* WiFi: the connection
  scan, found,                                      \* WiFi: the scan
  open, awaiting,                                   \* the core
  calls, now,
  excused, abandoned                                \* history

connect == <<pc, seen, pin, deadline, begun, outcome>>
wifi    == <<status, owes, link, ours, wanted>>
scanner == <<scan, found, abandoned>>
core    == <<open, awaiting, calls>>
options == <<connectToStrongest, customConnect>>
vars == <<connect, wifi, scanner, core, options, scanInFlight, now, excused>>

ApType == [match : BOOLEAN, rssi : Rssis]
Lists  == UNION {[1..k -> ApType] : k \in 0..MaxAps}

Init ==
  /\ scanInFlight = FALSE
  /\ connectToStrongest \in BOOLEAN /\ customConnect \in BOOLEAN
  /\ pc = "loop" /\ seen = <<>> /\ pin = 0 /\ deadline = 0 /\ outcome = "none"
  /\ link \in {"down", "joining", "up"}      \* from credentials stored before
  /\ status = (link = "up") /\ owes = FALSE /\ ours = FALSE
  /\ wanted = (link # "down")
  /\ scan = "none" /\ found = 0 /\ abandoned = FALSE
  /\ open = TRUE /\ awaiting = FALSE /\ calls = 0
  /\ now \in BootTimes /\ begun = now /\ excused = FALSE

-----------------------------------------------------------------------------
(* The WiFi library *)

\* WiFi.disconnect(): the link is dropped now, the event that says so comes later.
Disconnect ==
  /\ link' = "down" /\ wanted' = FALSE /\ owes' = status
  /\ UNCHANGED <<status, ours>>

\* WiFi.begin(): leaves whatever network the driver is in, or on its way to.
Begin ==
  /\ link' = "joining" /\ ours' = TRUE /\ wanted' = TRUE
  /\ owes' = status /\ UNCHANGED status

\* WiFi.scanDelete(): frees a finished list, and does not stop a running scan.
ScanDelete ==
  /\ scan' = IF scan = "done" THEN "none" ELSE scan
  /\ found' = 0
  /\ abandoned' = (abandoned \/ scan = "running")

\* The event of a link that was given up.
LinkLeft ==
  /\ owes /\ owes' = FALSE /\ status' = FALSE
  /\ UNCHANGED <<link, ours, wanted, connect, scanner, core, options, scanInFlight, now, excused>>

LinkUp ==
  /\ link = "joining" /\ ~owes
  /\ link' = "up" /\ status' = TRUE
  /\ excused' = (excused \/ pc \in {"prescan", "scanning", "begin"})
  /\ UNCHANGED <<owes, ours, wanted, connect, scanner, core, options, scanInFlight, now>>

\* Wrong password, no such network, or a link that is lost.
LinkLost ==
  /\ link \in {"joining", "up"}
  /\ link' = "down" /\ status' = (status /\ owes)
  /\ UNCHANGED <<owes, ours, wanted, connect, scanner, core, options, scanInFlight, now, excused>>

\* The driver tries again on its own for as long as nobody disconnected it.
LinkRetries ==
  /\ link = "down" /\ wanted
  /\ link' = "joining"
  /\ UNCHANGED <<status, owes, ours, wanted, connect, scanner, core, options, scanInFlight, now, excused>>

ScanEnds ==
  /\ scan = "running"
  /\ \/ scan' = "done" /\ found' \in 0..MaxAps
     \/ scan' = "none" /\ found' = 0
  /\ UNCHANGED <<abandoned, connect, wifi, core, options, scanInFlight, now, excused>>

Driver == LinkLeft \/ LinkUp \/ LinkLost \/ LinkRetries \/ ScanEnds

-----------------------------------------------------------------------------
(* startScan(), scanResult() and clearScan(), called by the core.  A           *)
(* definition whose name begins with Bad is wrong on purpose: the run must     *)
(* notice when it takes the place of the one that follows it.                  *)

\* A scan that runs already goes on; the driver may refuse a new one.
StartScan ==
  /\ \/ scan = "running" /\ UNCHANGED scan
     \/ scan # "running" /\ scan' \in {"running", "none"}
  /\ found' = 0 /\ abandoned' = FALSE
  /\ scanInFlight' = TRUE

kScanRunning == -1
kScanFailed  == -2

BadScanResult == IF scan = "done" THEN found ELSE kScanRunning

ScanResult == CASE scan = "running" -> kScanRunning
                [] scan = "none"    -> kScanFailed
                [] scan = "done"    -> found

BadClearScan == scanInFlight' = FALSE /\ UNCHANGED scanner

ClearScan ==
  /\ IF scanInFlight THEN ScanDelete ELSE UNCHANGED scanner
  /\ scanInFlight' = FALSE

Request ==
  /\ pc = "loop" /\ open
  /\ calls < MaxCalls /\ now <= MaxTime
  /\ calls' = calls + 1

GetNetworks ==
  /\ Request
  /\ StartScan
  /\ awaiting' = TRUE
  /\ UNCHANGED <<open, connect, wifi, options, now, excused>>

\* pumpScan_(): the list, or an empty one, and the scan is given back.
Pump ==
  /\ pc = "loop" /\ open /\ awaiting /\ ScanResult # kScanRunning
  /\ awaiting' = FALSE
  /\ ClearScan
  /\ UNCHANGED <<open, calls, connect, wifi, options, now, excused>>

CloseWindow ==
  /\ pc = "loop" /\ open /\ open' = FALSE
  /\ awaiting' = FALSE
  /\ IF awaiting THEN ClearScan ELSE UNCHANGED <<scanner, scanInFlight>>
  /\ UNCHANGED <<calls, connect, wifi, options, now, excused>>

-----------------------------------------------------------------------------
(* tryConnect() *)

Quiet == UNCHANGED <<open, awaiting, options>>

\* The sketch's own connect function: the WiFi may be in any state after it.
CustomConnect ==
  /\ customConnect /\ Request
  /\ outcome' = "custom"
  /\ link' \in {"down", "joining", "up"} /\ wanted' \in BOOLEAN
  /\ status' = (link' = "up") /\ owes' = FALSE /\ ours' = FALSE
  /\ Quiet
  /\ UNCHANGED <<pc, seen, pin, deadline, begun, scanner, scanInFlight, now, excused>>

AfterSettling == IF connectToStrongest THEN "prescan" ELSE "begin"

BadTryConnect ==
  /\ ~customConnect /\ Request
  /\ outcome' = "none" /\ excused' = FALSE
  /\ pc' = AfterSettling
  /\ Quiet
  /\ UNCHANGED <<seen, pin, deadline, begun, wifi, scanner, scanInFlight, now>>

\* An old link is given up first.
TryConnect ==
  /\ ~customConnect /\ Request
  /\ outcome' = "none" /\ excused' = FALSE
  /\ IF status THEN Disconnect /\ pc' = "settle"
               ELSE pc' = AfterSettling /\ UNCHANGED wifi
  /\ Quiet
  /\ UNCHANGED <<seen, pin, deadline, begun, scanner, scanInFlight, now>>

\* delay(100), whether the driver has left the old network by then or not.
Settle ==
  /\ pc = "settle" /\ pc' = AfterSettling
  /\ excused' = status
  /\ Quiet
  /\ UNCHANGED <<seen, pin, deadline, begun, outcome, wifi, scanner, scanInFlight, now, calls>>

\* The strongest record of the wanted network; 0 when none is above the floor.
FloorRssi == -127

BadBest(l) ==
  FoldLeftDomain(LAMBDA b, i : IF l[i].match /\ l[i].rssi > FloorRssi THEN i ELSE b, 0, l)

Best(l) ==
  LET bestRssi(b) == IF b = 0 THEN FloorRssi ELSE l[b].rssi IN
    FoldLeftDomain(LAMBDA b, i : IF l[i].match /\ l[i].rssi > bestRssi(b) THEN i ELSE b, 0, l)

\* The pre-scan takes over from a pending scan of the core.  While that one is
\* running, or when the driver refuses, the synchronous scan returns nothing.
PreScan ==
  /\ pc = "prescan"
  /\ \/ pc' = "begin" /\ IF scanInFlight \/ scan = "done" THEN ScanDelete ELSE UNCHANGED scanner
     \/ /\ scan # "running"
        /\ pc' = "scanning" /\ scan' = "none" /\ found' = 0 /\ abandoned' = FALSE
  /\ scanInFlight' = FALSE
  /\ Quiet
  /\ UNCHANGED <<seen, pin, deadline, begun, outcome, wifi, now, calls, excused>>

\* BSSID() of the best record may be null; the list is deleted.
PreScanEnds ==
  /\ pc = "scanning" /\ pc' = "begin"
  /\ seen' \in Lists
  /\ pin' \in {Best(seen'), 0}
  /\ Quiet
  /\ UNCHANGED <<deadline, begun, outcome, wifi, scanner, scanInFlight, now, calls, excused>>

BadDeadline == now + TimeoutMs
Deadline    == Wrap(now + TimeoutMs)

BeginConnect ==
  /\ pc = "begin" /\ pc' = "waiting"
  /\ Begin
  /\ begun' = now /\ deadline' = Deadline
  /\ seen' = <<>> /\ pin' = 0
  /\ Quiet
  /\ UNCHANGED <<outcome, scanner, scanInFlight, now, calls, excused>>

BadBeforeDeadlineLate  == Wrap(now) <= deadline
BadBeforeDeadlineEarly == Wrap(now) + PollMs < deadline

\* millis() < deadline, two unsigned readings.
BeforeDeadline == Wrap(now) < deadline

Return(r) ==
  /\ pc' = "loop" /\ outcome' = r
  /\ Quiet
  /\ UNCHANGED <<seen, pin, deadline, begun, scanner, scanInFlight, now, calls, excused>>

\* In the loop, or at the last look after it.
WaitSeesLink ==
  /\ pc = "waiting" /\ status
  /\ Return("connected") /\ UNCHANGED wifi

WaitPolls ==
  /\ pc = "waiting" /\ BeforeDeadline /\ ~status
  /\ now' \in (now + PollMs)..(now + PollMs + MaxLate) /\ now' <= MaxTime + ClockMod
  /\ Quiet
  /\ UNCHANGED <<connect, wifi, scanner, scanInFlight, calls, excused>>

WaitTimesOut ==
  /\ pc = "waiting" /\ ~BeforeDeadline /\ ~status
  /\ pc' = "giveup"
  /\ Quiet
  /\ UNCHANGED <<seen, pin, deadline, begun, outcome, wifi, scanner, scanInFlight, now, calls, excused>>

BadGiveUp == pc = "giveup" /\ Return("failed") /\ UNCHANGED wifi

GiveUp == pc = "giveup" /\ Return("failed") /\ Disconnect

Step ==
  \/ Settle \/ PreScan \/ PreScanEnds \/ BeginConnect
  \/ WaitSeesLink \/ WaitPolls \/ WaitTimesOut \/ GiveUp

Next ==
  \/ GetNetworks \/ Pump \/ CloseWindow \/ CustomConnect \/ TryConnect \/ Step
  \/ Driver

Spec == Init /\ [][Next]_vars

\* The main loop goes on, delays end, and a scan ends.
Fairness == WF_vars(Step) /\ WF_vars(Pump) /\ WF_vars(ScanEnds)

FairSpec == Spec /\ Fairness
-----------------------------------------------------------------------------
(* Properties *)

ConnectOK ==
  /\ pc \in {"loop", "settle", "prescan", "scanning", "begin", "waiting", "giveup"}
  /\ seen \in Lists
  /\ deadline \in 0..(ClockMod - 1) /\ begun \in Nat /\ now \in Nat
  /\ outcome \in {"none", "connected", "failed", "custom"}
WifiOK ==
  /\ status \in BOOLEAN /\ owes \in BOOLEAN /\ ours \in BOOLEAN /\ wanted \in BOOLEAN
  /\ link \in {"down", "joining", "up"}
ScanOK ==
  /\ scan \in {"none", "running", "done"} /\ found \in 0..MaxAps
  /\ scanInFlight \in BOOLEAN /\ abandoned \in BOOLEAN
CoreOK ==
  /\ open \in BOOLEAN /\ awaiting \in BOOLEAN /\ calls \in Nat /\ excused \in BOOLEAN
  /\ connectToStrongest \in BOOLEAN /\ customConnect \in BOOLEAN

TypeOK == ConnectOK /\ WifiOK /\ ScanOK /\ CoreOK

Longest == PollMs + MaxLate

\* The deadline lies beyond the wrap of millis(): the loop does not wait at all.
DeadlineWraps == Wrap(begun) + TimeoutMs >= ClockMod

\* The deadline is so close to the wrap that a delay() may jump over what lies
\* between: the loop may wait for the next round of the counter, 49 days.
DeadlineJumped ==
  Wrap(begun) + TimeoutMs \in (ClockMod - Longest + 1)..(ClockMod - 1)

ConnectBounded ==
  pc \in {"waiting", "giveup"} /\ ~DeadlineJumped => now - begun < TimeoutMs + Longest
FailureWaited ==
  pc = "giveup" /\ ~DeadlineWraps => now - begun >= TimeoutMs

\* A connect ends less than one delay after its timeout, unless the deadline is
\* just before a wrap of millis(); and it only fails after the whole timeout, unless
\* the deadline lies beyond the wrap (backend_arduino.cpp:94-102).
TimeoutKept == ConnectBounded /\ FailureWaited

\* The host is told of a success for the network it asked for, not for the one
\* that was left: unless the driver takes longer than the delay to leave it, or
\* reaches it between the first look and WiFi.begin() (backend_arduino.cpp:40-104).
SuccessGenuine ==
  [][outcome' = "connected" /\ outcome # "connected" => (link = "up" /\ ours) \/ excused]_vars

\* When the host has been told of a failure, the device does not join later on its
\* own (backend_arduino.cpp:99-101).
FailedLinkGivenUp == outcome = "failed" => link = "down" /\ ~wanted

\* The access point that is pinned is the strongest of the wanted network
\* (backend_arduino.cpp:59-77).
PinIsStrongest ==
  pin # 0 =>
    /\ pin \in DOMAIN seen /\ seen[pin].match
    /\ \A i \in DOMAIN seen : seen[i].match => seen[i].rssi <= seen[pin].rssi

\* The WiFi library's list is released when no pump will read it; one survives only
\* of a scan that was still running when it was given back
\* (backend_arduino.cpp:54-57, 130-135; improv_wifi.cpp:42-43).
ListReleased == scan = "done" /\ ~awaiting => abandoned

\* Every awaited scan is reported or given up, whatever a connect in between has
\* done to it (backend_arduino.cpp:54-58, 114-119).
ScanAnswered == awaiting ~> (~awaiting \/ (pc # "loop" /\ DeadlineJumped))
=============================================================================
