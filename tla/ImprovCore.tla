---------------------------- MODULE ImprovCore ----------------------------
(* ImprovWiFi (improv_wifi.cpp): the bounded provisioning window, the command *)
(* dispatcher and the scan pump, over the WiFiBackend interface.              *)
(*                                                                            *)
(* One action is one call the application's main loop makes (tick(), or the   *)
(* feedByte() that completes a frame), cut in two where the handler hands the *)
(* processor to somebody else or re-reads shared state: inside the blocking   *)
(* tryConnect() and between isConnected() and currentIp().  The frames that   *)
(* the library writes and the callbacks it makes are appended to log, between *)
(* the requests that caused them.  Byte framing is FrameParser's business.    *)
EXTENDS Sequences, FiniteSets, Clock32

CONSTANTS
  WindowMs,      \* Config::windowMs
  MaxGap,        \* longest time the main loop leaves between two ticks,
                 \* a blocking tryConnect() included
  BootTimes,     \* uptimes at which the object may be constructed
  MaxTime,       \* bound on the uptime
  MaxRequests,   \* bound on the frames received
  MaxAps,        \* bound on the access points of one scan
  SsidLens,      \* SSID lengths the host may send
  PwLens,        \* password lengths the host may send
  DeviceInfos    \* what setDeviceInfo() may be given

Urls == {"ip", "fixed", "oversize"}

\* The signed 32-bit comparison is exact while neither the window nor the gap
\* between two ticks exceeds half of the counter's range.
ASSUME WindowAssumption == WindowMs \in Nat /\ WindowMs < HalfRange
ASSUME GapAssumption == MaxGap \in Nat /\ MaxGap <= HalfRange
ASSUME BootAssumption == BootTimes \subseteq Nat
ASSUME BoundsAssumption ==
  MaxTime \in Nat /\ MaxRequests \in Nat /\ MaxAps \in Nat
ASSUME LensAssumption == SsidLens \subseteq Nat /\ PwLens \subseteq Nat
ASSUME DeviceAssumption ==
  DeviceInfos \subseteq [infoFits : BOOLEAN, url : Urls]

VARIABLES
  armed, clockAnchored, deadlineMs, scanPhase,   \* the fields of ImprovWiFi
  dev,                                           \* dev_, as far as it matters
  hasBackend,                                    \* cfg_.backend is not null
  pc, urlCmd,       \* where a handler is suspended, and for which command
  linkUp,           \* backend: associated, with an address
  scanResult,       \* backend: what scanResult() would return
  log,              \* requests, frames and callbacks, in order
  now,              \* true uptime in ms; the program sees Wrap(now)
  anchor, lastTick  \* uptime of the first tick, and of the latest one

window  == <<armed, clockAnchored, deadlineMs>>
handler == <<pc, urlCmd>>
backend == <<linkUp, scanResult>>
clock   == <<now, anchor, lastTick>>
config  == <<dev, hasBackend>>
vars    == <<window, handler, backend, clock, config, scanPhase, log>>

-----------------------------------------------------------------------------
(* Frames, requests and callbacks, as entries of log *)

States  == {"Authorized", "Provisioning", "Provisioned"}
Errors  == {"None", "InvalidRpc", "UnknownRpc", "UnableToConnect", "Unknown"}
Commands == {"WifiSettings", "GetCurrentState", "GetDeviceInfo",
             "GetWifiNetworks", "Identify"}
Requests == Commands \cup {"Malformed", "Unsupported"}
Bodies  == {"info", "ap", "empty", "url", "url-without-ip"}
Callbacks == {"onConnected", "onError"}

Rpc(c)         == [kind |-> "rpc", arg |-> c, body |-> ""]
StateFrame(s)  == [kind |-> "state", arg |-> s, body |-> ""]
ErrorFrame(e)  == [kind |-> "error", arg |-> e, body |-> ""]
Response(c, b) == [kind |-> "response", arg |-> c, body |-> b]
Callback(f)    == [kind |-> "callback", arg |-> f, body |-> ""]

Entries == {Rpc(c) : c \in Requests} \cup {StateFrame(s) : s \in States}
           \cup {ErrorFrame(e) : e \in Errors}
           \cup {Response(c, b) : c \in Commands, b \in Bodies}
           \cup {Callback(f) : f \in Callbacks}

Terminator == Response("GetWifiNetworks", "empty")
ApFrame    == Response("GetWifiNetworks", "ap")

\* emitRpcResponse_(): a response that does not fit one frame is replaced by an
\* error frame.
Reply(fits, c, b) == IF fits THEN Response(c, b) ELSE ErrorFrame("Unknown")

-----------------------------------------------------------------------------
(* The WiFiBackend interface *)

kScanRunning == -1
kScanFailed  == -2

\* What scanResult() may say right after startScan().
ScanStarts == {kScanRunning, kScanFailed, 0}
\* What a running scan may become.
ScanOutcomes == {kScanFailed} \cup 0..MaxAps
\* What scanResult() says after clearScan().
Cleared == 0

\* ImprovWiFi::isConnected()
IsConnected == hasBackend /\ linkUp

-----------------------------------------------------------------------------
Init ==
  /\ armed = TRUE /\ clockAnchored = FALSE /\ deadlineMs = 0
  /\ scanPhase = "Idle"
  /\ dev \in DeviceInfos /\ hasBackend \in BOOLEAN
  /\ pc = "loop" /\ urlCmd = "GetCurrentState"
  /\ linkUp \in BOOLEAN /\ scanResult = Cleared
  /\ log = <<>>
  /\ now \in BootTimes /\ anchor = now /\ lastTick = now

-----------------------------------------------------------------------------
(* tick() *)

\* Wrong on purpose, as every definition whose name begins with Bad: the runs
\* must notice when it takes the place of the definition that follows it.
BadDeadlineReanchored == Wrap(now + WindowMs)

Deadline == IF clockAnchored THEN deadlineMs ELSE Wrap(now + WindowMs)

BadExpired == Wrap(now) >= Deadline

Expired == Reached(Wrap(now), Deadline)

\* The first tick() anchors the window to the application's clock.
AnchorClock ==
  /\ clockAnchored' = TRUE
  /\ deadlineMs' = Deadline
  /\ anchor' = IF clockAnchored THEN anchor ELSE now

TickClosed ==
  /\ pc = "loop" /\ ~armed
  /\ lastTick' = now
  /\ UNCHANGED <<window, handler, backend, config, scanPhase, log, now, anchor>>

\* An outstanding scan is given back to the backend.
BadGiveBackScanKept   == scanPhase' = "Idle" /\ UNCHANGED scanResult
BadGiveBackScanPhase ==
  /\ scanResult' = IF scanPhase # "Idle" /\ hasBackend THEN Cleared ELSE scanResult
  /\ UNCHANGED scanPhase

GiveBackScan ==
  /\ scanResult' = IF scanPhase # "Idle" /\ hasBackend THEN Cleared ELSE scanResult
  /\ scanPhase' = "Idle"

\* The window closes; nothing is written.
TickExpires ==
  /\ pc = "loop" /\ armed /\ Expired
  /\ AnchorClock
  /\ armed' = FALSE
  /\ GiveBackScan
  /\ lastTick' = now
  /\ UNCHANGED <<handler, linkUp, config, log, now>>

\* pumpScan_() has nothing to report yet.
PumpNothing ==
  /\ scanPhase # "Awaiting" \/ ~hasBackend \/ scanResult = kScanRunning
  /\ UNCHANGED <<scanPhase, scanResult, log>>

\* Of n records at least none and at most n survive the removal of hidden and
\* of duplicate networks (ScanReport says which).
ApFrames(n) == UNION {[1..k -> {ApFrame}] : k \in 0..(IF n > 0 THEN n ELSE 0)}

BadPumpReportAgain ==
  /\ scanPhase = "Awaiting" /\ hasBackend /\ scanResult # kScanRunning
  /\ \E aps \in ApFrames(scanResult) : log' = log \o aps \o <<Terminator>>
  /\ scanResult' = Cleared
  /\ UNCHANGED scanPhase
BadPumpReportNoTerminator ==
  /\ scanPhase = "Awaiting" /\ hasBackend /\ scanResult # kScanRunning
  /\ \E aps \in ApFrames(scanResult) :
       log' = log \o aps \o (IF scanResult > 0 THEN <<Terminator>> ELSE <<>>)
  /\ scanResult' = Cleared
  /\ scanPhase' = "Idle"

\* pumpScan_() reports a finished scan: a frame per network, the terminator.
PumpReport ==
  /\ scanPhase = "Awaiting" /\ hasBackend /\ scanResult # kScanRunning
  /\ \E aps \in ApFrames(scanResult) : log' = log \o aps \o <<Terminator>>
  /\ scanResult' = Cleared
  /\ scanPhase' = "Idle"

TickPumps ==
  /\ pc = "loop" /\ armed /\ ~Expired
  /\ AnchorClock
  /\ PumpNothing \/ PumpReport
  /\ lastTick' = now
  /\ UNCHANGED <<armed, handler, linkUp, config, now>>

Tick == TickClosed \/ TickExpires \/ TickPumps

\* ImprovWiFi::windowMsRemaining(), for a reading of the counter.
BadWindowMsRemaining(nowW) ==
  IF ~armed THEN 0
  ELSE IF ~clockAnchored THEN WindowMs
  ELSE IF deadlineMs > nowW THEN deadlineMs - nowW ELSE 0

WindowMsRemaining(nowW) ==
  IF ~armed THEN 0
  ELSE IF ~clockAnchored THEN WindowMs
  ELSE LET delta == SignedDiff(deadlineMs, nowW) IN IF delta > 0 THEN delta ELSE 0

-----------------------------------------------------------------------------
(* feedByte() with the last byte of a frame: one action per command *)

NumRequests == Cardinality({i \in DOMAIN log : log[i].kind = "rpc"})

BadReceive(c, frames) ==
  /\ pc = "loop"
  /\ NumRequests < MaxRequests
  /\ log' = log \o <<Rpc(c)>> \o frames
  /\ UNCHANGED <<window, clock, config, linkUp>>

\* The request enters the log, followed by what the handler writes at once.
Receive(c, frames) ==
  /\ pc = "loop" /\ armed
  /\ NumRequests < MaxRequests
  /\ log' = log \o <<Rpc(c)>> \o frames
  /\ UNCHANGED <<window, clock, config, linkUp>>

Stay == UNCHANGED <<handler, scanResult, scanPhase>>

SuspendAt(point, c) ==
  pc' = point /\ urlCmd' = c /\ UNCHANGED <<scanResult, scanPhase>>

GetCurrentStateConnected ==
  /\ IsConnected
  /\ Receive("GetCurrentState", <<StateFrame("Provisioned")>>)
  /\ SuspendAt("url", "GetCurrentState")

GetCurrentStateNotConnected ==
  /\ ~IsConnected
  /\ Receive("GetCurrentState", <<StateFrame("Authorized")>>)
  /\ Stay

\* handleWifiSettings_(): what is checked before anything is attempted.
LegalCredentials(ssidLen, pwLen) ==
  ssidLen \in 1..32 /\ (pwLen = 0 \/ pwLen \in 8..63)

WifiSettingsIllegal ==
  /\ \E s \in SsidLens, p \in PwLens : ~LegalCredentials(s, p)
  /\ Receive("WifiSettings", <<ErrorFrame("InvalidRpc")>>)
  /\ Stay

WifiSettingsNoBackend ==
  /\ \E s \in SsidLens, p \in PwLens : LegalCredentials(s, p)
  /\ ~hasBackend
  /\ Receive("WifiSettings", <<StateFrame("Provisioning"), ErrorFrame("Unknown")>>)
  /\ Stay

WifiSettingsConnect ==
  /\ \E s \in SsidLens, p \in PwLens : LegalCredentials(s, p)
  /\ hasBackend
  /\ Receive("WifiSettings", <<StateFrame("Provisioning")>>)
  /\ SuspendAt("connect", "WifiSettings")

GetDeviceInfo ==
  /\ Receive("GetDeviceInfo", <<Reply(dev.infoFits, "GetDeviceInfo", "info")>>)
  /\ Stay

\* A request while a scan is awaited starts the scan again.
GetWifiNetworks ==
  /\ hasBackend
  /\ Receive("GetWifiNetworks", <<>>)
  /\ scanResult' \in ScanStarts
  /\ scanPhase' = "Awaiting"
  /\ UNCHANGED handler

GetWifiNetworksNoBackend ==
  /\ ~hasBackend
  /\ Receive("GetWifiNetworks", <<Terminator>>)
  /\ Stay

Identify ==
  Receive("Identify", <<ErrorFrame("None")>>) /\ Stay

BadMalformed == Receive("Malformed", <<>>) /\ Stay

\* Wrong inner length, and the command ids the parser keeps for itself.
Malformed ==
  Receive("Malformed", <<ErrorFrame("InvalidRpc")>>) /\ Stay

Unsupported ==
  Receive("Unsupported", <<ErrorFrame("UnknownRpc")>>) /\ Stay

FeedFrame ==
  \/ GetCurrentStateConnected \/ GetCurrentStateNotConnected
  \/ WifiSettingsIllegal \/ WifiSettingsNoBackend \/ WifiSettingsConnect
  \/ GetDeviceInfo \/ GetWifiNetworks \/ GetWifiNetworksNoBackend
  \/ Identify \/ Malformed \/ Unsupported

-----------------------------------------------------------------------------
(* The second half of the handlers that were suspended *)

\* tryConnect() returned true: it has seen the link up.
ConnectSucceeds ==
  /\ pc = "connect" /\ linkUp
  /\ log' = log \o <<ErrorFrame("None"), StateFrame("Provisioned")>>
  /\ pc' = "url"
  /\ UNCHANGED <<window, urlCmd, backend, clock, config, scanPhase>>

BadConnectFails ==
  /\ pc = "connect"
  /\ log' = log \o <<ErrorFrame("UnableToConnect"), Callback("onError")>>
  /\ pc' = "loop"
  /\ UNCHANGED <<window, urlCmd, backend, clock, config, scanPhase>>

ConnectFails ==
  /\ pc = "connect"
  /\ log' = log \o <<ErrorFrame("UnableToConnect"), Callback("onError"),
                     StateFrame("Authorized")>>
  /\ pc' = "loop"
  /\ UNCHANGED <<window, urlCmd, backend, clock, config, scanPhase>>

\* emitDeviceUrl_() reads currentIp() now; only the WIFI_SETTINGS handler has
\* its callback still to make.
UrlBody == IF dev.url = "ip" /\ ~linkUp THEN "url-without-ip" ELSE "url"

SendUrl ==
  /\ pc = "url"
  /\ log' = log \o <<Reply(dev.url # "oversize", urlCmd, UrlBody)>>
                \o (IF urlCmd = "WifiSettings" THEN <<Callback("onConnected")>>
                                               ELSE <<>>)
  /\ pc' = "loop"
  /\ UNCHANGED <<window, urlCmd, backend, clock, config, scanPhase>>

-----------------------------------------------------------------------------
(* The application and the surroundings *)

SetDeviceInfo ==
  /\ pc = "loop"
  /\ dev' \in DeviceInfos
  /\ UNCHANGED <<window, handler, backend, clock, hasBackend, scanPhase, log>>

\* The radio gets an address, or loses it, whatever the main loop is doing.
LinkChanges ==
  /\ hasBackend
  /\ linkUp' = ~linkUp
  /\ UNCHANGED <<window, handler, scanResult, clock, config, scanPhase, log>>

ScanEnds ==
  /\ scanResult = kScanRunning
  /\ scanResult' \in ScanOutcomes
  /\ UNCHANGED <<window, handler, linkUp, clock, config, scanPhase, log>>

\* Time passes, for as long as the main loop may be away from tick().
Advance ==
  /\ now < MaxTime /\ now - lastTick < MaxGap
  /\ now' = now + 1
  /\ UNCHANGED <<window, handler, backend, anchor, lastTick, config, scanPhase, log>>

ConnectReturns == ConnectSucceeds \/ ConnectFails

Next ==
  \/ Tick \/ FeedFrame \/ ConnectReturns \/ SendUrl
  \/ SetDeviceInfo \/ LinkChanges \/ ScanEnds \/ Advance

Spec == Init /\ [][Next]_vars

\* The main loop keeps calling tick(), a blocking tryConnect() returns, a scan
\* ends, and time passes.
Fairness ==
  /\ WF_vars(Tick) /\ WF_vars(Advance) /\ WF_vars(ScanEnds)
  /\ WF_vars(ConnectReturns) /\ WF_vars(SendUrl)

FairSpec == Spec /\ Fairness
-----------------------------------------------------------------------------
(* Properties *)

TypeOK ==
  /\ armed \in BOOLEAN /\ clockAnchored \in BOOLEAN
  /\ deadlineMs \in 0..(ClockMod - 1)
  /\ scanPhase \in {"Idle", "Awaiting"}
  /\ dev \in DeviceInfos /\ hasBackend \in BOOLEAN
  /\ pc \in {"loop", "connect", "url"} /\ urlCmd \in Commands
  /\ linkUp \in BOOLEAN
  /\ scanResult \in ScanStarts \cup ScanOutcomes
  /\ log \in Seq(Entries)
  /\ now \in Nat /\ anchor \in Nat /\ lastTick \in Nat

\* What the user of the library was promised about the window.
Window == INSTANCE ProvisioningWindow
            WITH open <- armed, started <- clockAnchored, start <- anchor

\* Commands, suspended handlers, scans and the wrapping counter implement that
\* promise: the window closes at the first tick that finds WindowMs of true time
\* gone and at no other, for good, and the library is silent from then on
\* (improv_wifi.h:40-84).
ImplementsWindow == Window!Safety

\* The window is open exactly while less than WindowMs of true time lies between
\* the first tick() and the latest one, wherever the 32-bit counter wraps
\* (improv_wifi.cpp:33-45).
WindowExact == clockAnchored => (armed <=> lastTick - anchor < WindowMs)

\* windowMsRemaining() is the true time left, clamped at 0, across a wrap and
\* past a deadline that no tick() has noticed yet (improv_wifi.h:74-84).
RemainingHonest ==
  WindowMsRemaining(Wrap(now)) =
    IF ~armed THEN 0
    ELSE IF ~clockAnchored THEN WindowMs
    ELSE IF anchor + WindowMs > now THEN anchor + WindowMs - now
    ELSE 0

\* The window is only closed by tick(), so frames may follow its nominal end, but
\* by less than one absence of the main loop (improv_wifi.cpp:20-48).
LateFramesBounded ==
  [][log' # log /\ clockAnchored => now - anchor < WindowMs + MaxGap]_vars

\* The library does not hold the backend's scan, running or finished, when no
\* pumpScan_() will ever collect it, the window's end included
\* (improv_wifi.cpp:42-43, 255-256, 294-295).
ScanReleased == scanResult # Cleared => scanPhase = "Awaiting" /\ armed

\* A request for networks that no terminator has followed yet.
Unanswered(l) ==
  \E i \in DOMAIN l : /\ l[i] = Rpc("GetWifiNetworks")
                      /\ \A j \in (i + 1)..Len(l) : l[j] # Terminator

\* While the window is open the host is owed a scan list exactly when the library
\* remembers that it owes one, a restarted, failed or empty scan included; frames
\* of a list are only ever sent to a host that is owed one, and one terminator
\* ends it (improv_wifi.cpp:234-296).
OwedIsAwaited == armed => (Unanswered(log) <=> scanPhase = "Awaiting")
NoOrphanNetworks ==
  \A i \in DOMAIN log :
    log[i] \in {ApFrame, Terminator} => Unanswered(SubSeq(log, 1, i - 1))
ScanAccounting == OwedIsAwaited /\ NoOrphanNetworks

Answers(c) == {e \in Entries : \/ e.kind = "error"
                               \/ e.kind = "state" /\ e.arg # "Provisioning"
                               \/ e.kind = "response" /\ e.arg = c}

\* The answer to entry i of the log: before the next request, or still to come
\* from a handler that has not returned.
IsAnswered(i) ==
  \E j \in (i + 1)..(Len(log) + 1) :
    /\ \A k \in (i + 1)..(j - 1) : log[k].kind # "rpc"
    /\ IF j > Len(log) THEN pc # "loop" ELSE log[j] \in Answers(log[i].arg)

\* Between two requests, and when the main loop is back, the request before has
\* been answered, only a scan list may come later; and with a backend no handler
\* leaves the host at "provisioning", a later state follows
\* (improv_wifi.cpp:145-232).
AnsweredInOrder ==
  /\ \A i \in DOMAIN log :
       log[i].kind = "rpc" /\ log[i].arg # "GetWifiNetworks" => IsAnswered(i)
  /\ pc = "loop" /\ hasBackend =>
       \A i \in DOMAIN log :
         log[i] = StateFrame("Provisioning") =>
           \E j \in (i + 1)..Len(log) : log[j].kind = "state"

\* However long handlers block and scans take, the window of this boot ends, and
\* a scan that was awaited has been reported or given up by then
\* (improv_wifi.h:44-46).
WindowCloses == <>[](~armed /\ pc = "loop" /\ scanPhase = "Idle")

\* What the documentation says, and the code does not do.

\* "nullptr -> http://<ip>" (improv_wifi.h:27): a device URL has an address.
UrlHasIp == \A i \in DOMAIN log : log[i].body # "url-without-ip"
=============================================================================
