------------------------------ MODULE IdfScan ------------------------------
(* The scan half of EspIdfWiFiBackend (backend_idf.cpp) between two tasks: the *)
(* main loop calls startScan(), scanResult(), apRecord() and clearScan() as    *)
(* pumpScan_() does; the event task runs the SCAN_DONE handler.  Each store to *)
(* or load from a shared field is a step of its own.  The Wi-Fi driver and the *)
(* host application, which may scan too, are external.                         *)
EXTENDS Integers, Sequences

CONSTANTS
  BaseInits,     \* how far ensureBaseInit_() may have come
  MaxAps,        \* most access points one scan finds
  MaxRequests,   \* bound on the host's requests for networks
  MaxAppScans    \* bound on the application's own scans

\* ensureBaseInit_() runs once and gives up at its first error: before the event
\* handlers are bound, or after.
BaseOutcomes == {"unbound", "bound", "ready"}

ASSUME BaseAssumption == BaseInits \subseteq BaseOutcomes
ASSUME BoundsAssumption ==
  MaxAps \in Nat /\ MaxRequests \in Nat /\ MaxAppScans \in Nat

VARIABLES
  base,        \* baseInit_ and eventsBound_
  running, failed, count,   \* scanRunning_, scanFailed_, scanCount_: atomics
  cache,       \* size of scanCache_, a plain vector
  awaiting,    \* the core's scanPhase_ is Awaiting
  mpc, result, \* main task: next step, and what scanResult() has returned
  epc, got,    \* event task: next step of the handler, and its apCount
  scanBy,      \* driver: who its running scan belongs to
  list,        \* driver: the finished list, until it is handed out
  events,      \* SCAN_DONE events not yet dispatched, by owner of the scan
  found,       \* what the library's latest scan found; None before it ends
  asked, appScans,
  overlapped,  \* a scan of the application has met one of the library
  restarted    \* the host has asked again before a scan was over

flags  == <<running, failed, count, cache>>
main   == <<awaiting, mpc, result, asked, restarted>>
event  == <<epc, got>>
driver == <<scanBy, list, events, found>>
app    == <<appScans, overlapped>>
vars   == <<base, flags, main, event, driver, app>>

None == -1
kScanRunning == -1
kScanFailed  == -2
Owners == {"lib", "app"}
NoList == [owner |-> "none", aps |-> 0]

Init ==
  /\ base \in BaseInits
  /\ running = FALSE /\ failed = FALSE /\ count = 0 /\ cache = 0
  /\ awaiting = FALSE /\ mpc = "loop" /\ result = 0 /\ asked = 0
  /\ epc = "idle" /\ got = 0
  /\ scanBy = "none" /\ list = NoList /\ events = <<>> /\ found = None
  /\ appScans = 0 /\ overlapped = FALSE /\ restarted = FALSE

-----------------------------------------------------------------------------
(* Main task *)

\* The application's scan is running, or its result not dispatched yet.
Pending(owner) == scanBy = owner \/ owner \in {events[i] : i \in DOMAIN events}
AppPending == Pending("app")
\* The library's is, or its report is still to come.
LibPending == Pending("lib") \/ awaiting \/ mpc # "loop"

\* GET_WIFI_NETWORKS arrives.
Request ==
  /\ mpc = "loop" /\ asked < MaxRequests
  /\ asked' = asked + 1
  /\ mpc' = "start"
  /\ restarted' = (restarted \/ LibPending)
  /\ overlapped' = (overlapped \/ AppPending)
  /\ UNCHANGED <<base, flags, awaiting, result, event, driver, appScans>>

\* A store of the main task, and where it goes on.
Store(from, to) ==
  /\ mpc = from /\ mpc' = to
  /\ UNCHANGED <<base, result, asked, restarted, event, driver, app>>

ClearCache(from, to) ==
  Store(from, to) /\ cache' = 0 /\ UNCHANGED <<running, failed, count, awaiting>>
ZeroCount(from, to) ==
  Store(from, to) /\ count' = 0 /\ UNCHANGED <<running, failed, cache, awaiting>>
ClearFailed(from, to) ==
  Store(from, to) /\ failed' = FALSE /\ UNCHANGED <<running, count, cache, awaiting>>

\* startScan() without a driver returns at once; the core awaits a scan all the
\* same.
StartUnready ==
  /\ base # "ready"
  /\ Store("start", "loop") /\ awaiting' = TRUE
  /\ UNCHANGED flags

\* startScan(): reset the fields, then ask the driver.
StartScan ==
  \/ base = "ready" /\ ClearCache("start", "startZeroCount")
  \/ ZeroCount("startZeroCount", "startClearFailed")
  \/ ClearFailed("startClearFailed", "startSetRunning")
  \/ /\ Store("startSetRunning", "startDriver")
     /\ running' = TRUE
     /\ UNCHANGED <<failed, count, cache, awaiting>>

\* esp_wifi_scan_start() frees the list that nobody has taken; it may fail, and
\* does while another scan is running.
DriverAccepts ==
  /\ mpc = "startDriver" /\ scanBy = "none"
  /\ scanBy' = "lib" /\ list' = NoList /\ found' = None
  /\ awaiting' = TRUE /\ mpc' = "loop"
  /\ UNCHANGED <<base, flags, result, asked, restarted, event, events, app>>

BadDriverRefuses ==
  /\ mpc = "startDriver"
  /\ failed' = TRUE
  /\ awaiting' = TRUE /\ mpc' = "loop"
  /\ UNCHANGED <<base, running, count, cache, result, asked, restarted, event, driver, app>>

DriverRefuses ==
  /\ mpc = "startDriver"
  /\ running' = FALSE
  /\ mpc' = "startFailed"
  /\ UNCHANGED <<base, failed, count, cache, awaiting, result, asked, restarted, event, driver, app>>

StartFails ==
  /\ Store("startFailed", "loop")
  /\ failed' = TRUE
  /\ awaiting' = TRUE
  /\ UNCHANGED <<running, count, cache>>

\* A load of the main task that leads to step to.
Load(from, to) ==
  /\ mpc = from /\ mpc' = to
  /\ UNCHANGED <<base, flags, awaiting, asked, restarted, event, driver, app>>

\* pumpScan_() calls scanResult().
PumpIdle ==
  mpc = "loop" /\ ~awaiting /\ UNCHANGED vars
LoadRunning ==
  /\ awaiting
  /\ Load("loop", IF running THEN "loop" ELSE "loadFailed") /\ UNCHANGED result
LoadFailed ==
  /\ Load("loadFailed", IF failed THEN "report" ELSE "loadCount")
  /\ result' = IF failed THEN kScanFailed ELSE result
LoadCount ==
  Load("loadCount", "report") /\ result' = count

\* The core reads the records, if any, and writes the frames and the terminator.
Report ==
  Load("report", "clearClearCache") /\ UNCHANGED result

\* clearScan()
ClearScan ==
  \/ ClearCache("clearClearCache", "clearZeroCount")
  \/ ZeroCount("clearZeroCount", "clearClearFailed")
  \/ ClearFailed("clearClearFailed", "clearDropRunning")
  \/ /\ Store("clearDropRunning", "loop")
     /\ running' = FALSE /\ awaiting' = FALSE
     /\ UNCHANGED <<failed, count, cache>>

MainStep ==
  \/ StartUnready \/ StartScan \/ DriverAccepts \/ DriverRefuses \/ StartFails
  \/ LoadRunning \/ LoadFailed \/ LoadCount \/ Report \/ ClearScan

-----------------------------------------------------------------------------
(* Event task: the SCAN_DONE case of onWifiEvent_() *)

Dispatch ==
  /\ epc = "idle" /\ events # <<>>
  /\ epc' = IF base = "unbound" THEN "end" ELSE "check"
  /\ UNCHANGED <<base, flags, main, got, driver, app>>

\* A step of the handler.
Handle(from, to) ==
  /\ epc = from /\ epc' = to
  /\ UNCHANGED <<base, main, scanBy, events, found, app>>

BadCheckRunning ==
  Handle("check", "drop") /\ UNCHANGED <<flags, got, list>>

CheckRunning ==
  Handle("check", IF running THEN "drop" ELSE "end") /\ UNCHANGED <<flags, got, list>>

DropRunning ==
  /\ Handle("drop", "number")
  /\ running' = FALSE
  /\ UNCHANGED <<failed, count, cache, got, list>>

BadGetNumber ==
  /\ Handle("number", IF list.aps > 0 THEN "assign" ELSE "zero")
  /\ got' = list.aps /\ count' = list.aps
  /\ UNCHANGED <<running, failed, cache, list>>

\* esp_wifi_scan_get_ap_num(), which may fail.
GetNumber ==
  /\ Handle("number", IF list.aps > 0 THEN "assign" ELSE "zero")
  /\ got' = list.aps
  /\ UNCHANGED <<flags, list>>
GetNumberFails ==
  Handle("number", "zero") /\ UNCHANGED <<flags, got, list>>

AssignCache ==
  /\ Handle("assign", "records")
  /\ cache' = got
  /\ UNCHANGED <<running, failed, count, got, list>>

\* esp_wifi_scan_get_ap_records() hands the list out once and frees it, or fails.
GetRecords ==
  /\ Handle("records", "count")
  /\ list' = NoList
  /\ UNCHANGED <<flags, got>>
GetRecordsFails ==
  /\ Handle("records", "zero")
  /\ failed' = TRUE
  /\ UNCHANGED <<running, count, cache, got, list>>

StoreCount ==
  /\ Handle("count", "end")
  /\ count' = got
  /\ UNCHANGED <<running, failed, cache, got, list>>
StoreZero ==
  /\ Handle("zero", "end")
  /\ count' = 0
  /\ UNCHANGED <<running, failed, cache, got, list>>

\* The handler is over; the application's handler takes the list of its own scan.
HandlerEnds ==
  /\ epc = "end" /\ epc' = "idle"
  /\ events' = Tail(events)
  /\ list' = IF Head(events) = "app" /\ list.owner = "app" THEN NoList ELSE list
  /\ UNCHANGED <<base, flags, main, got, scanBy, found, app>>

EventStep ==
  \/ Dispatch \/ CheckRunning \/ DropRunning \/ GetNumber \/ GetNumberFails
  \/ AssignCache \/ GetRecords \/ GetRecordsFails \/ StoreCount \/ StoreZero \/ HandlerEnds

-----------------------------------------------------------------------------
(* The driver and the application *)

ScanEnds ==
  /\ scanBy # "none"
  /\ \E n \in 0..MaxAps :
       /\ list' = [owner |-> scanBy, aps |-> n]
       /\ found' = IF scanBy = "lib" THEN n ELSE found
  /\ events' = Append(events, scanBy)
  /\ scanBy' = "none"
  /\ UNCHANGED <<base, flags, main, event, app>>

AppScans ==
  /\ appScans < MaxAppScans
  /\ scanBy = "none"
  /\ overlapped' = (overlapped \/ LibPending)
  /\ scanBy' = "app" /\ list' = NoList
  /\ appScans' = appScans + 1
  /\ UNCHANGED <<base, flags, main, event, events, found>>

Next == Request \/ MainStep \/ PumpIdle \/ EventStep \/ ScanEnds \/ AppScans

Spec == Init /\ [][Next]_vars

\* Both tasks are scheduled, and the driver ends every scan.
FairSpec ==
  Spec /\ WF_vars(MainStep) /\ WF_vars(EventStep) /\ WF_vars(ScanEnds)

-----------------------------------------------------------------------------
(* Properties *)

TypeOK ==
  /\ running \in BOOLEAN /\ failed \in BOOLEAN
  /\ count \in 0..MaxAps /\ cache \in 0..MaxAps
  /\ awaiting \in BOOLEAN /\ result \in {kScanFailed} \cup 0..MaxAps
  /\ got \in 0..MaxAps
  /\ scanBy \in Owners \cup {"none"}
  /\ list \in [owner : Owners \cup {"none"}, aps : 0..MaxAps]
  /\ events \in Seq(Owners)
  /\ found \in {None} \cup 0..MaxAps
  /\ overlapped \in BOOLEAN /\ restarted \in BOOLEAN
  /\ asked \in 0..MaxRequests /\ appScans \in 0..MaxAppScans

\* As long as the two never scan at the same time, the handler leaves the list of
\* the application's scan to the application (backend_idf.cpp:95-99).
OnlyOwnScans ==
  ~overlapped => (epc \in {"assign", "records"} => list.owner # "app")

\* While the main task reads the records it was promised, the vector is not being
\* reassigned and has them all, unless the host has asked again before the scan's
\* handler was done (backend_idf.cpp:103-106, 250-258).
RecordsStable ==
  mpc = "report" /\ result > 0 /\ ~overlapped /\ ~restarted =>
    epc \notin {"assign", "records"} /\ cache >= result

\* A scan that was started is reported, whatever handler steps come between
\* (backend_idf.cpp:99-100, 237-241; improv_wifi.cpp:246-296).
ScanAnswered == awaiting ~> ~awaiting

\* A count that scanResult() returns is what the scan found.
TruthfulReport == mpc = "report" /\ result >= 0 => result = found
=============================================================================
