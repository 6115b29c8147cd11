---------------------------- MODULE IdfScanProofs ----------------------------
(* Proofs about IdfScan, for every number of requests, scans and access points.*)
EXTENDS IdfScan, SequenceTheorems, TLAPS

LEMMA AppendElems ==
  ASSUME NEW S, NEW s \in Seq(S), NEW e \in S, NEW x
  PROVE  (\E i \in DOMAIN Append(s, e) : Append(s, e)[i] = x)
           <=> (x = e \/ \E i \in DOMAIN s : s[i] = x)
<1>1. DOMAIN Append(s, e) = 1..(Len(s) + 1) /\ DOMAIN s = 1..Len(s) /\ Len(s) \in Nat
  OBVIOUS
<1>2. Append(s, e)[Len(s) + 1] = e /\ \A i \in 1..Len(s) : Append(s, e)[i] = s[i]
  OBVIOUS
<1> QED
  BY <1>1, <1>2

LEMMA TailElems ==
  ASSUME NEW S, NEW s \in Seq(S), s # <<>>, NEW x
  PROVE  (\E i \in DOMAIN s : s[i] = x)
           <=> (x = Head(s) \/ \E i \in DOMAIN Tail(s) : Tail(s)[i] = x)
<1>1. DOMAIN s = 1..Len(s) /\ DOMAIN Tail(s) = 1..(Len(s) - 1) /\ Len(s) \in Nat \ {0}
  OBVIOUS
<1>2. Head(s) = s[1] /\ \A i \in 1..(Len(s) - 1) : Tail(s)[i] = s[i + 1]
  OBVIOUS
<1>3. ASSUME NEW i \in DOMAIN s, s[i] = x, x # Head(s)
      PROVE  \E j \in DOMAIN Tail(s) : Tail(s)[j] = x
  <2>1. i - 1 \in 1..(Len(s) - 1) /\ (i - 1) + 1 = i
    BY <1>1, <1>2, <1>3
  <2> QED
    BY <1>1, <1>2, <1>3, <2>1
<1>4. ASSUME NEW j \in DOMAIN Tail(s), Tail(s)[j] = x
      PROVE  \E i \in DOMAIN s : s[i] = x
  <2>1. j + 1 \in 1..Len(s)
    BY <1>1, <1>4
  <2> QED
    BY <1>1, <1>2, <1>4, <2>1
<1>5. 1 \in DOMAIN s
  BY <1>1
<1> QED
  BY <1>2, <1>3, <1>4, <1>5, Zenon

-----------------------------------------------------------------------------
\* An event of this owner is still to be dispatched, or being handled.
Posted(owner) == \E i \in DOMAIN events : events[i] = owner

\* The steps in which the handler takes the list for the library's.
Collecting == {"drop", "number", "assign", "records", "count", "zero"}

Running    == running => awaiting \/ mpc # "loop"
Apart      == ~overlapped => ~AppPending \/ ~LibPending
AppListed  == list.owner = "app" => Posted("app")
LibHandled == ~overlapped /\ epc \in Collecting => Head(events) = "lib"

\* A handler that has collected, or nothing left to collect.
Collected == scanBy # "lib" /\ epc \in {"idle", "end"} /\ (epc = "idle" => events = <<>>)

Starting == {"start", "startZeroCount", "startClearFailed", "startSetRunning", "startDriver",
             "startFailed"}
Reading  == {"loadFailed", "loadCount", "report"}
Clearing == {"clearClearCache", "clearZeroCount", "clearClearFailed", "clearDropRunning"}

\* Without a driver no scan is ever started.
NoDriver ==
  base # "ready" =>
    count = 0 /\ ~running /\ epc \notin Collecting /\ mpc \notin Starting \ {"start"}

\* A scan that is started alone meets an idle driver and an idle handler, and the
\* count stays zero until its one handler has filled the vector.
AloneInv ==
  /\ mpc \in Starting => events = <<>> /\ scanBy = "none"
  /\ mpc \in Starting \ {"start", "startZeroCount"} => count = 0
  /\ awaiting /\ mpc \in {"loop"} \cup Reading =>
       /\ Len(events) <= 1 /\ (scanBy = "lib" => events = <<>>)
       /\ epc \in {"records", "count"} => cache = got
       /\ count > 0 => Collected /\ cache >= count
       /\ mpc = "report" /\ result > 0 => Collected /\ cache >= result

ScanInv ==
  /\ mpc \in {"loop"} \cup Starting \cup Reading \cup Clearing
  /\ mpc \in Reading \cup Clearing => awaiting
  /\ NoDriver
  /\ ~overlapped /\ ~restarted => AloneInv

\* The library and the application exclude each other as long as their scans do not
\* overlap: a handler that collects is about a scan of the library, and then the
\* list cannot be one of the application's.
IInv ==
  /\ TypeOK
  /\ epc # "idle" => events # <<>>
  /\ Running /\ Apart /\ AppListed /\ LibHandled

LEMMA PendingPosted ==
  ASSUME NEW owner PROVE Pending(owner) <=> scanBy = owner \/ Posted(owner)
BY DEF Pending, Posted

LEMMA PendingPostedNext ==
  ASSUME NEW owner PROVE Pending(owner)' <=> scanBy' = owner \/ Posted(owner)'
BY DEF Pending, Posted

LEMMA HeadPosted ==
  ASSUME TypeOK, events # <<>> PROVE Posted(Head(events)) /\ Head(events) \in Owners
<1>1. 1 \in DOMAIN events /\ Head(events) = events[1]
  BY DEF TypeOK
<1> QED
  BY <1>1 DEF TypeOK, Posted

LEMMA InitIInv == Init => IInv
<1> SUFFICES ASSUME Init PROVE IInv
  OBVIOUS
<1>z. /\ 0 \in 0..MaxAps /\ 0 \in 0..MaxRequests /\ 0 \in 0..MaxAppScans
      /\ <<>> \in Seq(Owners)
      /\ NoList \in [owner : Owners \cup {"none"}, aps : 0..MaxAps]
  BY BoundsAssumption DEF NoList
<1>1. TypeOK /\ epc = "idle"
  BY <1>z DEF Init, TypeOK
<1>2. ~Posted("app")
  BY DEF Init, Posted
<1>3. ~AppPending
  BY <1>2, PendingPosted DEF Init, AppPending
<1> QED
  BY <1>1, <1>3 DEF Init, IInv, NoList, Running, Apart, AppListed, LibHandled, Collecting

\* A step that leaves the driver's scans and events, the handler and the
\* application alone keeps what is known of them.
LEMMA MainKeeps ==
  ASSUME IInv, TypeOK', UNCHANGED <<event, driver, app>>, Running',
         LibPending' => LibPending
  PROVE  IInv'
<1>1. AppPending' <=> AppPending
  BY PendingPosted, PendingPostedNext DEF AppPending, driver, Posted
<1> QED
  BY <1>1 DEF IInv, Apart, AppListed, LibHandled, Posted, event, driver, app

LEMMA MainStepIInv == IInv /\ MainStep => IInv'
<1> SUFFICES ASSUME IInv, MainStep PROVE IInv'
  OBVIOUS
<1>0. TypeOK /\ Running
  BY DEF IInv
<1>z. 0 \in 0..MaxAps /\ NoList \in [owner : Owners \cup {"none"}, aps : 0..MaxAps]
  BY BoundsAssumption DEF NoList
<1>1. CASE StartUnready \/ StartScan \/ StartFails \/ ClearScan
  <2>1. UNCHANGED <<event, driver, app, result, asked, restarted>>
    BY <1>1 DEF StartUnready, StartScan, StartFails, ClearScan, Store, ClearCache, ZeroCount, ClearFailed
  <2>2. /\ running' \in BOOLEAN /\ failed' \in BOOLEAN /\ awaiting' \in BOOLEAN
        /\ count' \in 0..MaxAps /\ cache' \in 0..MaxAps
    BY <1>0, <1>z, <1>1
    DEF TypeOK, flags, StartUnready, StartScan, StartFails, ClearScan, Store, ClearCache, ZeroCount, ClearFailed
  <2>3. TypeOK'
    BY <1>0, <2>1, <2>2 DEF TypeOK, event, driver, app
  <2>4. Running' /\ mpc # "loop"
    BY <1>0, <1>1 DEF Running, flags, StartUnready, StartScan, StartFails, ClearScan, Store, ClearCache, ZeroCount, ClearFailed
  <2> QED
    BY <2>1, <2>3, <2>4, MainKeeps DEF LibPending
<1>2. CASE LoadRunning \/ LoadFailed \/ LoadCount \/ Report
  <2> USE <1>2 DEF LoadRunning, LoadFailed, LoadCount, Report, Load
  <2>1. UNCHANGED <<event, driver, app>>
    OBVIOUS
  <2>2. TypeOK'
    BY <1>0 DEF TypeOK, kScanFailed, flags, event, driver, app
  <2>3. Running' /\ (awaiting \/ mpc # "loop")
    BY <1>0 DEF Running, flags
  <2> QED
    BY <2>1, <2>2, <2>3, MainKeeps DEF LibPending
<1>3. CASE DriverRefuses
  <2> USE <1>3 DEF DriverRefuses
  <2>1. TypeOK' /\ Running' /\ mpc # "loop"
    BY <1>0 DEF TypeOK, Running, event, driver, app
  <2> QED
    BY <2>1, MainKeeps DEF LibPending
<1>4. CASE DriverAccepts
  <2> USE <1>4 DEF DriverAccepts
  <2>1. TypeOK'
    BY <1>0, <1>z DEF TypeOK, None, Owners, flags, event, app
  <2>2. Running'
    BY DEF Running
  <2>3. ~overlapped => ~AppPending'
    BY PendingPosted, PendingPostedNext DEF IInv, Apart, AppPending, LibPending, Posted
  <2> QED
    BY <2>1, <2>2, <2>3 DEF IInv, Apart, AppListed, LibHandled, NoList, event, app
<1> QED
  BY <1>1, <1>2, <1>3, <1>4 DEF MainStep

LEMMA RequestIInv == IInv /\ Request => IInv'
<1> SUFFICES ASSUME IInv, Request PROVE IInv'
  OBVIOUS
<1>1. TypeOK
  BY DEF IInv
<1>2. TypeOK'
  BY <1>1, BoundsAssumption DEF TypeOK, Request, flags, event, driver
<1>3. Running' /\ epc' = epc /\ UNCHANGED <<events, list, scanBy>>
  BY DEF Running, Request, event, driver
<1>4. ~overlapped' => ~AppPending'
  BY <1>3, PendingPosted, PendingPostedNext DEF AppPending, Request, Posted
<1>5. ~overlapped' => ~overlapped
  BY <1>1 DEF Request, TypeOK
<1> QED
  BY <1>2, <1>3, <1>4, <1>5 DEF IInv, Apart, AppListed, LibHandled, Posted

\* While the scans do not overlap, an event that is handled when a scan of the
\* library is under way, or while it is the library's, is not the application's.
LEMMA HandlerApart ==
  ASSUME IInv, ~overlapped, events # <<>>, LibPending \/ Head(events) = "lib"
  PROVE  Head(events) = "lib" /\ ~AppPending
<1>1. Posted(Head(events)) /\ Head(events) \in Owners
  BY HeadPosted DEF IInv
<1>2. LibPending
  BY <1>1, PendingPosted DEF LibPending
<1>3. ~AppPending
  BY <1>2 DEF IInv, Apart
<1>4. ~Posted("app")
  BY <1>3, PendingPosted DEF AppPending
<1> QED
  BY <1>1, <1>3, <1>4 DEF Owners

\* A step of the handler before its end: the events stay, and so does whose list it
\* is unless the list is handed out.
LEMMA HandlerKeeps ==
  ASSUME IInv, TypeOK', Running', UNCHANGED <<main, scanBy, events, app>>,
         epc # "idle", list'.owner \in {list.owner, "none"}, LibHandled'
  PROVE  IInv'
<1>1. (AppPending' <=> AppPending) /\ (LibPending' <=> LibPending)
  BY PendingPosted, PendingPostedNext DEF AppPending, LibPending, Posted, main
<1> QED
  BY <1>1 DEF IInv, Apart, AppListed, Posted, app

LEMMA HandleIInv ==
  ASSUME IInv, NEW from, NEW to, Handle(from, to), epc # "idle",
         running' \in {running, FALSE}, failed' \in BOOLEAN,
         count' \in 0..MaxAps, cache' \in 0..MaxAps, got' \in 0..MaxAps,
         list' \in {list, NoList},
         to \in Collecting => from \in Collecting \/ running
  PROVE  IInv'
<1>1. TypeOK /\ Running
  BY DEF IInv
<1>2. UNCHANGED <<main, scanBy, events, found, app>> /\ epc = from /\ epc' = to
  BY DEF Handle
<1>3. NoList \in [owner : Owners \cup {"none"}, aps : 0..MaxAps]
  BY BoundsAssumption DEF NoList
<1>4. TypeOK'
  <2>1. running' \in BOOLEAN /\ list' \in [owner : Owners \cup {"none"}, aps : 0..MaxAps]
    BY <1>1, <1>3 DEF TypeOK
  <2> QED
    BY <1>1, <1>2, <2>1 DEF TypeOK, main, app
<1>5. Running'
  BY <1>1, <1>2 DEF Running, main, TypeOK
<1>6. LibHandled'
  <2>1. CASE ~overlapped /\ to \in Collecting
    <3>1. events # <<>>
      BY DEF IInv
    <3>2. LibPending \/ Head(events) = "lib"
      BY <1>1, <1>2, <2>1 DEF IInv, LibHandled, Running, LibPending
    <3> QED
      BY <1>2, <2>1, <3>1, <3>2, HandlerApart DEF LibHandled, app
  <2> QED
    BY <1>2, <2>1 DEF LibHandled, app
<1>7. list'.owner \in {list.owner, "none"}
  BY DEF NoList
<1> QED
  BY <1>2, <1>4, <1>5, <1>6, <1>7, HandlerKeeps

LEMMA EventStepIInv == IInv /\ EventStep => IInv'
<1> SUFFICES ASSUME IInv, EventStep PROVE IInv'
  OBVIOUS
<1>0. /\ running \in BOOLEAN /\ failed \in BOOLEAN
      /\ count \in 0..MaxAps /\ cache \in 0..MaxAps /\ got \in 0..MaxAps
      /\ list.aps \in 0..MaxAps /\ 0 \in 0..MaxAps
  BY BoundsAssumption DEF IInv, TypeOK
<1>1. CASE Dispatch
  <2>1. TypeOK' /\ Running'
    BY <1>1 DEF Dispatch, IInv, TypeOK, Running, flags, main, driver, app
  <2>2. (AppPending' <=> AppPending) /\ (LibPending' <=> LibPending)
    BY <1>1, PendingPosted, PendingPostedNext
    DEF Dispatch, AppPending, LibPending, Posted, main, driver
  <2> QED
    BY <1>1, <2>1, <2>2
    DEF Dispatch, IInv, Apart, AppListed, LibHandled, Collecting, Posted, driver, app
<1>2. CASE CheckRunning \/ DropRunning
  BY <1>0, <1>2, HandleIInv DEF CheckRunning, DropRunning, Handle, flags, Collecting
<1>3. CASE GetNumber \/ GetNumberFails
  BY <1>0, <1>3, HandleIInv DEF GetNumber, GetNumberFails, Handle, flags, Collecting
<1>4. CASE AssignCache \/ GetRecords \/ GetRecordsFails
  BY <1>0, <1>4, HandleIInv DEF AssignCache, GetRecords, GetRecordsFails, Handle, flags, Collecting
<1>5. CASE StoreCount \/ StoreZero
  BY <1>0, <1>5, HandleIInv DEF StoreCount, StoreZero, Handle, flags, Collecting
<1>6. CASE HandlerEnds
  <2>1. events # <<>> /\ events' = Tail(events) /\ events \in Seq(Owners)
    BY <1>6 DEF HandlerEnds, IInv, TypeOK
  <2>2. \A o : Posted(o) <=> o = Head(events) \/ Posted(o)'
    BY <2>1, TailElems DEF Posted
  <2>3. NoList \in [owner : Owners \cup {"none"}, aps : 0..MaxAps] /\ Tail(events) \in Seq(Owners)
    BY <1>0, <2>1 DEF NoList
  <2>4. TypeOK'
    BY <1>6, <2>3 DEF HandlerEnds, IInv, TypeOK, flags, main, app
  <2>5. Running' /\ AppListed'
    BY <1>6, <2>2 DEF HandlerEnds, IInv, Running, AppListed, NoList, flags, main
  <2>6. (AppPending' => AppPending) /\ (LibPending' => LibPending)
    BY <1>6, <2>2, PendingPosted, PendingPostedNext
    DEF HandlerEnds, AppPending, LibPending, main
  <2> QED
    BY <1>6, <2>4, <2>5, <2>6 DEF HandlerEnds, IInv, Apart, LibHandled, Collecting, app
<1> QED
  BY <1>1, <1>2, <1>3, <1>4, <1>5, <1>6 DEF EventStep

LEMMA ScanEndsIInv == IInv /\ ScanEnds => IInv'
<1> SUFFICES ASSUME IInv, ScanEnds PROVE IInv'
  OBVIOUS
<1>1. scanBy \in Owners /\ events \in Seq(Owners)
  BY DEF ScanEnds, IInv, TypeOK
<1>2. \A o : Posted(o)' <=> o = scanBy \/ Posted(o)
  BY <1>1, AppendElems DEF ScanEnds, Posted
<1>3. /\ Append(events, scanBy) \in Seq(Owners) /\ Append(events, scanBy) # <<>>
      /\ events # <<>> => Head(Append(events, scanBy)) = Head(events)
  <2>1. Append(events, scanBy) \in Seq(Owners) /\ Append(events, scanBy) # <<>>
    BY <1>1, AppendProperties
  <2>2. Head(Append(events, scanBy)) = Append(events, scanBy)[1]
    BY <2>1
  <2>3. events # <<>> => Len(events) >= 1 /\ Head(events) = events[1]
    BY <1>1
  <2>4. Len(events) >= 1 => Append(events, scanBy)[1] = events[1]
    BY <1>1
  <2> QED
    BY <2>1, <2>2, <2>3, <2>4
<1>4. PICK n \in 0..MaxAps : /\ list' = [owner |-> scanBy, aps |-> n]
                             /\ found' = IF scanBy = "lib" THEN n ELSE found
  BY DEF ScanEnds
<1>5. list' \in [owner : Owners \cup {"none"}, aps : 0..MaxAps]
  BY <1>1, <1>4
<1>6. TypeOK'
  BY <1>3, <1>4, <1>5 DEF ScanEnds, IInv, TypeOK, flags, main, event, app
<1>7. Running' /\ AppListed'
  BY <1>2, <1>4 DEF ScanEnds, IInv, Running, AppListed, flags, main
<1>8. (AppPending' <=> AppPending) /\ (LibPending' <=> LibPending)
  BY <1>1, <1>2, PendingPosted, PendingPostedNext
  DEF ScanEnds, AppPending, LibPending, main, Owners
<1> QED
  BY <1>3, <1>6, <1>7, <1>8
  DEF ScanEnds, IInv, Apart, LibHandled, Collecting, event, app

LEMMA AppScansIInv == IInv /\ AppScans => IInv'
<1> SUFFICES ASSUME IInv, AppScans PROVE IInv'
  OBVIOUS
<1>1. NoList \in [owner : Owners \cup {"none"}, aps : 0..MaxAps] /\ appScans' \in 0..MaxAppScans
  BY BoundsAssumption DEF AppScans, IInv, TypeOK, NoList
<1>2. TypeOK'
  BY <1>1 DEF AppScans, IInv, TypeOK, Owners, flags, main, event
<1>3. ~overlapped' => ~overlapped /\ ~LibPending
  BY DEF AppScans, IInv, TypeOK
<1>4. scanBy = "none" => (LibPending' <=> LibPending)
  BY PendingPosted, PendingPostedNext DEF AppScans, LibPending, Posted, main
<1> QED
  BY <1>2, <1>3, <1>4
  DEF AppScans, IInv, Running, Apart, AppListed, LibHandled, NoList, flags, main, event

LEMMA NextIInv == IInv /\ [Next]_vars => IInv'
<1> SUFFICES ASSUME IInv, [Next]_vars PROVE IInv'
  OBVIOUS
<1>1. CASE PumpIdle \/ UNCHANGED vars
  BY <1>1
  DEF PumpIdle, IInv, TypeOK, Running, Apart, AppPending, LibPending, Pending, AppListed,
      LibHandled, Posted, vars, flags, main, event, driver, app
<1> QED
  BY <1>1, RequestIInv, MainStepIInv, EventStepIInv, ScanEndsIInv, AppScansIInv DEF Next

-----------------------------------------------------------------------------
(* A scan that meets no other *)

LEMMA InitScanInv == Init => ScanInv
<1> SUFFICES ASSUME Init PROVE ScanInv
  OBVIOUS
<1>1. NoDriver
  BY DEF Init, NoDriver, Collecting, Starting
<1>2. AloneInv
  BY DEF Init, AloneInv, Starting, Reading
<1> QED
  BY <1>1, <1>2 DEF Init, ScanInv, Reading, Clearing

LEMMA NothingPending ==
  ASSUME TypeOK, ~AppPending, ~Pending("lib") PROVE events = <<>> /\ scanBy = "none"
BY HeadPosted, PendingPosted DEF TypeOK, AppPending, Owners

LEMMA RequestScanInv == ASSUME IInv, ScanInv, Request PROVE ScanInv'
<1>1. TypeOK /\ mpc' = "start" /\ UNCHANGED <<base, flags, awaiting, result, event, driver>>
  BY DEF IInv, Request
<1>2. ~overlapped' /\ ~restarted' => ~AppPending /\ ~Pending("lib") /\ ~awaiting
  BY <1>1 DEF Request, LibPending, TypeOK
<1>3. ~overlapped' /\ ~restarted' => AloneInv'
  BY <1>1, <1>2, NothingPending DEF AloneInv, Starting, Reading, driver
<1>4. NoDriver'
  BY <1>1 DEF ScanInv, NoDriver, flags, event
<1> QED
  BY <1>1, <1>3, <1>4 DEF ScanInv, Starting, Reading, Clearing

\* A store or load of the main task leaves the handler and the driver alone.
LEMMA MainScanInv == ASSUME IInv, IInv', ScanInv, MainStep PROVE ScanInv'
<1>1. /\ TypeOK /\ TypeOK' /\ (epc # "idle" => events # <<>>) /\ ScanInv
      /\ UNCHANGED <<base, asked, restarted, event, events, app>>
  BY DEF IInv, MainStep, StartUnready, StartScan, StartFails, ClearScan, Store, ClearCache,
         ZeroCount, ClearFailed, LoadRunning, LoadFailed, LoadCount, Report, Load,
         DriverAccepts, DriverRefuses, driver
<1> USE DEF ScanInv, AloneInv, NoDriver, Starting, Reading, Clearing, flags, event, app
<1>2. CASE StartUnready
  BY <1>1, <1>2 DEF StartUnready, Store, driver
<1>3. CASE StartScan
  <2>1. UNCHANGED <<awaiting, result, driver>>
    BY <1>3 DEF StartScan, Store, ClearCache, ZeroCount, ClearFailed
  <2> QED
    BY <1>1, <1>3, <2>1 DEF StartScan, Store, ClearCache, ZeroCount, ClearFailed, driver
<1>4. CASE DriverAccepts
  BY <1>1, <1>4 DEF DriverAccepts
<1>5. CASE DriverRefuses
  BY <1>1, <1>5 DEF DriverRefuses, driver
<1>6. CASE StartFails
  BY <1>1, <1>6 DEF StartFails, Store, driver
<1>7. CASE LoadRunning \/ LoadFailed \/ LoadCount \/ Report
  BY <1>1, <1>7
  DEF LoadRunning, LoadFailed, LoadCount, Report, Load, Collected, driver, kScanFailed
<1>8. CASE ClearScan
  BY <1>1, <1>8 DEF ClearScan, Store, ClearCache, ZeroCount, ClearFailed, driver
<1> QED
  BY <1>2, <1>3, <1>4, <1>5, <1>6, <1>7, <1>8 DEF MainStep

LEMMA EventScanInv == ASSUME IInv, IInv', ScanInv, EventStep PROVE ScanInv'
<1>1. /\ TypeOK /\ TypeOK' /\ ScanInv /\ events # <<>>
      /\ UNCHANGED <<base, main, scanBy, found, app>>
  BY DEF IInv, EventStep, Dispatch, CheckRunning, DropRunning, GetNumber, GetNumberFails, AssignCache,
         GetRecords, GetRecordsFails, StoreCount, StoreZero, HandlerEnds, Handle, driver
<1>2. Len(events) \in Nat \ {0} /\ Len(Tail(events)) = Len(events) - 1
      /\ (Len(events) = 1 => Tail(events) = <<>>)
  <2>1. events \in Seq(Owners) /\ Len(events) \in Nat \ {0}
    BY <1>1 DEF TypeOK
  <2>2. Tail(events) \in Seq(Owners) /\ Len(Tail(events)) = Len(events) - 1
    BY <1>1, <2>1, HeadTailProperties
  <2>3. Len(Tail(events)) = 0 => Tail(events) = <<>>
    BY <2>2, EmptySeq
  <2> QED
    BY <2>1, <2>2, <2>3
<1>3. CASE epc = "end" \/ epc = "idle"
  <2>1. HandlerEnds \/ Dispatch
    BY <1>3 DEF EventStep, CheckRunning, DropRunning, GetNumber, GetNumberFails, AssignCache,
                GetRecords, GetRecordsFails, StoreCount, StoreZero, Handle
  <2>2. UNCHANGED flags /\ got' = got
    BY <2>1 DEF HandlerEnds, Dispatch
  <2>3. NoDriver'
    BY <1>1, <2>1, <2>2 DEF HandlerEnds, Dispatch, ScanInv, NoDriver, Collecting, flags, main
  <2>4. ~overlapped /\ ~restarted => AloneInv'
    BY <1>1, <1>2, <2>1, <2>2
    DEF HandlerEnds, Dispatch, ScanInv, AloneInv, Collected, Starting, Reading, flags, main, driver
  <2> QED
    BY <1>1, <2>3, <2>4 DEF ScanInv, main, app
<1>4. CASE epc \notin {"end", "idle"}
  <2>1. events' = events /\ EventStep /\ ~HandlerEnds /\ ~Dispatch
    BY <1>4 DEF EventStep, CheckRunning, DropRunning, GetNumber, GetNumberFails, AssignCache,
                GetRecords, GetRecordsFails, StoreCount, StoreZero, Handle, HandlerEnds, Dispatch
  <2>2. NoDriver'
    BY <1>1, <2>1
    DEF EventStep, CheckRunning, DropRunning, GetNumber, GetNumberFails, AssignCache,
        GetRecords, GetRecordsFails, StoreCount, StoreZero, Handle, ScanInv, NoDriver, Collecting,
        flags, main
  <2>3. ~overlapped /\ ~restarted => AloneInv'
    BY <1>1, <1>4, <2>1
    DEF EventStep, CheckRunning, DropRunning, GetNumber, GetNumberFails, AssignCache,
        GetRecords, GetRecordsFails, StoreCount, StoreZero, Handle, ScanInv, AloneInv, Collected,
        Starting, Reading, flags, main, TypeOK
  <2> QED
    BY <1>1, <2>2, <2>3 DEF ScanInv, main, app
<1> QED
  BY <1>3, <1>4

LEMMA SurroundingsScanInv ==
  ASSUME IInv, IInv', ScanInv, ScanEnds \/ AppScans PROVE ScanInv'
<1>1. TypeOK /\ UNCHANGED <<base, flags, main, event>>
  BY DEF IInv, ScanEnds, AppScans
<1>2. NoDriver'
  BY <1>1 DEF ScanInv, NoDriver, flags, main, event
<1>3. CASE ScanEnds
  <2>1. UNCHANGED app /\ scanBy # "none" /\ scanBy' = "none" /\ events' = Append(events, scanBy)
    BY <1>3 DEF ScanEnds
  <2>2. Len(events) \in Nat /\ Len(events') = Len(events) + 1 /\ (events = <<>> <=> Len(events) = 0)
    BY <1>1, <2>1 DEF TypeOK
  <2>3. ~overlapped /\ awaiting => scanBy = "lib"
    BY <1>1, <2>1, PendingPosted
    DEF IInv, Apart, LibPending, AppPending, TypeOK, Owners
  <2>4. ~overlapped /\ ~restarted => AloneInv'
    BY <1>1, <2>1, <2>2, <2>3
    DEF ScanInv, AloneInv, Collected, Starting, Reading, flags, main, event
  <2> QED
    BY <1>1, <1>2, <2>1, <2>4 DEF ScanInv, main, app
<1>4. CASE AppScans
  <2>1. ~overlapped' => ~awaiting /\ mpc = "loop"
    BY <1>1, <1>4 DEF AppScans, LibPending, TypeOK
  <2>2. ~overlapped' => AloneInv'
    BY <1>1, <2>1 DEF AloneInv, Starting, Reading, main
  <2> QED
    BY <1>1, <1>2, <2>2 DEF ScanInv, main
<1> QED
  BY <1>3, <1>4

LEMMA NextScanInv == IInv /\ IInv' /\ ScanInv /\ [Next]_vars => ScanInv'
<1> SUFFICES ASSUME IInv, IInv', ScanInv, [Next]_vars PROVE ScanInv'
  OBVIOUS
<1>1. CASE PumpIdle \/ UNCHANGED vars
  BY <1>1
  DEF PumpIdle, ScanInv, NoDriver, AloneInv, Collected, vars, flags, main, event, driver, app
<1> QED
  BY <1>1, RequestScanInv, MainScanInv, EventScanInv, SurroundingsScanInv DEF Next

THEOREM Invariance == Spec => [](IInv /\ ScanInv)
<1>1. IInv /\ ScanInv /\ [Next]_vars => (IInv /\ ScanInv)'
  BY NextIInv, NextScanInv
<1> QED
  BY <1>1, InitIInv, InitScanInv, PTL DEF Spec

\* Type correctness.
THEOREM TypeCorrect == Spec => []TypeOK
<1>1. IInv => TypeOK
  BY DEF IInv
<1> QED
  BY <1>1, Invariance, PTL

\* As long as the library and the application never scan at the same time, the
\* handler never touches a list of the application's.
THEOREM TakesOnlyOwnLists == Spec => []OnlyOwnScans
<1>1. IInv => OnlyOwnScans
  <2> SUFFICES ASSUME IInv, ~overlapped, epc \in {"assign", "records"}
               PROVE  list.owner # "app"
    BY DEF OnlyOwnScans
  <2>1. events # <<>> /\ Head(events) = "lib"
    BY DEF IInv, LibHandled, Collecting
  <2>2. ~AppPending
    BY <2>1, HandlerApart
  <2> QED
    BY <2>2, PendingPosted DEF IInv, AppListed, AppPending
<1> QED
  BY <1>1, Invariance, PTL

\* As long as scans of the application and requests of the host come one at a time,
\* the records the main task reads are all there, and nobody reassigns the vector
\* meanwhile (backend_idf.cpp:103-106, 250-258).
THEOREM RecordsAreStable == Spec => []RecordsStable
<1>1. ScanInv => RecordsStable
  BY DEF ScanInv, AloneInv, Collected, Reading, RecordsStable
<1> QED
  BY <1>1, Invariance, PTL
=============================================================================
