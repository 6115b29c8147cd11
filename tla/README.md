# Verification of improv-wifi-busware

TLA+ models of the Improv-Serial Wi-Fi provisioning library in
`components/improv_wifi_busware`, model-checked with TLC on small instances and,
where a property can be proved for every value of the constants, proved with
TLAPS. Source references are `file:line` in the repository.

## The system

A device with a serial port offers, for `windowMs` after boot, a way to give it
Wi-Fi credentials. The parts, and what each keeps:

| Part | Source | State | Operations |
|---|---|---|---|
| Provisioning core | `src/improv_wifi.cpp`, `include/improv_wifi/*.h` | `armed_`, `clockAnchored_`, `deadlineMs_`, `scanPhase_`, `dev_` | `tick`, `feedByte(s)`, `windowMsRemaining`, `setDeviceInfo`, `isConnected` |
| Frame parser (in the core) | `src/improv_wifi.cpp:50-143` | `buf_`, `pos_` | `parseByte_`, `acceptByteAt_`, `onCompletePacket_`, `parsePayload_` |
| Serial filter | `src/serial_filter.cpp` | `phase_`, `hold_`, `holdN_`, `bodyLeft_`, the two sinks | `feed`, `reset`, `setSinks` |
| ESP-IDF backend | `src/backend_idf.cpp` | four connection atomics, three scan atomics, the record vector | the `WiFiBackend` interface, the event handlers |
| Arduino backend | `src/backend_arduino.cpp` | `scanInFlight_` | the `WiFiBackend` interface |
| Arduino facade | `src/arduino_facade.cpp` | callbacks, device strings | `handleSerial`, `handleBuffer`, `setDeviceInfo` |
| USB reset guard | `src/usb_reset_guard.cpp` | an RTC word, `s_was_usb` | `busware_usb_reset_guard` |
| Host client | `tools/improv_client.py` | receive buffer | `read_packet`, one call per command |
| Example firmwares | `examples/*` | `bootMs`, `wasArmed`, `statusPending`, greeter | main loops |

Interaction. The application's main loop calls `tick(now)` and feeds received
bytes, directly or through the serial filter and a stream buffer. The core
writes frames through a callback, calls the backend synchronously (a blocking
`tryConnect`, a polled scan) and calls the application back. The ESP-IDF backend
is shared with the event task, which runs the handlers of the Wi-Fi driver's
events; the driver is shared with the application. Nothing is persisted but the
RTC word and the OTA state the reset guard looks at.

What is hard here: a window that is closed by polling, on a counter that wraps;
handlers that block for seconds while the link changes; a scan that is started,
polled, restarted and given up by different calls; two tasks over unlocked
fields; events that arrive after what they are about is gone; a parser and a
filter that each count the bytes of a frame, with a buffer between them that may
drop some; two readers of one serial port with a clock each; a restart that must not cost
an OTA image its confirmation. `PROJECT.json` lists each hazard at its line.

What makes each part correct:

- core: open for `windowMs` and no longer, silent afterwards; every request
  answered, in order; a scan list for every request and none without one; the
  list complete, without duplicates, strongest first; the backend's scan given back.
- parser: acts on whole, correct frames only; finds frames again; never leaves
  its buffer; reads the fields the host meant.
- filter: every byte to one sink, in order, by the frame it belongs to; in step
  with the parser behind the buffer.
- both backends: report their own scan and the outcome of their own connect;
  return, in time where they promise a time.
- main loops: library's bytes to the library, application's to the application.
- reset guard: one restart, reported honestly, never at the cost of an image.

## Modules

| Module | Models | Correspondence |
|---|---|---|
| `Clock32` | the 32-bit millisecond counter and the core's comparison | `HalfRange` is 2^31; `SignedDiff` is `static_cast<int32_t>(a - b)` |
| `ProvisioningWindow` | abstract: what `improv_wifi.h:40-84` promises about the window | refined by `ImprovCore`, used as the core by `ExampleFirmware` |
| `ImprovCore` | core over the `WiFiBackend` interface | one action per call of `tick()`, per command, per outcome; `log` is the sequence of requests, frames and callbacks |
| `ScanReport` | the sort and the removal of duplicates in `pumpScan_()` | functions; `IsReport` is the reference |
| `Payload` | `parsePayload_()`, `emitRpcResponse_()` | functions; the reference is how a host writes and reads the same bytes |
| `FrameParser` | byte-level parser | one action per byte; `buf` is `buf_[0..pos_)`; alphabet, magic and buffer are constants |
| `SerialFilter` | the filter | one action per phase and outcome of `feed()`; `calls` is the sequence of sink calls, as positions of the stream |
| `SharedLine` | filter, stream buffer and parser as `README.md:316-356` wires them | a byte through the filter with its sink call is one action, a read of the Improv task with `feedBytes()` another |
| `IdfScan` | scan half of the ESP-IDF backend, polled as `pumpScan_()` polls it | one step per load or store of a shared field, a program counter per task |
| `IdfConnect` | connection half of it | the same, for `tryConnect()` and the handlers of CONNECTED, DISCONNECTED, GOT_IP |
| `ArduinoBackend` | the Arduino backend behind the facade, with what the core and the WiFi library do to it | `tryConnect()` cut at its delays, at the synchronous scan, and between a reading of `WiFi.status()` and its use |
| `ExampleFirmware` | both main loops, `handleSerial()`, the serial port | one action per step of the loop; `taken` says who took each byte |
| `UsbResetGuard` | the guard over a sequence of boots | one action per way out of the guard; boot loader and application external |

The `MC*` modules give the constants that a configuration file cannot write, and
join a function module to the run that checks it. The `*Proofs` modules hold the
theorems. Definitions whose name begins with `Bad` are
plausible slips of the definition that follows them; no specification uses them,
and each property of a passing run has one under which it fails.

### ImprovCore, ScanReport, Payload

A handler is one action as long as nobody else can act inside it. It is cut in
two where it blocks (`tryConnect()`, `pc = "connect"`) and between
`isConnected()`/`tryConnect()` and `currentIp()` (`pc = "url"`), where the link may
change. `Receive` is the completion of an RPC frame. The
requests are the commands of `types.h` plus `Malformed` (inner lengths wrong, and the ids 0
and 0xFF, `improv_wifi.cpp:107-153`) and `Unsupported` (`:191`). The payload of a
response is reduced to what it is about, `Reply` to whether it fits a frame.
`ApFrames` allows any number of network frames up to the number of records, since
hidden and duplicate networks are dropped; `ScanReport` says which, and `ScanReported`
that the two agree. `now` is true time; the code only sees `Wrap(now)`. `anchor` and
`lastTick` remember when `tick()` ran first and last.

`ScanReport` and `Payload` are pure: their properties quantify over all bounded
inputs and are stated as invariants that matter once a scan has found something
(`ScanReported`) or a frame was dispatched (`PayloadExact`).

The core implements `ProvisioningWindow` with `open <- armed`,
`started <- clockAnchored`, `start <- anchor`: commands, suspended handlers, scans
and the wrapping counter are invisible in it.

### FrameParser, SerialFilter, SharedLine

The alphabet is 0..ByteMod-1 and the magic any sequence; the proofs hold for 256
values and `"IMPROV"` as for the two values TLC uses. In the scaled parser the
checksum is a sum cut to one byte as in the code. `SerialFilter` keeps, for each sink
call, the positions it carries; bytes for a sink that is not wired, and those
`reset()` drops, go to sink `"none"`. `SharedLine` extends the filter and takes the parser's
transition function from `FrameParser`; what it says of frames is conditional on what
the two can lose each other by: a reset or rewiring in the middle (`Uncut`), bytes that did not fit the
buffer (`lost`), a frame of another version, which the parser gives up at its
seventh byte while the filter routes it whole (`Whole`).

### IdfScan and IdfConnect

Each of the atomics is read and written in steps of its own, in the order of the
source, and the two tasks interleave freely; this covers two cores, and one core
with any priorities. The queue of the event loop delivers in order and late at will.
`esp_wifi_*` calls may fail where the code looks at their result, those of
`ensureBaseInit_()` included: it runs once, in the constructor, and stops before the
handlers are bound, after, or not at all (`base`, `ready`). What the code
does not control is recorded in history variables, and some properties are only
claimed while it has not happened:

- `overlapped`: a scan of the application and one of the library were pending
  together. Without the condition `OnlyOwnScans` and `RecordsStable` fail:
  `startScan()` sets `scanRunning_` before the driver accepts or refuses
  (`backend_idf.cpp:229-239`), and a SCAN_DONE of the application that is handled in
  between passes the test at line 99.
- `restarted`: the host asked again before a scan was reported and its handler
  done. Without it `RecordsStable` fails: `startScan()` clears the vector that the
  handler of the earlier scan may be filling.
- `late`: `tryConnect()` went on from its wait (`backend_idf.cpp:182-184`) while the old
  link was still going, or its events were not handled. Without it `FailureIsOwn` and
  `SuccessIsGenuine` fail (CONNECTED and GOT_IP of the old link, handled after the flags
  are reset, make the new attempt report success).

The remaining properties hold without conditions.

### ArduinoBackend

`WiFi.status()` is a cache of the driver's events: after `WiFi.disconnect()` it says
"connected" until the event has been handled (`owes`). A link may come up, be lost
and be retried by the driver at any time. `delay()` may last up to `MaxLate` too long.
What is claimed only in part:

- `TimeoutKept`: `millis() < deadline` compares unsigned readings
  (`backend_arduino.cpp:94-95`). When the deadline lies beyond the wrap the loop does
  not wait at all (`DeadlineWraps`); when it is less than one late delay before the
  wrap the loop may jump over it and wait 49 days (`DeadlineJumped`).
- `SuccessGenuine` excepts an old link whose end the driver reports only after
  `delay(100)`, and one that comes up between the first look and `WiFi.begin()`
  (`excused`).
- `ListReleased`: a scan that was still running when it was given back ends later, and
  nobody frees its list (`abandoned`); `WiFi.scanDelete()` does not stop a scan.

### ExampleFirmware

The core is taken at what `ProvisioningWindow` promises; a request is two bytes
long. Steps last up to `MaxStep`, bytes arrive in between. The sketch has no way to ask the facade
whether the window is open and counts on its own (`arduino-test/src/main.cpp:93-97`);
the model shows what that costs: `NoDeafness` (never both deaf) holds until
`millis() - bootMs` has gone round once, bytes may go to the echo while the core is
still open, and 49 days after boot there is one more window of silence, which
`EveryByteTaken` shows to end.

### UsbResetGuard

`Reset` may come at any time, in the middle of the guard's restart included. A
power cycle leaves anything in the RTC word. The boot loader makes a new image
`PendingVerify` and rolls such an image back at the next boot.

## Runs

| Run | Shows | Bounds |
|---|---|---|
| `ImprovCore` | the core implements the abstract window; countdown honest, late frames bounded, answers in order, scan accounting and release, the window ends; the scan list is right | counter of 6 ticks, window 2, absence 1, a boot just before the wrap, 3 requests, scans of 1 network; lists of up to 4 records, 3 names, 3 strengths |
| `FrameParser` | soundness, no clean frame lost, recovery, buffer bound; payloads read and written exactly | 2 byte values, magic of 2, streams of 17 bytes: more than two longest frames; payloads of 6 bytes of 5 values, 2 fields of up to 5 bytes |
| `SharedLine` | tiling and routing by the filter; filter and parser in step; a request that had room is heard; nothing inside a frame is acted upon | 2 byte values, magic of 2, streams of 12: two frames; a buffer of 6, one shortest frame; one reset or rewiring |
| `IdfScan` | every request answered; records undisturbed and own scans only, under the conditions above | 3 requests, 2 scans of the application, 1 network |
| `IdfConnect` | the call returns and the flags follow the driver; success and failure are about this attempt's link, under the condition above | 2 attempts after a connect of the application, 1 round of the wait, 3 polls |
| `ArduinoBackend` | timeout kept, outcome about the new link, nothing joins after a failure, the strongest record pinned, lists released, scans answered | counter of 8 ticks, timeout 3, poll 1, late by 1, boots around the wrap, 3 calls, 2 records |
| `ExampleFirmware` | who gets a byte, when the window closes under load, probes answered, no byte left unread | counter of 8, window 3, 12 ticks (a second window and its end), 3 bytes, reads of 2 |
| `UsbResetGuard` | one restart, honest, no rollback, no loop | 4 resets, three values of the RTC word |
| `ImprovCore_url` (violation) | `http://` without an address | |
| `SerialFilter_console` (violation) | a frame on the console | |
| `IdfScan_truth` (violation) | "no networks" for a scan that found some | |
| `IdfConnect_blame` (violation) | a failure of the old link is blamed on the new | |

Why the bounds are enough. The window logic depends on differences of two
readings, so one wrap suffices. A scan, its restart and a request in between take
three requests. The sort compares pairs; three different strengths, equal ones and
repeated names all occur among four records. The parser's state is forgotten at the end of a frame or at a
mismatch, so what can go wrong shows within a frame and its successor. The filter's
bookkeeping is the same per frame, and the buffer is full after one. In the backends
an attempt can only be disturbed by the one before. In the firmwares three bytes
make a request and a byte that follows it, or straddle a read. `CHECK_DEADLOCK FALSE`
is set where the host, or the resets, may stop for good.

Fairness. `ImprovCore`: the main loop keeps calling `tick()` (the contract of
`improv_wifi.h:62-64`), a handler that was suspended continues, time passes, a
running scan ends; no fairness is asked of requests. `IdfScan`: both tasks are
scheduled and the driver ends a scan. `IdfConnect`: only the main task is scheduled,
nothing is asked of the driver or the event task. `ArduinoBackend`: the main loop
goes on, delays end, a scan ends; nothing is asked of the link. `ExampleFirmware`: the
loop runs and time passes; nothing is asked of the host. `UsbResetGuard`: a boot
reaches the guard, the first statement of `app_main()`.

## What the runs found

- `ImprovCore_url`: a link lost between the two reads gives `http://`.
- `SerialFilter_console`: after a stray `I` the next frame goes to the console.
  `RoutedByFrame` says when it does not.
- `IdfScan_truth`: the poll between `scanRunning_ = false` and `scanCount_ = got`
  reports an empty list, and `clearScan()` then races with `assign()`.
- `IdfConnect_blame`: a joining link has `connected_ == false`, so nothing waits
  for its DISCONNECTED.

Seen while modelling, as conditions of properties that hold or without a run:

- `improv_wifi.h:44-46` promises that no frame is written once `windowMs` has elapsed.
  The code only notices at the next `tick()`, and a handler inside `tryConnect()` for up
  to 12 s still answers; `LateFramesBounded` says by how much.
- The unsigned deadline of `backend_arduino.cpp:94-95`, and the scan list nobody frees:
  see ArduinoBackend above.
- The sketch's own window (`arduino-test/src/main.cpp:97`) ends before the core's, and
  its echo may take the tail of a request; it opens again after 49 days.
- `README.md:386-389` has `?` answered with `armed=<0|1>`; both firmwares only look at it after
  the window, so it is always 0, and a `?` inside the window goes to the parser
  (`idf-test/main/main.cpp:160-168`). The sketch prints no `ms_left` at all.
- A frame may be 265 bytes and the stream buffer of `README.md:332` holds 256, so the longest
  frame is heard only if the Improv task reads meanwhile. The tail of a frame the
  parser has given up, for want of bytes or by its version, is searched for frames:
  `NothingNested` has to except it.
- The comment at `serial_filter.cpp:45-47` says that a broken match is flushed "as one
  block", lines 48-49 are two calls of the sink; `backend_idf.cpp:95-98` rules out
  taking the application's scan, which `overlapped` shows to be possible; an SSID of 32
  bytes passes `improv_wifi.cpp:198` and loses one in `backend_idf.cpp:153`.

## Proofs

| Module | Theorems | Argument |
|---|---|---|
| `ImprovCoreProofs` | `TypeCorrect`, `WindowIsExact`, `RemainingIsHonest`, `ScanIsReleased`, `LateFramesAreBounded`, `CoreImplementsWindow` | `IInv` ties `deadlineMs` to `Wrap(anchor + WindowMs)` and keeps `now - lastTick <= MaxGap`; with it the comparison in `tick()` is between times half a range apart at most, and `ReachedExact` says that it is exact. The refinement then maps each action to a tick, to speech or to a stutter |
| | `ScansAreAccountedFor`, `RequestsAreAnsweredInOrder` | every step adds to `log` in one of seven ways (`LogForms`): a scan asked for, answered in vain or reported, a command with its answer, a connect that is left open, its end, or nothing. `AccountInv` says of the places of `log` what a scan is owed after; `AnswerInv` that the only unanswered request is the last, and only while its handler is in `tryConnect()` |
| | `ListsAreRight` | the folds of `ScanReport` are unrolled into loops (`FoldIsLoop`): after round *k* of the sort the first *k* places hold the strongest (`Ordered`), within a round the strongest so far is at its place (`Passed`), and the report has the first record of each name seen so far (`Lists`) |
| `FrameParserProofs` | `TypeCorrect`, `BufferNeverFull`, `ParserSound` | `buf` is the tail of the stream, every byte of it was accepted at its position, and nothing dispatched reaches into it |
| | `CleanFramesHeard`, `ParserResynchronises` | from a position of rest on, the buffer is what followed it, for as long as that looks like a frame (`RestInv`); and a position without the first byte of the magic near it is one of rest (`QuietInv`), since the buffer begins with that byte and is shorter than the longest frame |
| | `PayloadIsExact` | a payload that passes the tests of `parsePayload_()` has its two fields where `Request` puts them (`HoldsFields`), and two payloads with the same fields are equal; the body of a response carries its fields one behind the other (`Carries`), each starting where the lengths before it add up to, and the length byte does not wrap |
| `SerialFilterProofs` | `TypeCorrect`, `NothingIsLost` | the calls tile the stream up to the held bytes, which are a prefix of the magic |
| | `BytesAreRouted` | `FrameInv`: between frames all that were found are cut or over, within one exactly one is not, and `holdN` and `bodyLeft` count from its beginning; so each call is about bytes inside it or outside all (`Routed`). A magic after a position of rest is held byte by byte (`SearchInv`) and leaves in one call (`CleanCalls`) |
| | `LineIsFiltered`, `FilterAndParserInStep`, `RoomyRequestsAreHeard`, `NoFrameInAFrame` | of `SharedLine`: the queue holds what was routed to the library behind some position `h`, but for what was lost (`QueueInv`), and the parser is where it would be had it read the stream up to `h`: in the frame that is open there, with all of it, or in none (`Shape`). A chunk moves `h` on byte by byte, a byte of the line leaves it where it is. Of a frame as many bytes are kept as there was space when it was found, since nothing else is put into the buffer before it is over (`RoomInv`) |
| `IdfScanProofs` | `TypeCorrect`, `TakesOnlyOwnLists`, `RecordsAreStable` | while nothing has overlapped, at most one of library and application has a scan or a report pending (`Apart`); a handler that passed the test at line 99 is then about an event of the library, while a list of the application has its own event in the queue. A scan that is started alone meets an empty queue and a count of zero, which stays zero until its only handler has filled the vector (`AloneInv`) |
| `IdfConnectProofs` | `TypeCorrect`, `SuccessIsOwn`, `FailureIsItsOwn`, `FlagsFollow` | the queue tells the lives of the links one after the other and ends with what the link is now (`QueueInv`), the flags are what it was before the first event (`FlagInv`); when no wait was cut short the queue is empty before the new link is asked for, so all that follows is about this attempt (`OwnInv`), and its first drop is told of once (`DropInv`) |
| `ArduinoBackendProofs` | `TypeCorrect`, `TimeoutIsKept`, `FailedLinkIsGivenUp`, `ListIsReleased`, `SuccessIsGenuine`, `StrongestIsPinned` | the deadline is `Wrap(begun + TimeoutMs)`; if that wraps no poll is ever made, otherwise the readings are ordered as the times are until the counter wraps. A failure is only reported after `WiFi.disconnect()`, and any scan is the core's until it is given back. Before `WiFi.begin()` no status shows, after it the one that shows is of the link asked for (`Genuine`). The search for the strongest is a fold: after each record the best so far is the strongest of those before (`BestIsStrongest`) |
| `UsbResetGuardProofs` | `TypeCorrect`, `WasUsbIsHonest`, `RestartIsHarmless`, `ModemWasReset` | before the guard runs, a software reset is its own exactly when the marker is set, because every guard that returned has cleared it |
| `ExampleFirmwareProofs` | `TypeCorrect`, `NoBytesForNobody`, `BytesGoToTheCore`, `WindowClosesInTime`, `HostIsAnswered` | the sketch's clock began no later than the core's and is exact for one round of the counter (`ClockInv`, `SketchClock`); each point of the loop is so many steps behind the last `tick()`, plus one for each byte read (`LateInv`), of which the IDF loop reads a chunk at most (`ChunkInv`); a probe is unanswered only while `statusPending` is, which is between its byte and the end of the chunk (`ToldInv`) |

The assumptions are the ones named in the modules: `WindowMs < HalfRange`,
`MaxGap <= HalfRange` (the core's comparison is wrong beyond them), a buffer that
holds the longest frame (300 against 265 in the code), a magic of at least one or
two bytes, a window or a connect timeout shorter than the range of the counter.
The theorems hold for every number of requests, attempts, bytes, resets and
records, which the runs bound. The modules that need it repeat the few lemmas on
remainders.

None of the properties is inductive alone: `ImplementsWindow` says nothing of the
deadline, `DispatchedAreFrames` nothing of a frame in progress, `NothingLost`
nothing of which calls come next, `RoutedByFrame` nothing of the bytes still
missing, `OnlyOwnScans` nothing of the events still queued, `SuccessIsGenuine`
nothing of whose events they are, `TimeoutKept` nothing of the value of the
deadline, `WasUsbHonest` nothing of the time between the marker and the next boot,
`HostIsTold` nothing of the middle of a chunk, `InStep` nothing of a queue that is
not empty. `IInv` and the invariants named in the
table strengthen them. Two of them are properties of a step (`SuccessGenuine`,
`WindowBytesToCore`); they follow from the invariant before it.

Recursion over data. The library's induction theorems take an operator, which the
provers cannot instantiate. What a fold computes for every input is proved from a
*set* instead: the naturals below a bound at which a statement fails have a least
member (`LeastNat`, from the well-foundedness of `<`), and a set that has 0 and
the successor of each of its members has them all (`Induction`). With it the fold
of the community modules, a function chosen by its recursion, is shown to exist and to
pass through the values of a loop (`FoldExists`, `FoldIsLoop`). The proof modules
that fold (the sort of the core, the checksum of the parser, the search of the Arduino
backend, the chunk of the line) each have the lemmas they need of these.

Only model-checked: every liveness property (fairness is out of the prover's
reach): `WindowCloses`, `ScanAnswered`, `ConnectReturns`, `AppRuns`,
`EveryByteTaken`. Every other property of a passing run is a theorem.

## Not modelled

- Host client: a test tool that blocks on one request at a time; what it relies on is
  what `ImprovCore` states of the device.
- Of the facade: `handleBuffer()`, the copies of the device strings, the trampolines.
- Of the firmwares: the web page, NVS, the time-out of `writeAll()` (a frame may be cut
  when the host does not read for 100 ms).
- Of the ESP-IDF backend: the destructor, and the conversions of address, records
  and credentials.
- Web page, manifests, build files, tests: no behaviour of the program.

## Plan

Every safety property that the runs check is proved. What could follow: a model of
the credentials' way through `backend_idf.cpp:153-154`, where `strncpy` cuts an SSID of 32
bytes and a passphrase of 64, and the facade's `handleBuffer()`.
