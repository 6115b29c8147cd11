----------------------------- MODULE IdfConnect -----------------------------
(* The connection half of EspIdfWiFiBackend (backend_idf.cpp) between two      *)
(* tasks: the main loop is inside tryConnect(), the event task runs the        *)
(* handlers of CONNECTED, DISCONNECTED and GOT_IP.  Each store to or load from *)
(* one of the four atomics is a step of its own.  The Wi-Fi driver, the queue  *)
(* of the event loop and the application's own connect at boot are external.   *)
EXTENDS Integers, Sequences

CONSTANTS
  MaxAttempts,  \* bound on the calls of tryConnect()
  MaxWaits,     \* iterations of the wait for the old link (50 in the code)
  MaxPolls      \* polls of the wait loop before its deadline

ASSUME BoundsAssumption ==
  MaxAttempts \in Nat /\ MaxWaits \in Nat /\ MaxPolls \in Nat

VARIABLES
  ready,        \* baseInit_: ensureBaseInit_() came to its end
  connected, connecting, gotIp, connectFailed,  \* the atomics
  mpc, retried, waits, polls,  \* main task: next step and its locals
  attempt,      \* calls of tryConnect() so far
  outcome,      \* what the latest call returned, and from where
  epc,          \* event task: next step of the handler
  events,       \* events posted and not yet handled, oldest first
  link,         \* driver: state of the station, and the attempt it belongs to
  appConnected, \* the application has connected by itself
  calls,        \* esp_wifi_connect() calls of this attempt
  drops,        \* drops of this attempt's link, all told
  reached,      \* attempts whose link got an address
  blamed,       \* attempt whose link's loss set connectFailed last
  late          \* a wait for the old link has ended before the link had gone
                \* and its events had been handled

flags   == <<connected, connecting, gotIp, connectFailed>>
locals  == <<retried, waits, polls>>
history == <<calls, drops, reached, blamed, late>>
vars    == <<ready, flags, locals, mpc, attempt, outcome, epc, events, link,
             appConnected, history>>

LinkStates == {"down", "joining", "up", "addressed", "leaving"}

Init ==
  /\ ready \in BOOLEAN
  /\ connected = FALSE /\ connecting = FALSE /\ gotIp = FALSE /\ connectFailed = FALSE
  /\ mpc = "idle" /\ retried = FALSE /\ waits = 0 /\ polls = 0
  /\ attempt = 0 /\ outcome = "none" /\ epc = "idle" /\ events = <<>>
  /\ link = [state |-> "down", of |-> 0] /\ appConnected = FALSE
  /\ calls = 0 /\ drops = 0 /\ reached = {} /\ blamed = 0
  /\ late = FALSE

Quiet == events = <<>> /\ link.state # "leaving"

-----------------------------------------------------------------------------
(* Main task: tryConnect() *)

\* A step of the main task that touches nothing but the atomics and its locals.
Main(from, to) ==
  /\ mpc = from /\ mpc' = to
  /\ UNCHANGED <<ready, attempt, outcome, epc, events, link, appConnected, history>>

Return(from, how) ==
  /\ mpc = from /\ mpc' = "idle" /\ outcome' = how
  /\ UNCHANGED <<ready, locals, attempt, epc, events, link, appConnected, history>>

StopConnecting == connecting' = FALSE /\ UNCHANGED <<connected, gotIp, connectFailed>>

\* Without a driver tryConnect() touches nothing.
TryUnready ==
  /\ ~ready
  /\ mpc = "idle" /\ attempt < MaxAttempts
  /\ attempt' = attempt + 1 /\ outcome' = "unconfigured"
  /\ calls' = 0 /\ drops' = 0
  /\ UNCHANGED <<ready, flags, locals, mpc, epc, events, link, appConnected,
                 reached, blamed, late>>

TryConnect ==
  /\ ready
  /\ mpc = "idle" /\ attempt < MaxAttempts
  /\ mpc' = "disconnect" /\ attempt' = attempt + 1 /\ outcome' = "none"
  /\ retried' = FALSE /\ waits' = 0 /\ polls' = 0
  /\ calls' = 0 /\ drops' = 0
  /\ StopConnecting
  /\ UNCHANGED <<ready, epc, events, link, appConnected, reached, blamed, late>>

\* esp_wifi_disconnect(): the link, if any, is given up in the background.
Disconnect ==
  /\ mpc = "disconnect" /\ mpc' = "leave"
  /\ link' = IF link.state = "down" THEN link ELSE [link EXCEPT !.state = "leaving"]
  /\ UNCHANGED <<ready, flags, locals, attempt, outcome, epc, events, appConnected, history>>

WaitForLeave ==
  /\ connected /\ waits < MaxWaits
  /\ Main("leave", "leave")
  /\ waits' = waits + 1 /\ UNCHANGED <<flags, retried, polls>>

Left ==
  /\ ~connected \/ waits = MaxWaits
  /\ mpc = "leave" /\ mpc' = "config"
  /\ late' = (late \/ ~Quiet)
  /\ UNCHANGED <<ready, flags, locals, attempt, outcome, epc, events, link, appConnected,
                 calls, drops, reached, blamed>>

ConfigRefused == Return("config", "unconfigured") /\ UNCHANGED flags

BadResetFailed ==
  Main("resetFailed", "setConnecting") /\ UNCHANGED <<flags, locals>>

ResetFailed ==
  /\ Main("resetFailed", "setConnecting")
  /\ connectFailed' = FALSE
  /\ UNCHANGED <<connected, connecting, gotIp, locals>>

\* esp_wifi_set_config() succeeded; the four stores.
ResetFlags ==
  \/ /\ Main("config", "resetIp") /\ connected' = FALSE
     /\ UNCHANGED <<connecting, gotIp, connectFailed, locals>>
  \/ /\ Main("resetIp", "resetFailed") /\ gotIp' = FALSE
     /\ UNCHANGED <<connected, connecting, connectFailed, locals>>
  \/ ResetFailed
  \/ /\ Main("setConnecting", "connect") /\ connecting' = TRUE
     /\ UNCHANGED <<connected, gotIp, connectFailed, locals>>

\* esp_wifi_connect() starts to join, unless a link is in the way.
DriverJoins ==
  /\ link.state = "down"
  /\ link' = [state |-> "joining", of |-> attempt]
  /\ calls' = calls + 1

Connect ==
  /\ mpc = "connect" /\ mpc' = "poll"
  /\ DriverJoins
  /\ UNCHANGED <<ready, flags, locals, attempt, outcome, epc, events, appConnected,
                 drops, reached, blamed, late>>

ConnectRefused == Return("connect", "unconfigured") /\ StopConnecting

TimedOut == polls >= MaxPolls

\* The loop's condition, and the two loads of its first test.
BadPoll ==
  \/ ~TimedOut /\ Main("poll", IF connected THEN "ok" ELSE "pollIp")
  \/ Main("pollIp", IF gotIp THEN "ok" ELSE "pollFailed")

Poll ==
  \/ ~TimedOut /\ Main("poll", IF connected THEN "pollIp" ELSE "pollFailed")
  \/ Main("pollIp", IF gotIp THEN "ok" ELSE "pollFailed")

Succeed == Return("ok", "ok") /\ StopConnecting

BadPollFailed ==
  \/ connectFailed /\ Main("pollFailed", "takeFailed") /\ UNCHANGED <<flags, locals>>
  \/ ~connectFailed /\ Main("pollFailed", "poll") /\ UNCHANGED <<flags, locals>>

\* One round of the loop is over, and 100 ms later the next one begins.
PollFailed ==
  \/ /\ connectFailed
     /\ Main("pollFailed", "takeFailed") /\ UNCHANGED <<flags, locals>>
  \/ /\ ~connectFailed
     /\ Main("pollFailed", "poll")
     /\ polls' = polls + 1 /\ UNCHANGED <<flags, retried, waits>>

BadTakeFailed ==
  /\ Main("takeFailed", IF retried THEN "giveUp" ELSE "retry")
  /\ UNCHANGED <<flags, locals>>

TakeFailed ==
  /\ Main("takeFailed", IF retried THEN "giveUp" ELSE "retry")
  /\ connectFailed' = FALSE
  /\ UNCHANGED <<connected, connecting, gotIp, locals>>

GiveUp == Return("giveUp", "refused") /\ StopConnecting

\* The second esp_wifi_connect(), whose result is not looked at.
Retry ==
  /\ mpc = "retry" /\ mpc' = "poll"
  /\ retried' = TRUE /\ polls' = polls + 1
  /\ DriverJoins \/ UNCHANGED <<link, calls>>
  /\ UNCHANGED <<ready, flags, waits, attempt, outcome, epc, events, appConnected,
                 drops, reached, blamed, late>>

\* Past the deadline: connecting_ is dropped, and the flags are read once more.
Deadline ==
  \/ TimedOut /\ Main("poll", "lastConnected") /\ StopConnecting /\ UNCHANGED locals
  \/ /\ Main("lastConnected", IF connected THEN "lastIp" ELSE "late")
     /\ UNCHANGED <<flags, locals>>
  \/ Return("lastIp", IF gotIp THEN "ok" ELSE "timeout") /\ UNCHANGED flags
  \/ Return("late", "timeout") /\ UNCHANGED flags

PollStep == Poll /\ UNCHANGED <<flags, locals>>

MainStep ==
  \/ Disconnect \/ WaitForLeave \/ Left \/ ConfigRefused \/ ResetFlags
  \/ Connect \/ ConnectRefused \/ PollStep \/ Succeed \/ PollFailed
  \/ TakeFailed \/ GiveUp \/ Retry \/ Deadline

-----------------------------------------------------------------------------
(* Event task: onWifiEvent_(), onIpEvent_() *)

\* A step of the handler of an event of kind k; the event goes with the last one.
Handle(k, from, to) ==
  /\ events # <<>> /\ Head(events).kind = k
  /\ epc = from /\ epc' = to
  /\ events' = IF to = "idle" THEN Tail(events) ELSE events
  /\ UNCHANGED <<ready, mpc, locals, attempt, outcome, link, appConnected,
                 calls, drops, reached, late>>

OnConnected ==
  /\ Handle("connected", "idle", "idle")
  /\ connected' = TRUE
  /\ UNCHANGED <<connecting, gotIp, connectFailed, blamed>>

OnGotIp ==
  /\ Handle("gotIp", "idle", "idle")
  /\ gotIp' = TRUE
  /\ UNCHANGED <<connected, connecting, connectFailed, blamed>>

BadDropIp ==
  /\ Handle("disconnected", "dropIp", "check")
  /\ UNCHANGED <<flags, blamed>>

DropIp ==
  /\ Handle("disconnected", "dropIp", "check")
  /\ gotIp' = FALSE
  /\ UNCHANGED <<connected, connecting, connectFailed, blamed>>

OnDisconnected ==
  \/ /\ Handle("disconnected", "idle", "dropIp")
     /\ connected' = FALSE
     /\ UNCHANGED <<connecting, gotIp, connectFailed, blamed>>
  \/ DropIp
  \/ /\ Handle("disconnected", "check", IF connecting THEN "flag" ELSE "idle")
     /\ UNCHANGED <<flags, blamed>>
  \/ /\ Handle("disconnected", "flag", "idle")
     /\ connectFailed' = TRUE /\ blamed' = Head(events).of
     /\ UNCHANGED <<connected, connecting, gotIp>>

EventStep == OnConnected \/ OnGotIp \/ OnDisconnected

-----------------------------------------------------------------------------
(* The driver and the application *)

LinkGoes(from, to, kind) ==
  /\ link.state \in from
  /\ link' = [link EXCEPT !.state = to]
  /\ events' = Append(events, [kind |-> kind, of |-> link.of])
  /\ UNCHANGED <<ready, flags, mpc, locals, attempt, outcome, epc, appConnected,
                 calls, blamed, late>>

DriverStep ==
  \/ LinkGoes({"joining"}, "up", "connected") /\ UNCHANGED <<drops, reached>>
  \/ /\ LinkGoes({"up"}, "addressed", "gotIp")
     /\ reached' = reached \cup {link.of} /\ UNCHANGED drops
  \/ /\ LinkGoes({"joining", "up", "addressed", "leaving"}, "down", "disconnected")
     /\ drops' = IF link.of = attempt THEN drops + 1 ELSE drops
     /\ UNCHANGED reached

\* The application joins the network it has stored, before any provisioning;
\* it needs the same driver.
AppConnects ==
  /\ ready /\ ~appConnected /\ attempt = 0
  /\ appConnected' = TRUE
  /\ link' = [state |-> "joining", of |-> 0]
  /\ UNCHANGED <<ready, flags, mpc, locals, attempt, outcome, epc, events, history>>

\* Nobody asks for another attempt.
Rest == mpc = "idle" /\ UNCHANGED vars

Next == TryUnready \/ TryConnect \/ MainStep \/ EventStep \/ DriverStep \/ AppConnects \/ Rest

Spec == Init /\ [][Next]_vars

\* The main task is scheduled; nothing is asked of the driver or the event task.
FairSpec == Spec /\ WF_vars(MainStep)

-----------------------------------------------------------------------------
(* Properties *)

TypeOK ==
  /\ {ready, connected, connecting, gotIp, connectFailed, retried, appConnected, late}
       \subseteq BOOLEAN
  /\ waits \in 0..MaxWaits /\ polls \in 0..MaxPolls
  /\ attempt \in 0..MaxAttempts
  /\ events \in Seq([kind : {"connected", "disconnected", "gotIp"}, of : 0..MaxAttempts])
  /\ link \in [state : LinkStates, of : 0..MaxAttempts]
  /\ outcome \in {"none", "ok", "refused", "timeout", "unconfigured"}

\* Unless an old link was still on its way out, tryConnect() only reports success
\* when the link of this very attempt got an address (backend_idf.cpp:188-208, 221).
SuccessIsGenuine == outcome = "ok" /\ ~late => attempt \in reached

\* "the STA_DISCONNECTED event that the WiFi driver fires for the old link does
\* not get misclassified" (backend_idf.cpp:172-176).
OldLinkNotBlamed == connecting /\ connectFailed => blamed = attempt

\* It is not, as long as every wait has outlasted its old link; and giving up
\* before the deadline then takes two failures of this attempt's own link, never
\* one counted twice or left over (backend_idf.cpp:180-191, 197-217).
FailureIsOwn ==
  ~late => OldLinkNotBlamed /\ (outcome = "refused" => drops >= 2 /\ calls >= 1)

\* When no event is on its way and nobody is connecting, isConnected() says what
\* the driver would, however late events came (backend_idf.cpp:84-131, 188-189).
FlagsFollowLink ==
  mpc = "idle" /\ Quiet =>
    /\ connected <=> link.state \in {"up", "addressed"}
    /\ gotIp <=> link.state = "addressed"

\* tryConnect() comes back, whatever the driver does or fails to do
\* (backend_idf.cpp:182-184, 203-221).
ConnectReturns == mpc # "idle" ~> mpc = "idle"
=============================================================================
