-------------------------- MODULE IdfConnectProofs --------------------------
(* Proofs about IdfConnect, for every number of attempts, waits and polls.     *)
EXTENDS IdfConnect, SequenceTheorems, TLAPS

Events == Seq([kind : {"connected", "disconnected", "gotIp"}, of : 0..MaxAttempts])

\* A round of the wait loop only begins before the deadline.
InTime == mpc \in {"pollIp", "pollFailed", "takeFailed", "retry"} => polls < MaxPolls

-----------------------------------------------------------------------------
(* The invariant, from the program points to the three properties *)

Resetting == {"config", "resetIp", "resetFailed", "setConnecting", "connect"}
Polling   == {"poll", "pollIp", "pollFailed", "takeFailed", "retry", "giveUp", "ok"}
Final     == {"lastConnected", "lastIp", "late"}
Points    == {"idle", "disconnect", "leave"} \cup Resetting \cup Polling \cup Final

\* The event in the queue's first place is the one that is being handled.
ControlInv ==
  /\ mpc \in Points /\ epc \in {"idle", "dropIp", "check", "flag"}
  /\ epc # "idle" => events # <<>> /\ events[1].kind = "disconnected"
  /\ connecting => mpc = "connect" \/ mpc \in Polling
  /\ outcome # "none" => mpc = "idle"
  /\ mpc # "idle" => attempt > 0
  /\ mpc = "retry" => ~retried
  /\ mpc = "takeFailed" => connectFailed
  /\ calls \in Nat /\ drops \in Nat

\* Whose link it is, and that a call has given the old one up before its own.
LinkInv ==
  /\ link.of <= attempt
  /\ mpc \in {"disconnect", "leave"} \cup Resetting => link.of < attempt
  /\ mpc \in {"leave"} \cup Resetting => link.state \in {"down", "leaving"}
  /\ mpc \in Polling \cup Final => link.of = attempt /\ link.state # "leaving"
  /\ attempt = 0 /\ ~appConnected => link.state = "down" /\ events = <<>>

Follows(k) == IF k = "connected" THEN {"gotIp", "disconnected"}
              ELSE IF k = "gotIp" THEN {"disconnected"}
              ELSE {"connected", "disconnected"}

\* The kind of the latest event, for a state of the link.
Told(s) == IF s \in {"down", "joining"} THEN {"disconnected"}
           ELSE IF s = "up" THEN {"connected"}
           ELSE IF s = "addressed" THEN {"gotIp"}
           ELSE {"connected", "gotIp", "disconnected"}

\* The queue tells the lives of the links, one after the other.
QueueInv ==
  /\ \A i \in 1..(Len(events) - 1) : events[i + 1].kind \in Follows(events[i].kind)
  /\ events # <<>> => events[Len(events)].kind \in Told(link.state)
  /\ \A i \in 1..Len(events) : events[i].kind = "gotIp" => events[i].of \in reached

\* The flags are what the driver was before the events in the queue.
FlagInv ==
  /\ events = <<>> /\ link.state # "leaving" =>
       /\ connected <=> link.state \in {"up", "addressed"}
       /\ gotIp <=> link.state = "addressed"
  /\ events # <<>> /\ events[1].kind = "connected" => ~gotIp
  /\ Len(events) = 1 /\ events[1].kind = "gotIp" /\ link.state = "addressed" => connected
  /\ epc # "idle" => ~connected
  /\ epc \in {"check", "flag"} => ~gotIp

\* After waits that outlasted the old link, whatever happens is about this call's.
OwnInv ==
  ~late =>
    /\ mpc \in Resetting => events = <<>> /\ link.state = "down"
    /\ mpc \in Polling \cup Final =>
         /\ \A i \in 1..Len(events) : events[i].of = attempt
         /\ gotIp => attempt \in reached
    /\ mpc = "ok" => attempt \in reached
    /\ mpc \in {"setConnecting", "connect"} => ~connectFailed
    /\ mpc \in Polling \cup Final /\ connectFailed => blamed = attempt

\* Before the retry one drop at most, which connectFailed tells of once; after it
\* only a second drop can be told of.
DropInv ==
  /\ mpc \in {"disconnect", "leave"} \cup Resetting => drops = 0 /\ ~retried
  /\ mpc \in Polling \cup Final => calls >= 1
  /\ ~late /\ mpc \in Polling \cup Final /\ ~retried =>
       /\ link.state # "down" => drops = 0
       /\ \A i \in 1..Len(events) : events[i].kind = "disconnected" =>
            i = Len(events) /\ link.state = "down" /\ drops = 1
       /\ connectFailed \/ mpc = "retry" => events = <<>> /\ link.state = "down" /\ drops = 1
       /\ mpc = "retry" => ~connectFailed
  /\ ~late /\ mpc \in Polling \cup Final /\ retried =>
       /\ drops >= 1
       /\ \A i \in 1..Len(events) : events[i].kind = "disconnected" => drops >= 2
       /\ connectFailed \/ mpc = "giveUp" => drops >= 2
  /\ ~late /\ mpc = "giveUp" => retried
  /\ outcome = "refused" => calls >= 1 /\ (~late => drops >= 2)

TypeInv == TypeOK /\ InTime

IInv == /\ TypeInv /\ ControlInv /\ LinkInv /\ QueueInv /\ FlagInv /\ OwnInv /\ DropInv
        /\ SuccessIsGenuine

-----------------------------------------------------------------------------
LEMMA InitTypeInv == Init => TypeInv
<1>1. /\ <<>> \in Events /\ 0 \in 0..MaxAttempts /\ 0 \in 0..MaxWaits /\ 0 \in 0..MaxPolls
      /\ [state |-> "down", of |-> 0] \in [state : LinkStates, of : 0..MaxAttempts]
  BY BoundsAssumption DEF Events, LinkStates
<1> QED
  BY <1>1 DEF Init, TypeInv, TypeOK, InTime, Events

\* A step of the main task that leaves the driver alone.
LEMMA MainKeeps ==
  ASSUME TypeInv, NEW from, NEW to, Main(from, to), UNCHANGED <<waits, retried, polls>>,
         {connected, connecting, gotIp, connectFailed}' \subseteq BOOLEAN,
         to \in {"pollIp", "pollFailed", "takeFailed", "retry"} => polls < MaxPolls
  PROVE  TypeInv'
BY DEF TypeInv, TypeOK, InTime, Main, history

LEMMA TryTypeInv == TypeInv /\ (TryUnready \/ TryConnect) => TypeInv'
<1> SUFFICES ASSUME TypeInv, TryUnready \/ TryConnect PROVE TypeInv'
  OBVIOUS
<1>1. attempt' \in 0..MaxAttempts /\ 0 \in 0..MaxWaits /\ 0 \in 0..MaxPolls
  BY BoundsAssumption DEF TypeInv, TypeOK, TryUnready, TryConnect
<1>2. CASE TryUnready
  BY <1>1, <1>2 DEF TryUnready, TypeInv, TypeOK, InTime, flags, locals
<1>3. CASE TryConnect
  <2>1. TypeOK'
    BY <1>1, <1>3 DEF TryConnect, StopConnecting, TypeInv, TypeOK
  <2> QED
    BY <1>3, <2>1 DEF TryConnect, TypeInv, InTime
<1> QED
  BY <1>2, <1>3

LEMMA MainStepTypeInv == TypeInv /\ MainStep => TypeInv'
<1> SUFFICES ASSUME TypeInv, MainStep PROVE TypeInv'
  OBVIOUS
<1>0. {connected, connecting, gotIp, connectFailed, retried} \subseteq BOOLEAN
  BY DEF TypeInv, TypeOK
<1>1. CASE Disconnect
  BY <1>1 DEF Disconnect, TypeInv, TypeOK, InTime, LinkStates, flags, locals, history
<1>2. CASE WaitForLeave
  BY <1>2, BoundsAssumption DEF WaitForLeave, Main, TypeInv, TypeOK, InTime, flags, history
<1>3. CASE Left
  BY <1>3 DEF Left, TypeInv, TypeOK, InTime, Quiet, flags, locals
<1>4. CASE ConfigRefused \/ ConnectRefused \/ Succeed \/ GiveUp
  BY <1>4
  DEF ConfigRefused, ConnectRefused, Succeed, GiveUp, Return, StopConnecting, TypeInv, TypeOK,
      InTime, flags, locals, history
<1>5. CASE ResetFlags
  BY <1>0, <1>5, MainKeeps DEF ResetFlags, ResetFailed, Main, locals
<1>6. CASE Connect
  BY <1>6 DEF Connect, DriverJoins, TypeInv, TypeOK, InTime, LinkStates, flags, locals
<1>7. CASE PollStep
  <2>1. UNCHANGED <<flags, locals>>
    BY <1>7 DEF PollStep
  <2>2. polls < MaxPolls
    BY <1>7, BoundsAssumption DEF PollStep, Poll, TimedOut, Main, TypeInv, TypeOK, InTime
  <2>3. {connected, connecting, gotIp, connectFailed}' \subseteq BOOLEAN
    BY <1>0, <2>1 DEF flags
  <2> QED
    BY <1>7, <2>1, <2>2, <2>3, MainKeeps DEF PollStep, Poll, locals
<1>8. CASE PollFailed
  <2>1. polls + 1 \in 0..MaxPolls /\ polls < MaxPolls
    BY <1>8, BoundsAssumption DEF PollFailed, Main, TypeInv, TypeOK, InTime
  <2> QED
    BY <1>8, <2>1 DEF PollFailed, Main, TypeInv, TypeOK, InTime, flags, locals, history
<1>9. CASE TakeFailed
  BY <1>0, <1>9, MainKeeps DEF TakeFailed, Main, TypeInv, InTime, locals
<1>10. CASE Retry
  <2>1. polls + 1 \in 0..MaxPolls
    BY <1>10, BoundsAssumption DEF Retry, TypeInv, TypeOK, InTime
  <2> QED
    BY <1>10, <2>1 DEF Retry, DriverJoins, TypeInv, TypeOK, InTime, LinkStates, flags
<1>11. CASE Deadline
  BY <1>11
  DEF Deadline, Main, Return, StopConnecting, TypeInv, TypeOK, InTime, flags, locals, history
<1> QED
  BY <1>1, <1>2, <1>3, <1>4, <1>5, <1>6, <1>7, <1>8, <1>9, <1>10, <1>11 DEF MainStep

LEMMA TailIn ==
  ASSUME NEW S, NEW s \in Seq(S), s # <<>> PROVE Tail(s) \in Seq(S)
OBVIOUS

LEMMA EventStepTypeInv == TypeInv /\ EventStep => TypeInv'
<1> SUFFICES ASSUME TypeInv, EventStep PROVE TypeInv'
  OBVIOUS
<1>1. events # <<>> /\ events' \in {events, Tail(events)}
  BY DEF EventStep, OnConnected, OnGotIp, OnDisconnected, DropIp, Handle
<1>2. events' \in Events
  <2>1. events \in Events
    BY DEF TypeInv, TypeOK, Events
  <2>2. Tail(events) \in Events
    BY <1>1, <2>1, TailIn, Zenon DEF Events
  <2> QED
    BY <1>1, <2>1, <2>2, Zenon
<1>3. UNCHANGED <<ready, mpc, locals, attempt, outcome, link, appConnected, late>>
  BY DEF EventStep, OnConnected, OnGotIp, OnDisconnected, DropIp, Handle
<1>4. {connected, connecting, gotIp, connectFailed}' \subseteq BOOLEAN
  BY DEF EventStep, OnConnected, OnGotIp, OnDisconnected, DropIp, TypeInv, TypeOK, flags
<1> QED
  BY <1>2, <1>3, <1>4 DEF TypeInv, TypeOK, InTime, Events, locals

LEMMA DriverTypeInv == TypeInv /\ (DriverStep \/ AppConnects) => TypeInv'
<1> SUFFICES ASSUME TypeInv, DriverStep \/ AppConnects PROVE TypeInv'
  OBVIOUS
<1>1. CASE DriverStep
  <2>1. PICK to \in LinkStates, kind \in {"connected", "disconnected", "gotIp"} :
          /\ link' = [link EXCEPT !.state = to]
          /\ events' = Append(events, [kind |-> kind, of |-> link.of])
          /\ UNCHANGED <<ready, flags, mpc, locals, attempt, outcome, appConnected, late>>
    BY <1>1 DEF DriverStep, LinkGoes, LinkStates
  <2>2. events' \in Events
    BY <2>1, AppendProperties DEF TypeInv, TypeOK, Events
  <2>3. link' \in [state : LinkStates, of : 0..MaxAttempts]
    BY <2>1 DEF TypeInv, TypeOK
  <2> QED
    BY <2>1, <2>2, <2>3 DEF TypeInv, TypeOK, InTime, Events, flags, locals
<1>2. CASE AppConnects
  BY <1>2, BoundsAssumption
  DEF AppConnects, TypeInv, TypeOK, InTime, LinkStates, flags, locals, history
<1> QED
  BY <1>1, <1>2

LEMMA NextTypeInv == TypeInv /\ [Next]_vars => TypeInv'
<1>1. TypeInv /\ (Rest \/ UNCHANGED vars) => TypeInv'
  BY DEF Rest, TypeInv, TypeOK, InTime, vars, flags, locals, history
<1> QED
  BY <1>1, TryTypeInv, MainStepTypeInv, EventStepTypeInv, DriverTypeInv DEF Next

-----------------------------------------------------------------------------
(* The queue of events *)

LEMMA Queue ==
  ASSUME TypeInv
  PROVE  /\ events \in Events /\ Len(events) \in Nat
         /\ events = <<>> <=> Len(events) = 0
         /\ events # <<>> => Head(events) = events[1]
BY DEF TypeInv, TypeOK, Events

\* An event that is posted comes last.
LEMMA Posted ==
  ASSUME TypeInv, NEW e \in [kind : {"connected", "disconnected", "gotIp"}, of : 0..MaxAttempts],
         events' = Append(events, e)
  PROVE  /\ Len(events') = Len(events) + 1 /\ events' # <<>>
         /\ \A i \in 1..Len(events) : events'[i] = events[i]
         /\ events'[Len(events) + 1] = e
<1>1. events \in Events
  BY Queue
<1> QED
  BY <1>1, AppendProperties DEF Events

\* When an event has been handled the others move up.
LEMMA Handled ==
  ASSUME TypeInv, events # <<>>, events' = Tail(events)
  PROVE  /\ Len(events') = Len(events) - 1
         /\ events' # <<>> <=> Len(events) > 1
         /\ \A i \in 1..(Len(events) - 1) : events'[i] = events[i + 1]
<1>1. events \in Events
  BY Queue
<1>2. /\ Tail(events) \in Events /\ Len(Tail(events)) = Len(events) - 1
      /\ \A i \in 1..Len(Tail(events)) : Tail(events)[i] = events[i + 1]
  BY <1>1, HeadTailProperties DEF Events
<1>3. \A s \in Events : s # <<>> <=> Len(s) > 0
  BY DEF Events
<1>4. Tail(events) # <<>> <=> Len(events) > 1
  <2>1. Tail(events) # <<>> <=> Len(Tail(events)) > 0
    BY <1>2, <1>3
  <2>2. Len(events) \in Nat
    BY Queue
  <2> QED
    BY <1>2, <2>1, <2>2
<1> QED
  BY <1>2, <1>4

-----------------------------------------------------------------------------
(* The invariant *)

LEMMA InitIInv == Init => IInv
<1> SUFFICES ASSUME Init PROVE IInv
  OBVIOUS
<1>1. Len(events) = 0 /\ TypeInv
  BY InitTypeInv DEF Init
<1> QED
  BY <1>1 DEF Init, IInv, ControlInv, LinkInv, QueueInv, FlagInv, OwnInv, DropInv,
              SuccessIsGenuine, Points, Resetting, Polling, Final

LEMMA TryIInv == ASSUME IInv, TryUnready \/ TryConnect PROVE IInv'
<1>1. TypeInv' /\ attempt \in Nat /\ link.of \in Nat /\ link.of <= attempt
  BY TryTypeInv, BoundsAssumption DEF IInv, LinkInv, TypeInv, TypeOK
<1>2. CASE TryUnready
  BY <1>1, <1>2
  DEF TryUnready, IInv, ControlInv, LinkInv, QueueInv, FlagInv, OwnInv, DropInv,
      SuccessIsGenuine, Points, Resetting, Polling, Final, flags, locals
<1>3. CASE TryConnect
  BY <1>1, <1>3
  DEF TryConnect, StopConnecting, IInv, ControlInv, LinkInv, QueueInv, FlagInv, OwnInv,
      DropInv, SuccessIsGenuine, Points, Resetting, Polling, Final
<1> QED
  BY <1>2, <1>3

\* esp_wifi_connect(), the first time and for the retry.
LEMMA JoinIInv == ASSUME IInv, Connect \/ Retry PROVE IInv'
<1>1. /\ TypeInv /\ TypeInv' /\ Len(events) \in Nat /\ (events = <<>> <=> Len(events) = 0)
      /\ attempt \in Nat
  BY MainStepTypeInv, Queue DEF IInv, MainStep, TypeInv, TypeOK
<1>2. /\ \/ mpc = "connect" /\ link.state = "down" /\ retried' = retried
         \/ mpc = "retry" /\ retried' = TRUE
      /\ mpc' = "poll"
      /\ \/ /\ link.state = "down" /\ link'.state = "joining" /\ link'.of = attempt
            /\ calls' = calls + 1
         \/ mpc = "retry" /\ UNCHANGED <<link, calls>>
      /\ UNCHANGED <<flags, attempt, outcome, epc, events, appConnected, drops, reached, blamed, late>>
  <2>1. CASE Connect
    BY <2>1 DEF Connect, DriverJoins, locals
  <2>2. CASE Retry
    BY <2>2 DEF Retry, DriverJoins
  <2> QED
    BY <2>1, <2>2
<1>3. ControlInv' /\ LinkInv'
  BY <1>1, <1>2 DEF IInv, ControlInv, LinkInv, Points, Resetting, Polling, Final, flags
<1>4. QueueInv'
  BY <1>1, <1>2 DEF IInv, QueueInv, Told
<1>5. FlagInv'
  BY <1>1, <1>2 DEF IInv, FlagInv, flags
<1>6. OwnInv' /\ SuccessIsGenuine'
  BY <1>1, <1>2 DEF IInv, FlagInv, OwnInv, SuccessIsGenuine, Resetting, Polling, Final, flags
<1>7. DropInv'
  BY <1>1, <1>2 DEF IInv, ControlInv, OwnInv, DropInv, Resetting, Polling, Final, flags
<1> QED
  BY <1>1, <1>3, <1>4, <1>5, <1>6, <1>7 DEF IInv

LEMMA MainStepIInv == ASSUME IInv, MainStep PROVE IInv'
<1> USE DEF IInv, ControlInv, LinkInv, QueueInv, FlagInv, OwnInv, DropInv, SuccessIsGenuine,
            Points, Resetting, Polling, Final, flags, locals, history
<1>0. TypeInv /\ TypeInv' /\ Len(events) \in Nat /\ (events = <<>> <=> Len(events) = 0)
  BY MainStepTypeInv, Queue
<1>1. CASE Disconnect
  BY <1>0, <1>1 DEF Disconnect, Told
<1>2. CASE WaitForLeave
  BY <1>0, <1>2 DEF WaitForLeave, Main
<1>3. CASE Left
  BY <1>0, <1>3 DEF Left, Quiet
<1>4. CASE ConfigRefused \/ ConnectRefused
  BY <1>0, <1>4 DEF ConfigRefused, ConnectRefused, Return, StopConnecting
<1>5. CASE Succeed \/ GiveUp
  BY <1>0, <1>5 DEF Succeed, GiveUp, Return, StopConnecting
<1>6. CASE ResetFlags
  BY <1>0, <1>6 DEF ResetFlags, ResetFailed, Main
<1>7. CASE Connect \/ Retry
  BY <1>7, JoinIInv
<1>8. CASE PollStep
  BY <1>0, <1>8 DEF PollStep, Poll, Main
<1>9. CASE PollFailed
  BY <1>0, <1>9 DEF PollFailed, Main
<1>10. CASE TakeFailed
  BY <1>0, <1>10 DEF TakeFailed, Main
<1>11. CASE Deadline
  BY <1>0, <1>11 DEF Deadline, Main, Return, StopConnecting
<1> QED
  BY <1>1, <1>2, <1>3, <1>4, <1>5, <1>6, <1>7, <1>8, <1>9, <1>10, <1>11 DEF MainStep

\* What handling an event leaves alone, and what it does when it has been handled.
EventFrame ==
  /\ events # <<>> /\ Len(events) > 0
  /\ UNCHANGED <<mpc, retried, attempt, outcome, link, appConnected, calls, drops, reached, late>>
  /\ \/ events' = events
     \/ /\ Len(events') = Len(events) - 1 /\ (events' # <<>> <=> Len(events) > 1)
        /\ \A i \in 1..(Len(events) - 1) : events'[i] = events[i + 1]
        /\ epc' = "idle"

LEMMA EventFramed == ASSUME IInv, EventStep PROVE EventFrame
<1>1. /\ TypeInv /\ Len(events) \in Nat /\ events # <<>> /\ Len(events) > 0
  BY Queue DEF IInv, EventStep, OnConnected, OnGotIp, OnDisconnected, DropIp, Handle
<1>2. events' = events \/ (events' = Tail(events) /\ epc' = "idle")
  BY DEF EventStep, OnConnected, OnGotIp, OnDisconnected, DropIp, Handle
<1>3. UNCHANGED <<mpc, retried, attempt, outcome, link, appConnected, calls, drops, reached, late>>
  BY DEF EventStep, OnConnected, OnGotIp, OnDisconnected, DropIp, Handle, locals
<1>4. CASE events' = events
  BY <1>1, <1>3, <1>4 DEF EventFrame
<1>5. CASE events' = Tail(events) /\ epc' = "idle"
  BY <1>1, <1>3, <1>5, Handled DEF EventFrame
<1> QED
  BY <1>2, <1>4, <1>5

\* The handlers, each with what it does to the flags.
HandlerForms ==
  LET h == events[1] IN
    \/ /\ h.kind = "connected" /\ epc = "idle" /\ epc' = "idle" /\ events' = Tail(events)
       /\ connected' = TRUE /\ UNCHANGED <<connecting, gotIp, connectFailed, blamed>>
    \/ /\ h.kind = "gotIp" /\ epc = "idle" /\ epc' = "idle" /\ events' = Tail(events)
       /\ gotIp' = TRUE /\ UNCHANGED <<connected, connecting, connectFailed, blamed>>
    \/ /\ h.kind = "disconnected" /\ epc = "idle" /\ epc' = "dropIp" /\ events' = events
       /\ connected' = FALSE /\ UNCHANGED <<connecting, gotIp, connectFailed, blamed>>
    \/ /\ h.kind = "disconnected" /\ epc = "dropIp" /\ epc' = "check" /\ events' = events
       /\ gotIp' = FALSE /\ UNCHANGED <<connected, connecting, connectFailed, blamed>>
    \/ /\ h.kind = "disconnected" /\ epc = "check" /\ UNCHANGED <<flags, blamed>>
       /\ \/ epc' = "flag" /\ events' = events
          \/ epc' = "idle" /\ events' = Tail(events) /\ ~connecting
    \/ /\ h.kind = "disconnected" /\ epc = "flag" /\ epc' = "idle" /\ events' = Tail(events)
       /\ connectFailed' = TRUE /\ blamed' = h.of /\ UNCHANGED <<connected, connecting, gotIp>>

LEMMA LinkTyped == IInv => link.state \in LinkStates
BY DEF IInv, TypeInv, TypeOK

LEMMA HandlersFormed == ASSUME IInv, EventStep PROVE HandlerForms
<1>1. TypeInv /\ (events # <<>> => Head(events) = events[1])
  BY Queue DEF IInv
<1> QED
  BY <1>1 DEF HandlerForms, EventStep, OnConnected, OnGotIp, OnDisconnected, DropIp, Handle

LEMMA TailShorter == IInv /\ events # <<>> => Tail(events) # events
<1>1. IInv => events \in Events
  BY Queue DEF IInv
<1> QED
  BY <1>1 DEF Events

LEMMA EventStepIInv == ASSUME IInv, EventStep PROVE IInv'
<1>1. /\ TypeInv' /\ Len(events) \in Nat /\ Len(events') \in Nat
      /\ (events = <<>> <=> Len(events) = 0) /\ (events' = <<>> <=> Len(events') = 0)
  <2>1. TypeInv'
    BY EventStepTypeInv DEF IInv
  <2>2. Len(events') \in Nat /\ (events' = <<>> <=> Len(events') = 0)
    BY <2>1 DEF TypeInv, TypeOK
  <2> QED
    BY <2>1, <2>2, Queue DEF IInv
<1>2. EventFrame /\ HandlerForms
  BY EventFramed, HandlersFormed
<1>3. ControlInv'
  BY <1>1, <1>2 DEF EventFrame, HandlerForms, IInv, ControlInv, flags
<1>4. LinkInv'
  BY <1>1, <1>2 DEF EventFrame, IInv, LinkInv
<1>5. QueueInv'
  <2>1. CASE events' = events
    BY <1>2, <2>1 DEF EventFrame, IInv, QueueInv
  <2>2. CASE events' # events
    <3>1. /\ Len(events') = Len(events) - 1 /\ link' = link /\ reached' = reached
          /\ \A i \in 1..Len(events') : i + 1 \in 1..Len(events) /\ events'[i] = events[i + 1]
      BY <1>1, <1>2, <2>2 DEF EventFrame
    <3>2. ASSUME NEW i \in 1..(Len(events') - 1)
          PROVE  events'[i + 1].kind \in Follows(events'[i].kind)
      <4>1. i \in 1..Len(events') /\ i + 1 \in 1..Len(events') /\ i + 1 \in 1..(Len(events) - 1)
        BY <1>1, <3>1
      <4>2. events'[i] = events[i + 1] /\ events'[i + 1] = events[(i + 1) + 1]
        BY <3>1, <4>1
      <4> QED
        BY <4>1, <4>2 DEF IInv, QueueInv
    <3>3. events' # <<>> => events'[Len(events')] = events[Len(events)]
      BY <1>1, <3>1
    <3>4. \A i \in 1..Len(events') : events'[i].kind = "gotIp" => events'[i].of \in reached
      BY <3>1 DEF IInv, QueueInv
    <3> QED
      BY <1>2, <3>1, <3>2, <3>3, <3>4 DEF IInv, QueueInv, EventFrame
  <2> QED
    BY <2>1, <2>2
<1>6. FlagInv'
  <2>1. CASE events' = events
    BY <1>1, <1>2, <2>1 DEF EventFrame, HandlerForms, IInv, ControlInv, FlagInv, flags
  <2>2. CASE events' # events
    <3>1. /\ Len(events') = Len(events) - 1 /\ link' = link /\ epc' = "idle"
          /\ events' # <<>> => events'[1] = events[2] /\ events[2].kind \in Follows(events[1].kind)
          /\ events' = <<>> => events[1].kind \in Told(link.state)
          /\ Len(events') = 1 => events[2].kind \in Told(link.state)
      BY <1>1, <1>2, <2>2 DEF EventFrame, IInv, QueueInv
    <3>2. CASE events[1].kind = "connected"
      <4>1. connected' = TRUE /\ gotIp' = FALSE
        BY <1>1, <1>2, <2>2, <3>2 DEF EventFrame, HandlerForms, IInv, TypeInv, TypeOK, FlagInv
      <4>2. events' = <<>> => link.state \in {"up", "leaving"}
        BY <3>1, <3>2, LinkTyped DEF Told, LinkStates
      <4>3. events' # <<>> => events'[1].kind \in {"gotIp", "disconnected"}
        BY <3>1, <3>2 DEF Follows
      <4> QED
        BY <3>1, <4>1, <4>2, <4>3 DEF FlagInv
    <3>3. CASE events[1].kind = "gotIp"
      <4>1. gotIp' = TRUE /\ connected' = connected
        BY <1>2, <2>2, <3>3 DEF HandlerForms
      <4>2. events' = <<>> => link.state = "leaving" \/ (link.state = "addressed" /\ connected)
        BY <1>1, <1>2, <3>1, <3>3, LinkTyped DEF Told, LinkStates, EventFrame, IInv, FlagInv
      <4>3. events' # <<>> => events'[1].kind = "disconnected"
        BY <3>1, <3>3 DEF Follows
      <4> QED
        BY <3>1, <4>1, <4>2, <4>3 DEF FlagInv
    <3>4. CASE events[1].kind = "disconnected"
      BY <1>1, <1>2, <2>2, <3>1, <3>4
      DEF EventFrame, HandlerForms, IInv, ControlInv, FlagInv, Follows, Told, flags
    <3> QED
      BY <1>2, <3>2, <3>3, <3>4 DEF HandlerForms
  <2> QED
    BY <2>1, <2>2
<1>7. OwnInv'
  <2>1. events[1].kind = "gotIp" => events[1].of \in reached
    BY <1>1, <1>2 DEF EventFrame, IInv, QueueInv
  <2>2. ~late /\ mpc \in Polling \cup Final => events[1].of = attempt
    BY <1>1, <1>2 DEF EventFrame, IInv, OwnInv
  <2>3. ~late /\ mpc \in Polling \cup Final => \A i \in 1..Len(events') : events'[i].of = attempt
    BY <1>1, <1>2 DEF EventFrame, IInv, OwnInv
  <2>4. mpc \in Resetting /\ ~late => FALSE
    BY <1>2 DEF EventFrame, IInv, OwnInv
  <2> QED
    BY <1>2, <2>1, <2>2, <2>3, <2>4
    DEF EventFrame, HandlerForms, IInv, OwnInv, Resetting, Polling, Final, flags
<1>8. DropInv'
  <2> DEFINE On == ~late /\ mpc \in Polling \cup Final
  <2>1. UNCHANGED <<mpc, retried, outcome, calls, drops, late, link>>
    BY <1>2 DEF EventFrame
  <2>2. connectFailed' => connectFailed \/ (events[1].kind = "disconnected" /\ events' # events)
    BY <1>1, <1>2, TailShorter DEF EventFrame, HandlerForms, IInv, TypeInv, TypeOK, flags
  <2>3. CASE On /\ ~retried
    <3>1. events # <<>> /\ Len(events) > 0 /\ mpc # "retry" /\ ~connectFailed
      BY <1>2, <2>3 DEF EventFrame, IInv, DropInv
    <3>2. events[1].kind = "disconnected" => Len(events) = 1 /\ link.state = "down" /\ drops = 1
      <4>1. 1 \in 1..Len(events)
        BY <1>1, <3>1
      <4> QED
        BY <2>3, <4>1 DEF IInv, DropInv
    <3>3. connectFailed' => events' = <<>> /\ link.state = "down" /\ drops = 1
      BY <1>1, <1>2, <2>2, <3>1, <3>2 DEF EventFrame
    <3>4. \A i \in 1..Len(events') : events'[i].kind = "disconnected" =>
             i = Len(events') /\ link.state = "down" /\ drops = 1
      BY <1>1, <1>2, <2>3 DEF EventFrame, IInv, DropInv
    <3> QED
      BY <2>1, <2>3, <3>1, <3>3, <3>4 DEF IInv, DropInv, Polling, Final, Resetting
  <2>4. CASE On /\ retried
    BY <1>1, <1>2, <2>1, <2>2, <2>4 DEF EventFrame, IInv, DropInv
  <2>5. CASE ~On
    BY <2>1, <2>5 DEF IInv, DropInv, Polling
  <2> QED
    BY <2>3, <2>4, <2>5
<1>9. SuccessIsGenuine'
  BY <1>2 DEF EventFrame, IInv, SuccessIsGenuine
<1> QED
  BY <1>1, <1>3, <1>4, <1>5, <1>6, <1>7, <1>8, <1>9 DEF IInv

\* A link changes and its event joins the queue.
LEMMA DriverForms ==
  ASSUME IInv, DriverStep
  PROVE  /\ Len(events') = Len(events) + 1 /\ events' # <<>>
         /\ \A i \in 1..Len(events) : events'[i] = events[i]
         /\ events'[Len(events) + 1].of = link.of /\ link'.of = link.of
         /\ LET k == events'[Len(events) + 1].kind IN
              \/ /\ link.state = "joining" /\ link'.state = "up" /\ k = "connected"
                 /\ UNCHANGED <<drops, reached>>
              \/ /\ link.state = "up" /\ link'.state = "addressed" /\ k = "gotIp"
                 /\ reached' = reached \cup {link.of} /\ UNCHANGED drops
              \/ /\ link.state # "down" /\ link'.state = "down" /\ k = "disconnected"
                 /\ drops' = IF link.of = attempt THEN drops + 1 ELSE drops
                 /\ UNCHANGED reached
         /\ UNCHANGED <<flags, mpc, retried, attempt, outcome, epc, appConnected, calls, blamed, late>>
<1>1. TypeInv /\ link \in [state : LinkStates, of : 0..MaxAttempts]
  BY DEF IInv, TypeInv, TypeOK
<1>2. ASSUME NEW from, NEW to \in LinkStates,
             NEW kind \in {"connected", "disconnected", "gotIp"}, LinkGoes(from, to, kind)
      PROVE  /\ Len(events') = Len(events) + 1 /\ events' # <<>>
             /\ \A i \in 1..Len(events) : events'[i] = events[i]
             /\ events'[Len(events) + 1] = [kind |-> kind, of |-> link.of]
             /\ link.state \in from /\ link'.state = to /\ link'.of = link.of
             /\ UNCHANGED <<flags, mpc, retried, attempt, outcome, epc, appConnected, calls, blamed,
                            late>>
  <2>1. [kind |-> kind, of |-> link.of] \in [kind : {"connected", "disconnected", "gotIp"},
                                             of : 0..MaxAttempts]
    BY <1>1
  <2>2. events' = Append(events, [kind |-> kind, of |-> link.of])
    BY <1>2 DEF LinkGoes
  <2> QED
    BY <1>1, <1>2, <2>1, <2>2, Posted DEF LinkGoes, locals
<1>3. CASE LinkGoes({"joining"}, "up", "connected") /\ UNCHANGED <<drops, reached>>
  BY <1>2, <1>3 DEF LinkStates
<1>4. CASE /\ LinkGoes({"up"}, "addressed", "gotIp")
           /\ reached' = reached \cup {link.of} /\ UNCHANGED drops
  BY <1>2, <1>4 DEF LinkStates
<1>5. CASE /\ LinkGoes({"joining", "up", "addressed", "leaving"}, "down", "disconnected")
           /\ drops' = IF link.of = attempt THEN drops + 1 ELSE drops
           /\ UNCHANGED reached
  BY <1>2, <1>5 DEF LinkStates
<1> QED
  BY <1>3, <1>4, <1>5 DEF DriverStep

LEMMA DriverIInv == ASSUME IInv, DriverStep PROVE IInv'
<1>1. /\ TypeInv' /\ Len(events) \in Nat /\ (events = <<>> <=> Len(events) = 0)
      /\ events' # <<>> /\ attempt \in Nat /\ link.of \in Nat
  BY DriverTypeInv, DriverForms, Queue, BoundsAssumption DEF IInv, TypeInv, TypeOK
<1>2. ControlInv'
  BY <1>1, DriverForms DEF IInv, ControlInv, flags
<1>3. LinkInv'
  BY <1>1, DriverForms DEF IInv, LinkInv, Resetting, Polling, Final
<1>4. QueueInv'
  <2>1. /\ Len(events') = Len(events) + 1
        /\ \A i \in 1..Len(events) : events'[i] = events[i]
        /\ \A i \in 1..Len(events') : i \in 1..Len(events) \/ i = Len(events) + 1
    BY <1>1, DriverForms
  <2>2. events'[Len(events')].kind \in Told(link'.state)
    BY <1>1, <2>1, DriverForms DEF Told
  <2>3. events # <<>> => events'[Len(events')].kind \in Follows(events[Len(events)].kind)
    BY <1>1, <2>1, DriverForms DEF IInv, QueueInv, Follows, Told
  <2>4. \A i \in 1..(Len(events') - 1) : events'[i + 1].kind \in Follows(events'[i].kind)
    BY <1>1, <2>1, <2>3 DEF IInv, QueueInv
  <2>5. \A i \in 1..Len(events') : events'[i].kind = "gotIp" => events'[i].of \in reached'
    BY <1>1, <2>1, DriverForms DEF IInv, QueueInv
  <2> QED
    BY <2>2, <2>4, <2>5 DEF QueueInv
<1>5. FlagInv'
  BY <1>1, DriverForms DEF IInv, ControlInv, FlagInv, flags
<1>6. OwnInv'
  BY <1>1, DriverForms DEF IInv, LinkInv, OwnInv, flags
<1>7. DropInv'
  <2> DEFINE On == mpc \in Polling \cup Final
  <2>1. /\ UNCHANGED <<mpc, retried, outcome, calls, late, connectFailed>>
        /\ drops' \in Nat /\ drops' >= drops /\ (link.of # attempt => drops' = drops)
    BY <1>1, DriverForms DEF flags, IInv, ControlInv
  <2>2. CASE On
    BY <1>1, <2>1, <2>2, DriverForms
    DEF IInv, ControlInv, LinkInv, DropInv, Resetting, Polling, Final
  <2>3. CASE ~On
    BY <1>1, <2>1, <2>3 DEF IInv, ControlInv, LinkInv, DropInv, Polling
  <2> QED
    BY <2>2, <2>3
<1>8. SuccessIsGenuine'
  BY <1>1, DriverForms DEF IInv, SuccessIsGenuine
<1> QED
  BY <1>1, <1>2, <1>3, <1>4, <1>5, <1>6, <1>7, <1>8 DEF IInv

LEMMA AppIInv == ASSUME IInv, AppConnects PROVE IInv'
<1>1. /\ TypeInv' /\ link' = [state |-> "joining", of |-> 0] /\ link.state = "down" /\ events = <<>>
      /\ Len(events) = 0 /\ attempt = 0 /\ appConnected' = TRUE
      /\ UNCHANGED <<ready, flags, mpc, locals, attempt, outcome, epc, events, history>>
  BY DriverTypeInv DEF IInv, LinkInv, AppConnects
<1>2. mpc = "idle"
  BY <1>1 DEF IInv, ControlInv
<1>3. ControlInv' /\ LinkInv'
  BY <1>1, <1>2 DEF IInv, ControlInv, LinkInv, Resetting, Polling, Final, flags, locals, history
<1>4. QueueInv' /\ FlagInv'
  BY <1>1 DEF IInv, QueueInv, FlagInv, flags, history
<1>5. OwnInv' /\ SuccessIsGenuine'
  BY <1>1, <1>2 DEF IInv, OwnInv, SuccessIsGenuine, Resetting, Polling, Final, flags, history
<1>6. DropInv'
  BY <1>1, <1>2 DEF IInv, DropInv, Resetting, Polling, Final, flags, locals, history
<1> QED
  BY <1>1, <1>3, <1>4, <1>5, <1>6 DEF IInv

LEMMA NextIInv == IInv /\ [Next]_vars => IInv'
<1>1. IInv /\ (Rest \/ UNCHANGED vars) => IInv'
  BY NextTypeInv
  DEF Rest, IInv, ControlInv, LinkInv, QueueInv, FlagInv, OwnInv, DropInv, SuccessIsGenuine,
      vars, flags, locals, history
<1> QED
  BY <1>1, TryIInv, MainStepIInv, EventStepIInv, DriverIInv, AppIInv DEF Next

THEOREM Invariance == Spec => []IInv
BY InitIInv, NextIInv, PTL DEF Spec

-----------------------------------------------------------------------------
(* The theorems *)

\* Type correctness; that tryConnect() never begins a round past its deadline is
\* part of it.
THEOREM TypeCorrect == Spec => []TypeOK
BY Invariance, PTL DEF IInv, TypeInv

\* A success that tryConnect() reports is one of the link it asked for, unless a
\* wait gave up on the old link (backend_idf.cpp:188-208, 221).
THEOREM SuccessIsOwn == Spec => []SuccessIsGenuine
BY Invariance, PTL DEF IInv

\* No failure of another link is taken for this call's, and a refusal takes two of
\* its own, unless a wait gave up on the old link (backend_idf.cpp:180-217).
THEOREM FailureIsItsOwn == Spec => []FailureIsOwn
<1>1. IInv => FailureIsOwn
  BY DEF IInv, ControlInv, OwnInv, DropInv, FailureIsOwn, OldLinkNotBlamed
<1> QED
  BY <1>1, Invariance, PTL

\* However late events are handled, when the last has been the flags say what the
\* driver would (backend_idf.cpp:84-131).
THEOREM FlagsFollow == Spec => []FlagsFollowLink
<1>1. IInv => FlagsFollowLink
  BY DEF IInv, FlagInv, Quiet, FlagsFollowLink
<1> QED
  BY <1>1, Invariance, PTL
=============================================================================
