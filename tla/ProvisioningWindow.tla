------------------------- MODULE ProvisioningWindow -------------------------
(* What the library promises its user about the provisioning window           *)
(* (improv_wifi.h:40-84), without commands, scans, frames or a 32-bit clock:  *)
(* it is open from the start, its time begins with the first tick(), it closes*)
(* at the first tick() that finds WindowMs gone and at no other, it never     *)
(* opens again, and the library speaks only while it is open.                 *)
EXTENDS Integers, Sequences

CONSTANTS
  WindowMs   \* Config::windowMs

VARIABLES
  open,      \* isArmed()
  started,   \* tick() has been called
  start,     \* the true time of the first tick()
  now,       \* true time
  log        \* what the library has said, to the host and to the application

vars == <<open, started, start, now, log>>

\* Nothing that was said is taken back.
Extends(new, old) == Len(new) >= Len(old) /\ SubSeq(new, 1, Len(old)) = old

Init ==
  /\ open = TRUE /\ started = FALSE
  /\ now \in Nat /\ start = now
  /\ log = <<>>

\* A request is answered, at once or later.
Speak ==
  /\ open
  /\ Extends(log', log)
  /\ UNCHANGED <<open, started, start, now>>

Anchor ==
  /\ started' = TRUE
  /\ start' = IF started THEN start ELSE now
  /\ UNCHANGED now

\* A tick() within the window, which may report the end of a scan.
TickWithin ==
  /\ open
  /\ Anchor /\ now - start' < WindowMs
  /\ Extends(log', log)
  /\ UNCHANGED open

\* The tick() that closes the window, and says nothing.
TickCloses ==
  /\ open
  /\ Anchor /\ now - start' >= WindowMs
  /\ open' = FALSE
  /\ UNCHANGED log

Pass ==
  /\ now' \in Nat /\ now' > now
  /\ UNCHANGED <<open, started, start, log>>

Next == Speak \/ TickWithin \/ TickCloses \/ Pass

Safety == Init /\ [][Next]_vars

\* tick() is called again and again.
Spec == Safety /\ WF_vars(TickCloses)
=============================================================================
