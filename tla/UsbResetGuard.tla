--------------------------- MODULE UsbResetGuard ---------------------------
(* busware_usb_reset_guard() (usb_reset_guard.cpp) over a sequence of boots:   *)
(* the reset reason, the RTC word that survives every reset but a power cycle, *)
(* and the OTA image.  The boot loader and the application are external.       *)
EXTENDS Naturals

CONSTANTS
  Words,        \* values the RTC word may hold
  GUARD_MAGIC,  \* the marker
  NoMagic,      \* the value that clears it
  MaxResets     \* bound on the resets that do not come from the guard

ASSUME MagicAssumption ==
  GUARD_MAGIC \in Words /\ NoMagic \in Words /\ GUARD_MAGIC # NoMagic
ASSUME ResetsAssumption == MaxResets \in Nat

\* Over USB, by a debugger, by esp_restart(), by a panic, by a power cycle.
Reasons     == {"Usb", "Jtag", "Sw", "Panic", "PowerOn"}
ImageStates == {"Valid", "New", "PendingVerify"}

VARIABLES
  reason,   \* esp_reset_reason() of this boot
  marker,   \* s_marker, in RTC memory
  wasUsb,   \* s_was_usb
  stage,    \* the guard is still to run, or the application runs
  image,    \* OTA state of the image that is to boot, or has booted
  bootImage,     \* what image was when this boot began
  byGuard,       \* this boot is the guard's restart
  guardRestarts, \* restarts by the guard since the last other reset; 2 is many
  rolledBackBy,  \* who cost an image its confirmation last, if anybody
  resets

vars == <<reason, marker, wasUsb, stage, image, bootImage, byGuard,
          guardRestarts, rolledBackBy, resets>>

Init ==
  /\ reason = "PowerOn" /\ marker \in Words /\ wasUsb = FALSE /\ stage = "guard"
  /\ image \in {"Valid", "PendingVerify"} /\ bootImage = image
  /\ byGuard = FALSE /\ guardRestarts = 0 /\ rolledBackBy = "nobody" /\ resets = 0

-----------------------------------------------------------------------------
\* The boot loader: a new image boots unconfirmed, and an unconfirmed one is
\* rolled back to the valid image before it.  Static data starts cleared.
BootAgain(r) ==
  /\ reason' = r /\ stage' = "guard" /\ wasUsb' = FALSE
  /\ image' = IF image = "New" THEN "PendingVerify" ELSE "Valid"
  /\ bootImage' = image'

RollsBack(who) ==
  rolledBackBy' = IF image = "PendingVerify" THEN who ELSE rolledBackBy

-----------------------------------------------------------------------------
(* busware_usb_reset_guard() *)

BadWasUsb == marker = GUARD_MAGIC
WasUsb    == reason = "Sw" /\ marker = GUARD_MAGIC

\* The two early returns are not taken.
BadMustRestart     == reason = "Usb"
BadMustRestartSw   == reason \in {"Usb", "Sw"} /\ image # "PendingVerify"
BadMustRestartJtag == reason = "Jtag" /\ image # "PendingVerify"
MustRestart        == reason = "Usb" /\ image # "PendingVerify"

GuardReturns ==
  /\ stage = "guard" /\ ~MustRestart
  /\ wasUsb' = WasUsb /\ marker' = NoMagic /\ stage' = "app"
  /\ UNCHANGED <<reason, image, bootImage, byGuard, guardRestarts, rolledBackBy, resets>>

\* The marker is set, then esp_restart().
GuardRestarts ==
  /\ stage = "guard" /\ MustRestart
  /\ marker' = GUARD_MAGIC
  /\ BootAgain("Sw")
  /\ byGuard' = TRUE /\ guardRestarts' = IF guardRestarts < 2 THEN guardRestarts + 1 ELSE 2
  /\ RollsBack("guard")
  /\ UNCHANGED resets

-----------------------------------------------------------------------------
(* The application and the surroundings *)

\* A reset that is not the guard's, at any time; only the application, which runs
\* after the guard, restarts by software.
Reset(r) ==
  /\ resets < MaxResets /\ resets' = resets + 1
  /\ r = "Sw" => stage = "app"
  /\ IF r = "PowerOn" THEN marker' \in Words ELSE UNCHANGED marker
  /\ BootAgain(r)
  /\ byGuard' = FALSE /\ guardRestarts' = 0
  /\ RollsBack("others")

Update ==
  /\ stage = "app" /\ image = "Valid" /\ image' = "New"
  /\ UNCHANGED <<reason, marker, wasUsb, stage, bootImage, byGuard, guardRestarts,
                 rolledBackBy, resets>>

Confirm ==
  /\ stage = "app" /\ image = "PendingVerify" /\ image' = "Valid"
  /\ UNCHANGED <<reason, marker, wasUsb, stage, bootImage, byGuard, guardRestarts,
                 rolledBackBy, resets>>

Next ==
  \/ GuardReturns \/ GuardRestarts
  \/ \E r \in Reasons : Reset(r)
  \/ Update \/ Confirm

\* Every boot reaches app_main(), of which the guard is the first statement.
Spec == Init /\ [][Next]_vars /\ WF_vars(GuardReturns \/ GuardRestarts)

-----------------------------------------------------------------------------
(* Properties *)

TypeOK ==
  /\ reason \in Reasons /\ marker \in Words /\ wasUsb \in BOOLEAN
  /\ stage \in {"guard", "app"} /\ image \in ImageStates
  /\ bootImage \in ImageStates /\ byGuard \in BOOLEAN
  /\ guardRestarts \in 0..2 /\ rolledBackBy \in {"nobody", "guard", "others"} /\ resets \in Nat

\* The application learns that the chip was reset over USB exactly when this boot
\* is the guard's restart, whatever a power cycle or a reset in the middle of the
\* guard's restart left in the RTC word (usb_reset_guard.h:34-36).
WasUsbHonest == stage = "app" => (wasUsb <=> byGuard)

AtMostOneRestart == guardRestarts <= 1
NeverRollsBack   == rolledBackBy # "guard"

\* However the resets follow each other, the guard restarts once, and its restart
\* never has the boot loader roll an image back (usb_reset_guard.h:17-21, 30-32).
HarmlessRestart == AtMostOneRestart /\ NeverRollsBack

\* After a reset over USB the application only runs without another restart when
\* the image was unconfirmed (usb_reset_guard.cpp:54-65).
ModemIsReset == stage = "app" /\ reason = "Usb" => bootImage = "PendingVerify"

\* The chip gets out of the guard (usb_reset_guard.cpp:47-66).
AppRuns == stage = "guard" ~> stage = "app"
=============================================================================
