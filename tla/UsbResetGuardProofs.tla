------------------------ MODULE UsbResetGuardProofs ------------------------
(* The safety properties of UsbResetGuard, for every value of its constants. *)
EXTENDS UsbResetGuard, TLAPS

\* Why they hold: between the guard's restart and the next run of the guard, only
\* the reset reason and the marker together say what happened.  A boot whose
\* reason is Sw is either the guard's, with the marker set, or the application's,
\* whose guard has cleared it before; and the guard's boot is no USB reset.
Told ==
  /\ stage = "guard" /\ reason = "Sw" => (byGuard <=> marker = GUARD_MAGIC)
  /\ byGuard => reason = "Sw"
  /\ stage = "app" => marker = NoMagic

\* What the restart count and the image state say of this boot.
Once ==
  /\ guardRestarts <= 1
  /\ guardRestarts = 1 => reason = "Sw"
  /\ stage = "guard" => bootImage = image

IInv == TypeOK /\ Told /\ Once /\ WasUsbHonest /\ NeverRollsBack /\ ModemIsReset

LEMMA InitIInv == Init => IInv
<1> SUFFICES ASSUME Init PROVE IInv
  OBVIOUS
<1>1. TypeOK
  <2>1. guardRestarts \in 0..2 /\ resets \in Nat
    BY DEF Init
  <2> QED
    BY <2>1, Zenon DEF Init, TypeOK, Reasons, ImageStates
<1>2. Told /\ Once
  BY DEF Init, Told, Once
<1>3. WasUsbHonest /\ NeverRollsBack /\ ModemIsReset
  BY DEF Init, WasUsbHonest, NeverRollsBack, ModemIsReset
<1> QED
  BY <1>1, <1>2, <1>3 DEF IInv

LEMMA NextIInv == IInv /\ [Next]_vars => IInv'
<1> SUFFICES ASSUME IInv, [Next]_vars PROVE IInv'
  OBVIOUS
<1>1. TypeOK /\ Told /\ Once /\ WasUsbHonest /\ NeverRollsBack /\ ModemIsReset
  BY DEF IInv
<1>2. CASE GuardReturns
  <2> USE <1>1, <1>2 DEF GuardReturns, MustRestart, WasUsb
  <2>1. TypeOK'
    BY MagicAssumption DEF TypeOK
  <2>2. Told' /\ Once'
    BY DEF Told, Once
  <2>3. WasUsbHonest'
    BY DEF WasUsbHonest, Told, TypeOK
  <2>4. NeverRollsBack' /\ ModemIsReset'
    BY DEF NeverRollsBack, ModemIsReset, Once
  <2> QED
    BY <2>1, <2>2, <2>3, <2>4 DEF IInv
<1>3. CASE GuardRestarts
  <2> USE <1>1, <1>3 DEF GuardRestarts, MustRestart, BootAgain, RollsBack
  <2>1. TypeOK'
    <3>1. guardRestarts' \in 0..2
      BY DEF Once, TypeOK
    <3> QED
      BY <3>1, MagicAssumption, Zenon DEF TypeOK, Reasons, ImageStates
  <2>2. Told'
    BY DEF Told
  <2>3. Once'
    BY DEF Once, TypeOK
  <2>4. WasUsbHonest' /\ NeverRollsBack' /\ ModemIsReset'
    BY DEF WasUsbHonest, NeverRollsBack, ModemIsReset
  <2> QED
    BY <2>1, <2>2, <2>3, <2>4 DEF IInv
<1>4. ASSUME NEW r \in Reasons, Reset(r) PROVE IInv'
  <2> USE <1>1, <1>4 DEF Reset, BootAgain, RollsBack
  <2>1. TypeOK'
    <3>1. guardRestarts' \in 0..2 /\ resets' \in Nat
      BY DEF TypeOK
    <3> QED
      BY <3>1, Zenon DEF TypeOK, ImageStates
  <2>2. Told'
    BY MagicAssumption DEF Told
  <2>3. Once'
    BY DEF Once
  <2>4. WasUsbHonest' /\ NeverRollsBack' /\ ModemIsReset'
    BY DEF WasUsbHonest, NeverRollsBack, ModemIsReset
  <2> QED
    BY <2>1, <2>2, <2>3, <2>4 DEF IInv
<1>5. CASE Update \/ Confirm
  <2> USE <1>1, <1>5 DEF Update, Confirm
  <2>1. TypeOK'
    BY DEF TypeOK, ImageStates
  <2>2. Told' /\ Once'
    BY DEF Told, Once
  <2>3. WasUsbHonest' /\ NeverRollsBack' /\ ModemIsReset'
    BY DEF WasUsbHonest, NeverRollsBack, ModemIsReset
  <2> QED
    BY <2>1, <2>2, <2>3 DEF IInv
<1>6. CASE UNCHANGED vars
  BY <1>1, <1>6
  DEF vars, IInv, TypeOK, Told, Once, WasUsbHonest, NeverRollsBack, ModemIsReset
<1> QED
  BY <1>2, <1>3, <1>4, <1>5, <1>6 DEF Next

\* The inductive invariant holds of every sequence of boots.
THEOREM Invariance == Spec => []IInv
BY InitIInv, NextIInv, PTL DEF Spec

\* Type correctness.
THEOREM TypeCorrect == Spec => []TypeOK
<1>1. IInv => TypeOK
  BY DEF IInv
<1> QED
  BY <1>1, Invariance, PTL

\* busware_usb_reset_guard_was_usb() is true exactly in the guard's own restart.
THEOREM WasUsbIsHonest == Spec => []WasUsbHonest
<1>1. IInv => WasUsbHonest
  BY DEF IInv
<1> QED
  BY <1>1, Invariance, PTL

\* The guard restarts the chip at most once after a reset that is not its own, and
\* its restart costs no image its confirmation.
THEOREM RestartIsHarmless == Spec => []HarmlessRestart
<1>1. IInv => HarmlessRestart
  BY DEF IInv, Once, HarmlessRestart, AtMostOneRestart
<1> QED
  BY <1>1, Invariance, PTL

\* After a reset over USB the application only runs without a restart when one
\* would have cost an image its confirmation (usb_reset_guard.cpp:54-65).
THEOREM ModemWasReset == Spec => []ModemIsReset
<1>1. IInv => ModemIsReset
  BY DEF IInv
<1> QED
  BY <1>1, Invariance, PTL
=============================================================================
