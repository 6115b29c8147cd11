------------------------------ MODULE Clock32 ------------------------------
(* The free-running 32-bit millisecond counter (millis(), or esp_timer / 1000 *)
(* cast to uint32_t) that the firmware reads, and the comparison the core     *)
(* makes between two readings of it.  HalfRange is 2^31 in the code.          *)
EXTENDS Integers

CONSTANT HalfRange

ASSUME ClockAssumption == HalfRange \in Nat \ {0}

ClockMod == 2 * HalfRange

\* A uint32_t: what is left of a time or a difference of times.
Wrap(t) == t % ClockMod

\* static_cast<int32_t> of a uint32_t.
Signed(w) == IF w < HalfRange THEN w ELSE w - ClockMod

\* static_cast<int32_t>(a - b), for two counter readings.
SignedDiff(a, b) == Signed(Wrap(a - b))

\* The core's expiry test: the reading a is not before the reading b.
Reached(a, b) == SignedDiff(a, b) >= 0
=============================================================================
