------------------------------- MODULE Millis -------------------------------
(***************************************************************************)
(* The Arduino clock.  millis() returns an `unsigned long', 32 bits wide   *)
(* on the boards of this repository, that restarts from zero every 2^32    *)
(* milliseconds.  A tick of the model stands for some fixed number of      *)
(* milliseconds, and the clock has ClockSize of them: the code compares    *)
(* times only through the unsigned difference of two readings, so nothing  *)
(* but that difference modulo the size of the clock can be observed.       *)
(***************************************************************************)
EXTENDS Integers

CONSTANT ClockSize      \* readings of the clock before it wraps (2^32 ms)

ASSUME ClockAssumption == ClockSize \in Nat /\ ClockSize > 1

Time == 0 .. ClockSize - 1

\* The reading after one more tick, wrapping to zero.
NextReading(r) == IF r = ClockSize - 1 THEN 0 ELSE r + 1

\* The unsigned subtraction `later - earlier' of two readings.
Elapsed(later, earlier) ==
    IF later >= earlier THEN later - earlier
                        ELSE later - earlier + ClockSize
=============================================================================
