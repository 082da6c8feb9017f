------------------------------- MODULE DHTesp -------------------------------
(***************************************************************************)
(* The driver of the DHT11 sensor: when it talks to the sensor, and what   *)
(* the getters return.  A sensor is a record of the driver's members; the  *)
(* temperature and the humidity, which are always set together, are one    *)
(* value.  A transaction takes some 25 ms, which is no tick.               *)
(*                                                                         *)
(* The value of a reading is the number of the bus transaction it comes    *)
(* from, counted since the sketch began its turn: 0 is a value of an       *)
(* earlier turn, or the 0.0 the members start with.                        *)
(***************************************************************************)
EXTENDS Millis

CONSTANTS
    MinInterval,    \* ticks the sensor needs between transactions (999 ms)
    ResetSpan       \* how far resetTimer() sets the stamp back (3000 ms)

ASSUME SensorAssumption ==
    /\ MinInterval \in Nat /\ ResetSpan \in Nat
    /\ 0 < MinInterval /\ MinInterval <= ResetSpan /\ ResetSpan < ClockSize

NaN      == -1
Outcomes == {"none", "timeout", "checksum"}     \* ERROR_NONE and so on

Sensors == [last : Time, value : {NaN} \cup Nat, error : Outcomes, reads : Nat]

\* Bug: the stamp is set back without the wrap of unsigned long.
StampBefore(now) == now - ResetSpan

\* millis() - 3000, which wraps.
ResetStamp(now) == Elapsed(now, ResetSpan)

\* setup(): the first reading is due at once.
Setup(now) ==
    [last |-> ResetStamp(now), value |-> 0, error |-> "none", reads |-> 0]

\* Bug: the driver has no guard.
NeverTooSoon(s, now) == FALSE

\* Bug: the stamps are compared as signed numbers.
TooSoonSigned(s, now) == now - s.last < MinInterval

TooSoon(s, now) == Elapsed(now, s.last) < MinInterval

\* readSensor(): the stamp is that of the start, whatever comes of it.
ReadSensor(s, now, outcome) ==
    IF TooSoon(s, now) THEN s
    ELSE [last  |-> now,
          value |-> IF outcome = "none" THEN s.reads + 1 ELSE NaN,
          error |-> outcome,
          reads |-> s.reads + 1]

\* getTemperature(), getHumidity(): read, and read again after a timeout.
\* tries[1] and tries[2] are what the sensor answers, if it is asked.
Getter(s, now, tries) ==
    LET first == ReadSensor(s, now, tries[1])
    IN  IF first.error = "timeout" THEN ReadSensor(first, now, tries[2])
                                   ELSE first
=============================================================================
