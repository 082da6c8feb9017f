--------------------------- MODULE GreenhouseProofs ---------------------------
(***************************************************************************)
(* What holds of the greenhouse node for any number of boards and any      *)
(* delays that NodeAssumption and SensorAssumption allow.                  *)
(***************************************************************************)
EXTENDS GreenhouseNode, TLAPS

\* The stamp tells its true age until that is a whole clock.
StampAge(b) ==
    age[b] < ClockSize => Elapsed(now, sensor[b].last) = age[b]

\* Before the getters, all that was measured is old.
Old(b) ==
    pc[b] \in {"top", "subscribe", "settle"} =>
        sensor[b].reads = 0 /\ sensor[b].value \in {NaN, 0}

\* The delay before the getters is the sensor's rest.
Settling(b) ==
    pc[b] = "settle" => /\ rest[b] + wait[b] >= MinInterval
                        /\ age[b] + wait[b] >= MinInterval

\* Between the getters the first one's reading is too young to be renewed,
\* or, on a board that was away, nothing has been read in this turn.
Between(b) ==
    pc[b] = "humid" =>
        \/ /\ sensor[b].reads = 1 /\ temperatura[b] = sensor[b].value
           /\ temperatura[b] \in {NaN, 1} /\ age[b] + wait[b] <= Gap
        \/ away[b] /\ sensor[b].reads = 0 /\ rest[b] = MinInterval

\* After the getters both hold what one transaction gave.
Measured(b) ==
    pc[b] = "pulse" =>
        \/ temperatura[b] = sensor[b].value /\ temperatura[b] \in {NaN, 1}
        \/ away[b]

BoardInv(b) ==
    StampAge(b) /\ Old(b) /\ Settling(b) /\ Between(b) /\ Measured(b)

IInv == TypeOK /\ Resubscribed /\ \A b \in Boards : BoardInv(b)
-----------------------------------------------------------------------------
(* The clock and the driver. *)

LEMMA Constants ==
    /\ ClockSize \in Nat /\ ClockSize > 1
    /\ MinInterval \in Nat /\ 0 < MinInterval /\ MinInterval <= ResetSpan
    /\ ResetSpan \in Nat /\ ResetSpan < ClockSize
    /\ Period \in Nat /\ MinInterval <= Period
    /\ Gap \in Nat /\ Gap < MinInterval
    /\ Pulse \in Nat /\ Pause \in Nat /\ Retry \in Nat /\ MaxFaults \in Nat
    /\ None \notin Boards
    /\ NaN = -1
BY ClockAssumption, SensorAssumption, NodeAssumption DEF NaN

LEMMA ElapsedInTime ==
    ASSUME NEW r \in Time, NEW s \in Time
    PROVE  Elapsed(r, s) \in Time /\ Elapsed(r, r) = 0
BY ClockAssumption DEF Time, Elapsed

LEMMA ElapsedNext ==
    ASSUME NEW r \in Time, NEW s \in Time
    PROVE  /\ NextReading(r) \in Time
           /\ Elapsed(r, s) + 1 < ClockSize =>
                  Elapsed(NextReading(r), s) = Elapsed(r, s) + 1
BY ClockAssumption DEF Time, Elapsed, NextReading

\* setup() sets the stamp just so far back.
LEMMA ResetStampAge ==
    ASSUME NEW r \in Time
    PROVE  ResetStamp(r) \in Time /\ Elapsed(r, ResetStamp(r)) = ResetSpan
BY Constants DEF ResetStamp, Time, Elapsed

LEMMA SetupSensor ==
    ASSUME NEW r \in Time
    PROVE  /\ Setup(r) \in Sensors
           /\ Elapsed(r, Setup(r).last) = ResetSpan
BY ResetStampAge DEF Setup, Sensors, Outcomes

LEMMA ReadSensorType ==
    ASSUME NEW s \in Sensors, NEW r \in Time, NEW o \in Outcomes
    PROVE  ReadSensor(s, r, o) \in Sensors
BY DEF ReadSensor, Sensors

\* Whoever asks the driver again at once, it does not ask the sensor again.
LEMMA ReadAgain ==
    ASSUME NEW s \in Sensors, NEW r \in Time,
           NEW o \in Outcomes, NEW p \in Outcomes
    PROVE  ReadSensor(ReadSensor(s, r, o), r, p) = ReadSensor(s, r, o)
<1>1. CASE TooSoon(s, r)
  BY <1>1 DEF ReadSensor
<1>2. CASE ~TooSoon(s, r)
  <2>1. ReadSensor(s, r, o).last = r
    BY <1>2 DEF ReadSensor
  <2>2. Elapsed(r, r) < MinInterval
    BY ElapsedInTime, Constants
  <2>3. TooSoon(ReadSensor(s, r, o), r)
    BY <2>1, <2>2 DEF TooSoon
  <2> QED
    BY <2>3 DEF ReadSensor
<1> QED
  BY <1>1, <1>2

\* "Try a second time to read" (DHTesp.cpp:81): after a timeout the getters
\* call readSensor() again, which never reaches the sensor.
THEOREM SecondTryIdle ==
    ASSUME NEW s \in Sensors, NEW r \in Time,
           NEW tries \in Outcomes \X Outcomes
    PROVE  Getter(s, r, tries) = ReadSensor(s, r, tries[1])
<1>1. tries[1] \in Outcomes /\ tries[2] \in Outcomes
  OBVIOUS
<1> QED
  BY <1>1, ReadAgain DEF Getter

\* What a getter does to the driver.
LEMMA GetterFacts ==
    ASSUME NEW s \in Sensors, NEW r \in Time,
           NEW tries \in Outcomes \X Outcomes
    PROVE  /\ Getter(s, r, tries) \in Sensors
           /\ TooSoon(s, r) => Getter(s, r, tries) = s
           /\ ~TooSoon(s, r) =>
                  /\ Getter(s, r, tries).last = r
                  /\ Getter(s, r, tries).reads = s.reads + 1
                  /\ Getter(s, r, tries).value \in {NaN, s.reads + 1}
<1>1. tries[1] \in Outcomes
  OBVIOUS
<1>2. Getter(s, r, tries) = ReadSensor(s, r, tries[1])
  BY SecondTryIdle
<1> QED
  BY <1>1, <1>2, ReadSensorType DEF ReadSensor
-----------------------------------------------------------------------------
(* The steps of a board. *)

LEMMA Startup == Init => IInv
<1> SUFFICES ASSUME Init PROVE IInv
  OBVIOUS
<1>1. Setup(now) \in Sensors /\ Elapsed(now, Setup(now).last) = ResetSpan
  BY SetupSensor DEF Init
<1>2. \A b \in Boards : sensor[b] = Setup(now)
  BY DEF Init
<1>3. TypeOK
  <2>1. sensor \in [Boards -> Sensors]
    BY <1>1 DEF Init
  <2>2. /\ rest \in [Boards -> 0 .. MinInterval]
        /\ age \in [Boards -> 0 .. ClockSize] /\ faults \in 0 .. MaxFaults
    BY Constants DEF Init
  <2>3. /\ now \in Time /\ wait \in [Boards -> Nat]
        /\ pc \in [Boards -> {"top", "subscribe", "settle", "humid", "pulse"}]
        /\ away \in [Boards -> BOOLEAN] /\ missed \in BOOLEAN
        /\ link \in [Boards -> BOOLEAN]
        /\ temperatura \in [Boards -> {NaN} \cup Nat]
        /\ session \in Boards \cup {None} /\ subscribed \in BOOLEAN
    BY DEF Init
  <2> QED
    BY <2>1, <2>2, <2>3 DEF TypeOK
<1>4. Resubscribed
  BY Constants DEF Init, Resubscribed
<1>5. \A b \in Boards : BoardInv(b)
  BY <1>1, <1>2, Constants
     DEF Init, BoardInv, StampAge, Old, Settling, Between, Measured, Setup
<1> QED
  BY <1>3, <1>4, <1>5 DEF IInv

\* What a step of one board does not touch keeps its part of the invariant.
LEMMA OtherBoards ==
    ASSUME NEW c \in Boards, BoardInv(c), now' = now,
           pc'[c] = pc[c], wait'[c] = wait[c], sensor'[c] = sensor[c],
           temperatura'[c] = temperatura[c], rest'[c] = rest[c],
           age'[c] = age[c], away'[c] = away[c]
    PROVE  BoardInv(c)'
BY DEF BoardInv, StampAge, Old, Settling, Between, Measured

\* A step that only takes board b from before the getters to another place
\* before them.
LEMMA MovesKeeps ==
    ASSUME IInv, NEW b \in Boards, NEW p, NEW n \in Nat, Goto(b, p, n),
           pc[b] \in {"top", "subscribe"},
           p \in {"top", "subscribe"} \/ (p = "settle" /\ n = Period),
           UNCHANGED <<now, sensor, temperatura, history>>
    PROVE  /\ pc' \in [Boards -> {"top", "subscribe", "settle", "humid",
                                  "pulse"}]
           /\ wait' \in [Boards -> Nat]
           /\ pc'[b] = p /\ \A c \in Boards \ {b} : pc'[c] = pc[c]
           /\ \A c \in Boards : BoardInv(c)'
<1>1. /\ pc' \in [Boards -> {"top", "subscribe", "settle", "humid", "pulse"}]
      /\ wait' \in [Boards -> Nat] /\ pc'[b] = p /\ wait'[b] = n
      /\ \A c \in Boards \ {b} : pc'[c] = pc[c] /\ wait'[c] = wait[c]
  BY DEF Goto, IInv, TypeOK
<1>2. BoardInv(b)'
  <2>1. rest[b] \in Nat /\ age[b] \in Nat
    BY Constants DEF IInv, TypeOK
  <2>2. /\ StampAge(b) /\ sensor[b].reads = 0
        /\ sensor[b].value \in {NaN, 0}
    BY DEF IInv, BoardInv, Old
  <2>3. StampAge(b)' /\ Old(b)'
    BY <2>2 DEF StampAge, Old, history
  <2>4. Settling(b)'
    BY <1>1, <2>1, Constants DEF Settling, history
  <2>5. Between(b)' /\ Measured(b)'
    BY <1>1 DEF Between, Measured
  <2> QED
    BY <2>3, <2>4, <2>5 DEF BoardInv
<1>3. ASSUME NEW c \in Boards, c # b PROVE BoardInv(c)'
  BY <1>1, <1>3, OtherBoards DEF IInv, history
<1> QED
  BY <1>1, <1>2, <1>3

LEMMA TurnKeeps ==
    ASSUME IInv, NEW b \in Boards, Turn(b)
    PROVE  IInv'
<1>1. /\ pc' \in [Boards -> {"top", "subscribe", "settle", "humid", "pulse"}]
      /\ wait' \in [Boards -> Nat]
      /\ \A c \in Boards \ {b} : pc'[c] = pc[c]
      /\ \A c \in Boards : BoardInv(c)'
  BY MovesKeeps, Constants DEF Turn, At, NewTurn
<1>2. TypeOK'
  BY <1>1 DEF Turn, broker, history, IInv, TypeOK
<1>3. Resubscribed'
  BY <1>1 DEF Turn, At, broker, IInv, Resubscribed
<1> QED
  BY <1>1, <1>2, <1>3 DEF IInv

LEMMA ConnectsKeeps ==
    ASSUME IInv, NEW b \in Boards, Connects(b)
    PROVE  IInv'
<1>1. /\ pc' \in [Boards -> {"top", "subscribe", "settle", "humid", "pulse"}]
      /\ wait' \in [Boards -> Nat] /\ pc'[b] = "subscribe"
      /\ \A c \in Boards : BoardInv(c)'
  BY MovesKeeps DEF Connects, At
<1>2. TypeOK'
  BY <1>1 DEF Connects, history, IInv, TypeOK
<1>3. Resubscribed'
  BY <1>1 DEF Connects, Resubscribed
<1> QED
  BY <1>1, <1>2, <1>3 DEF IInv

LEMMA ConnectFailsKeeps ==
    ASSUME IInv, NEW b \in Boards, ConnectFails(b)
    PROVE  IInv'
<1>1. /\ pc' \in [Boards -> {"top", "subscribe", "settle", "humid", "pulse"}]
      /\ wait' \in [Boards -> Nat]
      /\ \A c \in Boards \ {b} : pc'[c] = pc[c]
      /\ \A c \in Boards : BoardInv(c)'
  BY MovesKeeps, Constants DEF ConnectFails, At
<1>2. TypeOK'
  BY <1>1 DEF ConnectFails, broker, history, IInv, TypeOK
<1>3. Resubscribed'
  BY <1>1 DEF ConnectFails, broker, IInv, Resubscribed
<1> QED
  BY <1>1, <1>2, <1>3 DEF IInv

LEMMA SubscribesKeeps ==
    ASSUME IInv, NEW b \in Boards, Subscribes(b)
    PROVE  IInv'
<1>1. /\ pc' \in [Boards -> {"top", "subscribe", "settle", "humid", "pulse"}]
      /\ wait' \in [Boards -> Nat]
      /\ \A c \in Boards \ {b} : pc'[c] = pc[c]
      /\ \A c \in Boards : BoardInv(c)'
  <2>1. pc[b] = "subscribe" /\ UNCHANGED <<now, sensor, temperatura, history>>
    BY DEF Subscribes, At
  <2>2. CASE Goto(b, "settle", Period)
    BY <2>1, <2>2, MovesKeeps, Constants
  <2>3. CASE Goto(b, "top", 0)
    BY <2>1, <2>3, MovesKeeps
  <2> QED
    BY <2>2, <2>3 DEF Subscribes, NewTurn
<1>2. /\ subscribed' \in BOOLEAN /\ missed' \in BOOLEAN
      /\ faults' \in 0 .. MaxFaults
  <2>1. subscribed \in BOOLEAN /\ missed \in BOOLEAN
    BY DEF IInv, TypeOK
  <2>2. faults \in 0 .. MaxFaults /\ MaxFaults \in Nat
    BY Constants DEF IInv, TypeOK
  <2>3. faults' = faults \/ Fault
    BY DEF Subscribes
  <2>4. faults' \in 0 .. MaxFaults
    BY <2>2, <2>3 DEF Fault
  <2>5. /\ subscribed' \in {TRUE, subscribed}
        /\ missed' \in {TRUE, missed}
    BY DEF Subscribes, Subscription
  <2> QED
    BY <2>1, <2>4, <2>5
<1>3. TypeOK'
  BY <1>1, <1>2 DEF Subscribes, history, IInv, TypeOK
<1>4. Resubscribed'
  <2>1. UNCHANGED <<link, session>>
    BY DEF Subscribes
  <2>2. CASE link[b] /\ session = b
    <3>1. subscribed' \/ missed'
      BY <2>2, Zenon DEF Subscribes, Subscription
    <3> QED
      BY <3>1, Zenon DEF Resubscribed
  <2>3. CASE ~(link[b] /\ session = b)
    <3>1. UNCHANGED <<subscribed, missed>>
      BY <2>3, Zenon DEF Subscribes
    <3> QED
      BY <1>1, <2>1, <2>3, <3>1 DEF IInv, Resubscribed
  <2> QED
    BY <2>2, <2>3
<1> QED
  BY <1>1, <1>3, <1>4 DEF IInv

LEMMA ReturnsKeeps ==
    ASSUME IInv, NEW b \in Boards, NEW n \in Nat, Returns(b, n),
           pc[b] = "pulse"
    PROVE  IInv' /\ sensor'[b].reads = 0
           /\ \A c \in Boards \ {b} : sensor'[c] = sensor[c]
<1> DEFINE s == [sensor[b] EXCEPT !.reads = 0,
                                 !.value = IF @ = NaN THEN NaN ELSE 0]
<1>1. sensor[b] \in Sensors
  BY DEF IInv, TypeOK
<1>2. /\ s \in Sensors /\ s.last = sensor[b].last
      /\ s.reads = 0 /\ s.value \in {NaN, 0}
  BY <1>1 DEF Sensors
<1>3. sensor' = [sensor EXCEPT ![b] = s]
  BY <1>1 DEF Returns, IInv, TypeOK, Sensors
<1> HIDE DEF s
<1>4. /\ pc' \in [Boards -> {"top", "subscribe", "settle", "humid", "pulse"}]
      /\ wait' \in [Boards -> Nat] /\ pc'[b] = "top"
      /\ sensor' \in [Boards -> Sensors] /\ sensor'[b] = s
      /\ temperatura' \in [Boards -> {NaN} \cup Nat]
      /\ away' \in [Boards -> BOOLEAN]
  <2>1. /\ pc' = [pc EXCEPT ![b] = "top"] /\ wait' = [wait EXCEPT ![b] = n]
        /\ temperatura' = [temperatura EXCEPT ![b] = NaN]
        /\ away' = [away EXCEPT ![b] = FALSE]
    BY DEF Returns, Goto
  <2> QED
    BY <1>2, <1>3, <2>1 DEF IInv, TypeOK
<1>5. \A c \in Boards \ {b} :
         /\ pc'[c] = pc[c] /\ wait'[c] = wait[c] /\ sensor'[c] = sensor[c]
         /\ temperatura'[c] = temperatura[c] /\ away'[c] = away[c]
  BY <1>3 DEF Returns, Goto, IInv, TypeOK
<1>6. TypeOK'
  BY <1>4 DEF Returns, broker, IInv, TypeOK
<1>7. Resubscribed'
  BY <1>4, <1>5 DEF Returns, broker, IInv, Resubscribed
<1>8. BoardInv(b)'
  BY <1>2, <1>4 DEF Returns, IInv, BoardInv, StampAge, Old, Settling, Between,
                    Measured
<1>9. \A c \in Boards \ {b} : BoardInv(c)'
  BY <1>5, OtherBoards DEF Returns, IInv
<1> QED
  BY <1>2, <1>4, <1>5, <1>6, <1>7, <1>8, <1>9 DEF IInv

\* The sensor is asked, or it was asked less than MinInterval ago.
LEMMA Asking ==
    ASSUME IInv, NEW b \in Boards, Asks(b)
    PROVE  /\ sensor' \in [Boards -> Sensors]
           /\ rest' \in [Boards -> 0 .. MinInterval]
           /\ age' \in [Boards -> 0 .. ClockSize]
           /\ faults' \in 0 .. MaxFaults
           /\ \A c \in Boards \ {b} : /\ sensor'[c] = sensor[c]
                                       /\ rest'[c] = rest[c]
                                       /\ age'[c] = age[c]
           /\ \/ /\ TooSoon(sensor[b], now) /\ sensor'[b] = sensor[b]
                 /\ rest'[b] = rest[b] /\ age'[b] = age[b]
              \/ /\ ~TooSoon(sensor[b], now)
                 /\ sensor'[b].last = now
                 /\ sensor'[b].reads = sensor[b].reads + 1
                 /\ sensor'[b].value \in {NaN, sensor[b].reads + 1}
                 /\ rest'[b] = 0 /\ age'[b] = 0
<1>1. /\ sensor[b] \in Sensors /\ now \in Time /\ sensor[b].reads \in Nat
      /\ faults \in 0 .. MaxFaults /\ MaxFaults \in Nat
  BY Constants DEF IInv, TypeOK, Sensors
<1>2. PICK s \in {Getter(sensor[b], now, tries) :
                      tries \in Outcomes \X Outcomes} :
        /\ sensor' = [sensor EXCEPT ![b] = s]
        /\ IF s.reads > sensor[b].reads
           THEN /\ rest' = [rest EXCEPT ![b] = 0]
                /\ age' = [age EXCEPT ![b] = 0]
                /\ IF s.value = NaN THEN Fault ELSE UNCHANGED faults
           ELSE UNCHANGED <<rest, age, faults>>
  BY Zenon DEF Asks
<1>3. /\ s \in Sensors
      /\ TooSoon(sensor[b], now) => s = sensor[b]
      /\ ~TooSoon(sensor[b], now) =>
            /\ s.last = now /\ s.reads = sensor[b].reads + 1
            /\ s.value \in {NaN, sensor[b].reads + 1}
  <2>1. PICK tries \in Outcomes \X Outcomes : s = Getter(sensor[b], now, tries)
    BY <1>2
  <2> QED
    BY <1>1, <2>1, GetterFacts
<1>4. /\ sensor' = [sensor EXCEPT ![b] = s]
      /\ s.reads > sensor[b].reads =>
            /\ rest' = [rest EXCEPT ![b] = 0] /\ age' = [age EXCEPT ![b] = 0]
            /\ Fault \/ UNCHANGED faults
      /\ ~(s.reads > sensor[b].reads) => UNCHANGED <<rest, age, faults>>
  BY <1>2
<1>5. faults' \in 0 .. MaxFaults
  BY <1>1, <1>4 DEF Fault
<1>6. sensor' \in [Boards -> Sensors] /\ sensor'[b] = s
  BY <1>3, <1>4 DEF IInv, TypeOK
<1>7. /\ rest \in [Boards -> 0 .. MinInterval]
      /\ age \in [Boards -> 0 .. ClockSize]
      /\ 0 \in 0 .. MinInterval /\ 0 \in 0 .. ClockSize
  BY Constants DEF IInv, TypeOK
<1>8. CASE TooSoon(sensor[b], now)
  <2>1. UNCHANGED <<rest, age>>
    BY <1>1, <1>3, <1>4, <1>8
  <2> QED
    BY <1>3, <1>4, <1>5, <1>6, <1>7, <1>8, <2>1
<1>9. CASE ~TooSoon(sensor[b], now)
  <2>1. /\ rest' = [rest EXCEPT ![b] = 0] /\ age' = [age EXCEPT ![b] = 0]
    BY <1>1, <1>3, <1>4, <1>9
  <2>2. /\ rest' \in [Boards -> 0 .. MinInterval]
        /\ age' \in [Boards -> 0 .. ClockSize]
        /\ rest'[b] = 0 /\ age'[b] = 0
        /\ \A c \in Boards \ {b} : rest'[c] = rest[c] /\ age'[c] = age[c]
    BY <1>7, <2>1
  <2>3. \A c \in Boards \ {b} : sensor'[c] = sensor[c]
    BY <1>4
  <2> QED
    BY <1>3, <1>5, <1>6, <1>9, <2>2, <2>3
<1> QED
  BY <1>8, <1>9

LEMMA GetTemperatureKeeps ==
    ASSUME IInv, NEW b \in Boards, GetTemperature(b)
    PROVE  /\ IInv'
           /\ sensor'[b].reads > sensor[b].reads =>
                  /\ rest[b] = MinInterval
                  /\ sensor'[b].reads = sensor[b].reads + 1
           /\ \A c \in Boards \ {b} : sensor'[c] = sensor[c]
<1>1. PICK gap \in 0 .. Gap : Goto(b, "humid", gap)
  BY DEF GetTemperature
<1>2. /\ sensor' \in [Boards -> Sensors]
      /\ rest' \in [Boards -> 0 .. MinInterval]
      /\ age' \in [Boards -> 0 .. ClockSize] /\ faults' \in 0 .. MaxFaults
      /\ \A c \in Boards \ {b} : /\ sensor'[c] = sensor[c]
                                  /\ rest'[c] = rest[c] /\ age'[c] = age[c]
  BY Asking DEF GetTemperature
<1>3. sensor'[b].value \in {NaN} \cup Nat
  BY <1>2 DEF Sensors
<1>4. /\ pc' \in [Boards -> {"top", "subscribe", "settle", "humid", "pulse"}]
      /\ wait' \in [Boards -> Nat] /\ pc'[b] = "humid" /\ wait'[b] = gap
      /\ temperatura' \in [Boards -> {NaN} \cup Nat]
      /\ temperatura'[b] = sensor'[b].value
      /\ away' \in [Boards -> BOOLEAN] /\ away'[b] = (age[b] = ClockSize)
  BY <1>1, <1>3, Constants DEF GetTemperature, Goto, IInv, TypeOK
<1>5. \A c \in Boards \ {b} :
         /\ pc'[c] = pc[c] /\ wait'[c] = wait[c]
         /\ temperatura'[c] = temperatura[c] /\ away'[c] = away[c]
  BY <1>1 DEF GetTemperature, Goto, IInv, TypeOK
<1>6. TypeOK'
  BY <1>2, <1>4 DEF GetTemperature, broker, IInv, TypeOK
<1>7. Resubscribed'
  BY <1>4, <1>5 DEF GetTemperature, At, broker, IInv, Resubscribed
<1>8. /\ sensor[b].reads = 0 /\ rest[b] = MinInterval
      /\ age[b] \in 0 .. ClockSize /\ age[b] >= MinInterval
      /\ StampAge(b) /\ now' = now /\ now \in Time
  BY Constants
     DEF GetTemperature, At, IInv, TypeOK, BoardInv, Old, Settling
<1>9. \/ /\ age[b] = ClockSize /\ sensor'[b] = sensor[b]
         /\ rest'[b] = rest[b] /\ age'[b] = age[b]
      \/ /\ sensor'[b].last = now /\ sensor'[b].reads = 1
         /\ sensor'[b].value \in {NaN, 1} /\ age'[b] = 0
  <2>1. TooSoon(sensor[b], now) => age[b] = ClockSize
    BY <1>8, Constants DEF TooSoon, StampAge
  <2> QED
    BY <1>8, <2>1, Asking DEF GetTemperature
<1>10. BoardInv(b)'
  <2>1. StampAge(b)'
    BY <1>8, <1>9, ElapsedInTime DEF StampAge
  <2>2. Between(b)'
    BY <1>4, <1>8, <1>9, Constants DEF Between
  <2>3. Old(b)' /\ Settling(b)' /\ Measured(b)'
    BY <1>4 DEF Old, Settling, Measured
  <2> QED
    BY <2>1, <2>2, <2>3 DEF BoardInv
<1>11. \A c \in Boards \ {b} : BoardInv(c)'
  BY <1>2, <1>5, <1>8, OtherBoards DEF IInv
<1> QED
  BY <1>2, <1>6, <1>7, <1>8, <1>9, <1>10, <1>11 DEF IInv

LEMMA GetHumidityKeeps ==
    ASSUME IInv, NEW b \in Boards, GetHumidity(b)
    PROVE  /\ IInv'
           /\ sensor'[b].reads > sensor[b].reads =>
                  /\ rest[b] = MinInterval
                  /\ sensor'[b].reads = sensor[b].reads + 1
           /\ \A c \in Boards \ {b} : sensor'[c] = sensor[c]
<1>1. PICK echo \in 0 .. Pulse : Goto(b, "pulse", echo)
  BY DEF GetHumidity
<1>2. /\ sensor' \in [Boards -> Sensors]
      /\ rest' \in [Boards -> 0 .. MinInterval]
      /\ age' \in [Boards -> 0 .. ClockSize] /\ faults' \in 0 .. MaxFaults
      /\ \A c \in Boards \ {b} : /\ sensor'[c] = sensor[c]
                                  /\ rest'[c] = rest[c] /\ age'[c] = age[c]
  BY Asking DEF GetHumidity
<1>3. /\ pc' \in [Boards -> {"top", "subscribe", "settle", "humid", "pulse"}]
      /\ wait' \in [Boards -> Nat] /\ pc'[b] = "pulse"
  BY <1>1, Constants DEF Goto, IInv, TypeOK
<1>4. \A c \in Boards \ {b} : pc'[c] = pc[c] /\ wait'[c] = wait[c]
  BY <1>1 DEF Goto, IInv, TypeOK
<1>5. TypeOK'
  BY <1>2, <1>3 DEF GetHumidity, broker, IInv, TypeOK
<1>6. Resubscribed'
  BY <1>3, <1>4 DEF GetHumidity, At, broker, IInv, Resubscribed
<1>7. /\ StampAge(b) /\ now' = now /\ now \in Time
      /\ age[b] \in 0 .. ClockSize /\ sensor[b].reads \in Nat
      /\ UNCHANGED <<temperatura, away>>
  BY DEF GetHumidity, IInv, TypeOK, BoardInv, Sensors
<1>8. \/ /\ TooSoon(sensor[b], now) /\ sensor'[b] = sensor[b]
         /\ age'[b] = age[b]
      \/ /\ ~TooSoon(sensor[b], now) /\ sensor'[b].last = now
         /\ sensor'[b].reads = sensor[b].reads + 1 /\ age'[b] = 0
  BY Asking DEF GetHumidity
<1>9. \/ /\ temperatura[b] = sensor[b].value /\ temperatura[b] \in {NaN, 1}
         /\ TooSoon(sensor[b], now)
      \/ away[b] /\ rest[b] = MinInterval
  <2>1. \/ /\ temperatura[b] = sensor[b].value
           /\ temperatura[b] \in {NaN, 1} /\ age[b] <= Gap
        \/ away[b] /\ rest[b] = MinInterval
    BY <1>7 DEF GetHumidity, At, IInv, BoardInv, Between
  <2>2. age[b] <= Gap => TooSoon(sensor[b], now)
    BY <1>7, Constants DEF StampAge, TooSoon
  <2> QED
    BY <2>1, <2>2
<1>10. BoardInv(b)'
  <2>1. StampAge(b)'
    BY <1>7, <1>8, ElapsedInTime DEF StampAge
  <2>2. Measured(b)'
    BY <1>7, <1>8, <1>9 DEF Measured
  <2>3. Old(b)' /\ Settling(b)' /\ Between(b)'
    BY <1>3 DEF Old, Settling, Between
  <2> QED
    BY <2>1, <2>2, <2>3 DEF BoardInv
<1>11. \A c \in Boards \ {b} : BoardInv(c)'
  BY <1>2, <1>4, <1>7, OtherBoards DEF IInv
<1> QED
  BY <1>2, <1>5, <1>6, <1>7, <1>8, <1>9, <1>10, <1>11 DEF IInv
-----------------------------------------------------------------------------
(* The network, power and time. *)

LEMMA NoticesKeeps ==
    ASSUME IInv, NEW b \in Boards, Notices(b)
    PROVE  IInv'
<1>1. TypeOK'
  BY DEF Notices, broker, history, IInv, TypeOK
<1>2. Resubscribed'
  BY DEF Notices, broker, IInv, TypeOK, Resubscribed
<1> QED
  BY <1>1, <1>2, OtherBoards DEF Notices, IInv, history

LEMMA BreaksKeeps ==
    ASSUME IInv, NEW b \in Boards, Breaks(b)
    PROVE  IInv'
<1>1. /\ link' \in [Boards -> BOOLEAN] /\ session' \in Boards \cup {None}
      /\ subscribed' \in BOOLEAN /\ missed' \in BOOLEAN
      /\ Resubscribed'
  <2>1. CASE link' = [link EXCEPT ![b] = FALSE] /\ UNCHANGED broker
    BY <2>1 DEF Breaks, broker, IInv, TypeOK, Resubscribed
  <2>2. CASE /\ session' = None /\ subscribed' = FALSE /\ missed' = FALSE
             /\ UNCHANGED link
    BY <2>2, Constants DEF IInv, TypeOK, Resubscribed
  <2> QED
    BY <2>1, <2>2 DEF Breaks
<1>2. faults' \in 0 .. MaxFaults
  BY Constants DEF Breaks, Fault, IInv, TypeOK
<1>3. TypeOK'
  BY <1>1, <1>2 DEF Breaks, history, IInv, TypeOK
<1> QED
  BY <1>1, <1>3, OtherBoards DEF Breaks, history, IInv

LEMMA RestartsKeeps ==
    ASSUME IInv, NEW b \in Boards, Restarts(b)
    PROVE  IInv' /\ sensor'[b].reads = 0
           /\ \A c \in Boards \ {b} : sensor'[c] = sensor[c]
<1>1. /\ Setup(now) \in Sensors /\ Elapsed(now, Setup(now).last) = ResetSpan
      /\ Setup(now).reads = 0 /\ Setup(now).value = 0
  BY SetupSensor DEF IInv, TypeOK, Setup
<1>2. TypeOK'
  <2>1. sensor' \in [Boards -> Sensors]
    BY <1>1 DEF Restarts, IInv, TypeOK
  <2>2. /\ faults' \in 0 .. MaxFaults /\ age' \in [Boards -> 0 .. ClockSize]
        /\ away' \in [Boards -> BOOLEAN]
    BY Constants DEF Restarts, Fault, IInv, TypeOK
  <2> QED
    BY <2>1, <2>2 DEF Restarts, Goto, broker, IInv, TypeOK
<1>3. Resubscribed'
  BY DEF Restarts, Goto, broker, IInv, TypeOK, Resubscribed
<1>4. /\ sensor'[b] = Setup(now) /\ pc'[b] = "top" /\ now' = now
      /\ age'[b] = ResetSpan
  BY DEF Restarts, Goto, IInv, TypeOK
<1>5. BoardInv(b)'
  BY <1>1, <1>4 DEF BoardInv, StampAge, Old, Settling, Between, Measured
<1>6. ASSUME NEW c \in Boards, c # b
      PROVE  BoardInv(c)' /\ sensor'[c] = sensor[c]
  BY <1>6, OtherBoards DEF Restarts, Goto, IInv, TypeOK
<1> QED
  BY <1>1, <1>2, <1>3, <1>4, <1>5, <1>6 DEF IInv

LEMMA TickKeeps ==
    ASSUME IInv, Tick
    PROVE  IInv'
<1>1. now \in Time /\ now' = NextReading(now) /\ now' \in Time
  BY ElapsedNext DEF IInv, TypeOK, Tick
<1>2. /\ wait' \in [Boards -> Nat] /\ rest' \in [Boards -> 0 .. MinInterval]
      /\ age' \in [Boards -> 0 .. ClockSize]
  BY Constants DEF Tick, IInv, TypeOK
<1>3. TypeOK' /\ Resubscribed'
  BY <1>1, <1>2 DEF Tick, broker, IInv, TypeOK, Resubscribed
<1>4. ASSUME NEW b \in Boards PROVE BoardInv(b)'
  <2>1. /\ sensor'[b] = sensor[b] /\ sensor[b].last \in Time
        /\ pc'[b] = pc[b] /\ temperatura'[b] = temperatura[b]
        /\ away'[b] = away[b] /\ wait[b] \in Nat
        /\ rest[b] \in 0 .. MinInterval /\ age[b] \in 0 .. ClockSize
        /\ rest'[b] = IF rest[b] < MinInterval THEN rest[b] + 1 ELSE rest[b]
        /\ age'[b] = IF age[b] < ClockSize THEN age[b] + 1 ELSE age[b]
        /\ wait'[b] = IF wait[b] > 0 THEN wait[b] - 1 ELSE 0
    BY DEF IInv, TypeOK, Tick, Sensors
  <2>2. BoardInv(b)
    BY DEF IInv
  <2>3. pc[b] # "top" => wait[b] > 0
    BY <2>1 DEF Tick
  <2>4. StampAge(b)'
    <3>1. SUFFICES ASSUME age'[b] < ClockSize
                   PROVE  Elapsed(now', sensor'[b].last) = age'[b]
      BY DEF StampAge
    <3>2. age[b] + 1 < ClockSize /\ age'[b] = age[b] + 1
      BY <2>1, <3>1, Constants
    <3>3. Elapsed(now, sensor[b].last) = age[b]
      BY <2>2, <3>2, <2>1, Constants DEF BoardInv, StampAge
    <3> QED
      BY <1>1, <2>1, <3>2, <3>3, ElapsedNext
  <2>5. Old(b)' /\ Measured(b)'
    BY <2>1, <2>2 DEF BoardInv, Old, Measured
  <2>6. Settling(b)'
    <3>1. SUFFICES ASSUME pc[b] = "settle"
                   PROVE  /\ rest'[b] + wait'[b] >= MinInterval
                          /\ age'[b] + wait'[b] >= MinInterval
      BY <2>1 DEF Settling
    <3>2. /\ rest[b] + wait[b] >= MinInterval /\ wait[b] > 0
          /\ age[b] + wait[b] >= MinInterval
      BY <2>2, <2>3, <3>1 DEF BoardInv, Settling
    <3> QED
      BY <2>1, <3>2, Constants
  <2>7. Between(b)'
    BY <2>1, <2>2, <2>3, Constants DEF BoardInv, Between
  <2> QED
    BY <2>4, <2>5, <2>6, <2>7 DEF BoardInv
<1> QED
  BY <1>3, <1>4 DEF IInv
-----------------------------------------------------------------------------
(* The theorems. *)

LEMMA NextKeeps ==
    ASSUME IInv, [Next]_vars
    PROVE  /\ IInv'
           /\ \A b \in Boards : sensor'[b].reads > sensor[b].reads =>
                  /\ rest[b] = MinInterval
                  /\ sensor'[b].reads = sensor[b].reads + 1
<1> DEFINE Quiet == \A b \in Boards : sensor'[b].reads <= sensor[b].reads
<1>0. \A b \in Boards : sensor[b].reads \in Nat
  BY DEF IInv, TypeOK, Sensors
<1>1. CASE UNCHANGED vars
  <2>1. IInv'
    BY <1>1 DEF vars, broker, history, IInv, TypeOK, Resubscribed, BoardInv,
                StampAge, Old, Settling, Between, Measured
  <2> QED
    BY <1>0, <1>1, <2>1 DEF vars
<1>2. CASE Tick
  BY <1>0, <1>2, TickKeeps DEF Tick
<1>3. ASSUME NEW b \in Boards,
             \/ Turn(b) \/ Connects(b) \/ ConnectFails(b) \/ Subscribes(b)
             \/ Notices(b) \/ Breaks(b)
      PROVE  IInv' /\ Quiet
  <2>1. UNCHANGED sensor
    BY <1>3 DEF Turn, Connects, ConnectFails, Subscribes, Notices, Breaks
  <2> QED
    BY <1>0, <1>3, <2>1, TurnKeeps, ConnectsKeeps, ConnectFailsKeeps,
       SubscribesKeeps, NoticesKeeps, BreaksKeeps
<1>4. ASSUME NEW b \in Boards, GivesUp(b) \/ Publishes(b)
      PROVE  IInv' /\ Quiet
  <2>1. pc[b] = "pulse" /\ (Returns(b, 0) \/ Returns(b, Pause))
    BY <1>4 DEF GivesUp, Publishes, TurnPause, At
  <2> QED
    BY <1>0, <2>1, ReturnsKeeps, Constants
<1>5. ASSUME NEW b \in Boards, Restarts(b) PROVE IInv' /\ Quiet
  BY <1>0, <1>5, RestartsKeeps
<1>6. ASSUME NEW b \in Boards, GetTemperature(b) \/ GetHumidity(b)
      PROVE  /\ IInv'
             /\ \A c \in Boards : sensor'[c].reads > sensor[c].reads =>
                    /\ rest[c] = MinInterval
                    /\ sensor'[c].reads = sensor[c].reads + 1
  BY <1>0, <1>6, GetTemperatureKeeps, GetHumidityKeeps
<1>7. IInv' => \A b \in Boards : sensor'[b].reads \in Nat
  BY DEF IInv, TypeOK, Sensors
<1> QED
  BY <1>0, <1>1, <1>2, <1>3, <1>4, <1>5, <1>6, <1>7 DEF Next, Steps

\* The invariant holds for ever.
THEOREM Invariance == Spec => []IInv
<1>1. IInv /\ [Next]_vars => IInv'
  BY NextKeeps
<1> QED
  BY Startup, <1>1, PTL DEF Spec

\* Every variable keeps to its type.
THEOREM TypeCorrect == Spec => []TypeOK
<1>1. IInv => TypeOK
  BY DEF IInv
<1> QED
  BY Invariance, <1>1, PTL

\* What is published is one reading of this turn (proyectofuncionando.ino:98,
\* 99), though each getter reads the clock for itself: what the first one got
\* is too young for the second to renew it.
THEOREM AlwaysFresh == Spec => []Fresh
<1>1. IInv => Fresh
  BY Constants DEF IInv, BoardInv, Measured, Fresh, Failed
<1> QED
  BY Invariance, <1>1, PTL

\* The sensor rests between two transactions (DHTesp.cpp:163).
THEOREM AlwaysRested == Spec => BusRested
<1>1. IInv /\ [Next]_vars =>
        [\A b \in Boards : sensor'[b].reads > sensor[b].reads =>
            /\ rest[b] = MinInterval
            /\ sensor'[b].reads = sensor[b].reads + 1]_vars
  BY NextKeeps
<1> QED
  BY Invariance, <1>1, PTL DEF Spec, BusRested

\* Whatever is lost, taken over or restarted between connect() and subscribe()
\* (proyectofuncionando.ino:196-199), a board that goes on with a session has
\* its subscription, unless that write failed.
THEOREM AlwaysResubscribed == Spec => []Resubscribed
<1>1. IInv => Resubscribed
  BY DEF IInv
<1> QED
  BY Invariance, <1>1, PTL
=============================================================================
