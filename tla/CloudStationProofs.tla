------------------------- MODULE CloudStationProofs -------------------------
(***************************************************************************)
(* The board of CloudStation keeps its pace and its pairs together, and    *)
(* the page keeps its users apart, for every size of the clock, every      *)
(* delay that fits it, any users and any number of faults.                 *)
(***************************************************************************)
EXTENDS CloudStation, TLAPS

\* Up to the delay, the clock tells the age of the last upload.
Clock == age <= TimerDelay => Elapsed(now, sent) = age

\* While loop() waits, it has not waited longer than the clock says.
Waiting ==
    /\ pc # "loop" => waited = 0
    /\ pc = "loop" /\ waited > 0 =>
           /\ polled => Elapsed(now, sent) <= TimerDelay
                        /\ waited <= Elapsed(now, sent) + 1
           /\ ~polled => Elapsed(now, sent) <= TimerDelay + 1
                         /\ waited <= Elapsed(now, sent)

\* A turn writes one reading, the temperature first.
Turn ==
    /\ pc = "boot" => ~whole
    /\ pc \in Fields => contador \in Readings
    /\ pc = "humedad" /\ whole => db[Owner]["temperatura"] = contador

\* No listener outlives its user's session.
Alone == \A u \in Users : u # user => heard[u] = Silent(Off)

IInv == TypeOK /\ Clock /\ Waiting /\ Turn /\ PairTogether /\ Alone
        /\ OwnReadings
-----------------------------------------------------------------------------
LEMMA Sizes ==
    /\ ClockSize \in Nat /\ TimerDelay \in Nat /\ TimerDelay + 1 < ClockSize
    /\ Top \in Nat /\ Top > 1 /\ MaxFaults \in Nat
    /\ Owner \in Users /\ Nobody \notin Users
  BY ClockAssumption, StationAssumption DEF Users

\* The difference of two readings is a reading, and zero of one with itself.
LEMMA ElapsedTime ==
    /\ \A a, b \in Time : Elapsed(a, b) \in Time /\ Elapsed(a, b) \in Nat
    /\ \A a \in Time : Elapsed(a, a) = 0
  BY Sizes DEF Time, Elapsed

\* A tick adds one to the difference, as long as that is below the clock's.
LEMMA ElapsedTick ==
    ASSUME NEW a \in Time, NEW b \in Time
    PROVE  /\ NextReading(a) \in Time
           /\ Elapsed(a, b) <= TimerDelay =>
                  Elapsed(NextReading(a), b) = Elapsed(a, b) + 1
  BY Sizes DEF Time, Elapsed, NextReading

LEMMA Startup == Init => IInv
  <1> SUFFICES ASSUME Init
               PROVE  IInv
    OBVIOUS
  <1>1. 0 \in Time /\ Elapsed(0, 0) = 0
    BY Sizes DEF Time, Elapsed
  <1>2. db \in [Users -> [Fields -> Values]]
    <2>1. PICK g \in [Guests -> {Null, 2}] :
              db = [u \in Users |-> Silent(IF u \in Guests THEN g[u] ELSE Null)]
      BY DEF Init
    <2>2. 2 \in Values /\ Null \in Values
      BY Sizes DEF Values, Readings
    <2>3. \A h \in Values : Silent(h) \in [Fields -> Values]
      BY DEF Silent
    <2>4. \A u \in Users : (IF u \in Guests THEN g[u] ELSE Null) \in Values
      BY <2>2
    <2> QED BY <2>1, <2>3, <2>4
  <1>3. heard \in [Users -> [Fields -> Values \cup {Pending, Off}]]
    BY DEF Init, Silent
  <1>4. shown \in [Fields -> [of : Users \cup {Nobody}, value : Values]]
    BY DEF Init, Blank, Values
  <1>8. /\ contador \in 1 .. Top + 1 /\ age \in 0 .. TimerDelay + 1
        /\ faults \in 0 .. MaxFaults /\ waited \in Nat
    BY Sizes DEF Init
  <1>9. /\ now \in Time /\ sent \in Time /\ pc \in {"boot", "loop"} \cup Fields
        /\ polled \in BOOLEAN /\ whole \in BOOLEAN
        /\ user \in Users \cup {Nobody}
    BY <1>1 DEF Init
  <1>5. TypeOK
    BY <1>2, <1>3, <1>4, <1>8, <1>9 DEF TypeOK
  <1>6. Clock /\ Waiting /\ Turn /\ PairTogether
    BY <1>1, Sizes DEF Init, Clock, Waiting, Turn, PairTogether, Fields
  <1>7. Alone /\ OwnReadings
    BY Sizes DEF Init, Alone, OwnReadings
  <1> QED BY <1>5, <1>6, <1>7 DEF IInv
-----------------------------------------------------------------------------
\* What the board does is none of the page's business, and the reverse.
LEMMA PageUntouched ==
    ASSUME IInv, UNCHANGED page
    PROVE  /\ Alone' /\ OwnReadings'
           /\ user' \in Users \cup {Nobody}
           /\ heard' \in [Users -> [Fields -> Values \cup {Pending, Off}]]
           /\ shown' \in [Fields -> [of : Users \cup {Nobody}, value : Values]]
  <1>1. user' = user /\ heard' = heard /\ shown' = shown
    BY DEF page
  <1> QED BY <1>1 DEF IInv, TypeOK, Alone, OwnReadings

LEMMA BoardUntouched ==
    ASSUME IInv, UNCHANGED <<now, board, db, history, faults>>
    PROVE  /\ Clock' /\ Waiting' /\ Turn' /\ PairTogether'
           /\ /\ now' \in Time /\ sent' \in Time
              /\ pc' \in {"boot", "loop"} \cup Fields
              /\ contador' \in 1 .. Top + 1
              /\ db' \in [Users -> [Fields -> Values]]
              /\ polled' \in BOOLEAN /\ waited' \in Nat
              /\ age' \in 0 .. TimerDelay + 1 /\ whole' \in BOOLEAN
              /\ faults' \in 0 .. MaxFaults
  BY DEF IInv, TypeOK, Clock, Waiting, Turn, PairTogether, board, history

LEMMA BootsKeeps == IInv /\ Boots => IInv'
  <1> SUFFICES ASSUME IInv, Boots
               PROVE  IInv'
    OBVIOUS
  <1> USE DEF Boots
  <1>1. TypeOK'
    BY PageUntouched DEF IInv, TypeOK
  <1>2. Clock' /\ Waiting' /\ Turn' /\ PairTogether'
    BY DEF IInv, Clock, Waiting, Turn, PairTogether, Fields
  <1> QED BY <1>1, <1>2, PageUntouched DEF IInv

LEMMA NotDueKeeps == IInv /\ NotDue => IInv'
  <1> SUFFICES ASSUME IInv, NotDue
               PROVE  IInv'
    OBVIOUS
  <1> USE DEF NotDue, board
  <1>1. TypeOK'
    BY PageUntouched DEF IInv, TypeOK
  <1>2. Elapsed(now, sent) <= TimerDelay /\ Elapsed(now, sent) \in Nat
    BY ElapsedTime, Sizes DEF IInv, TypeOK, Due, Time
  <1>3. waited <= Elapsed(now, sent) /\ waited \in Nat
    BY <1>2 DEF IInv, TypeOK, Waiting
  <1>4. Waiting'
    BY <1>2, <1>3 DEF Waiting
  <1>5. Clock' /\ Turn' /\ PairTogether'
    BY DEF IInv, Clock, Turn, PairTogether
  <1> QED BY <1>1, <1>4, <1>5, PageUntouched DEF IInv

LEMMA NotReadyKeeps == IInv /\ NotReady => IInv'
  <1> SUFFICES ASSUME IInv, NotReady
               PROVE  IInv'
    OBVIOUS
  <1> USE DEF NotReady, board
  <1>1. TypeOK'
    BY PageUntouched DEF IInv, TypeOK
  <1>2. Clock' /\ Waiting' /\ Turn' /\ PairTogether'
    BY DEF IInv, Clock, Waiting, Turn, PairTogether
  <1> QED BY <1>1, <1>2, PageUntouched DEF IInv

LEMMA UploadKeeps == IInv /\ Upload => IInv'
  <1> SUFFICES ASSUME IInv, Upload
               PROVE  IInv'
    OBVIOUS
  <1> USE DEF Upload
  <1>1. contador' \in Readings /\ contador' \in 1 .. Top + 1
    BY Sizes DEF IInv, TypeOK, NextContador, Readings
  <1>2. now \in Time /\ Elapsed(now, now) = 0
    BY ElapsedTime DEF IInv, TypeOK
  <1>3. TypeOK'
    BY <1>1, <1>2, PageUntouched, Sizes DEF IInv, TypeOK, Fields
  <1>4. Clock' /\ Waiting'
    BY <1>2 DEF Clock, Waiting
  <1>5. Turn' /\ PairTogether'
    BY <1>1 DEF Turn, PairTogether
  <1> QED BY <1>3, <1>4, <1>5, PageUntouched DEF IInv

\* sendFloat() of either field, whether it succeeds or not.
LEMMA SendKeeps ==
    ASSUME IInv, pc \in Fields, Sent, polled' = FALSE,
           UNCHANGED <<now, sent, contador, page, waited, age>>,
           db' \in [Users -> [Fields -> Values]], faults' \in 0 .. MaxFaults,
           whole' \in BOOLEAN, Turn', PairTogether'
    PROVE  IInv'
  <1>1. pc' \in {"loop"} \cup Fields /\ waited = 0
    BY DEF IInv, Sent, Fields, Waiting
  <1>2. TypeOK'
    BY <1>1, PageUntouched DEF IInv, TypeOK
  <1>3. Clock' /\ Waiting'
    BY <1>1 DEF IInv, Clock, Waiting
  <1> QED BY <1>2, <1>3, PageUntouched DEF IInv

LEMMA WriteKeeps == IInv /\ Write => IInv'
  <1> SUFFICES ASSUME IInv, Write
               PROVE  IInv'
    OBVIOUS
  <1> USE DEF Write, Reading
  <1>1. /\ pc \in Fields /\ contador \in Readings /\ contador \in Values
        /\ db \in [Users -> [Fields -> Values]] /\ Owner \in Users
    BY Sizes DEF IInv, Turn, TypeOK, Values
  <1>2. db' \in [Users -> [Fields -> Values]]
    BY <1>1
  <1>3. db'[Owner] = [db[Owner] EXCEPT ![pc] = contador]
    BY <1>1
  <1>4. \A f \in Fields :
            db'[Owner][f] = IF f = pc THEN contador ELSE db[Owner][f]
    BY <1>1, <1>3
  <1>5. Turn'
    BY <1>1, <1>4 DEF Turn, Sent, Fields
  <1>6. PairTogether'
    BY <1>1, <1>4 DEF IInv, Turn, PairTogether, Sent, Fields
  <1>7. faults' \in 0 .. MaxFaults /\ whole' \in BOOLEAN
    BY DEF IInv, TypeOK
  <1> QED BY <1>2, <1>5, <1>6, <1>7, SendKeeps

LEMMA WriteFailsKeeps == IInv /\ WriteFails => IInv'
  <1> SUFFICES ASSUME IInv, WriteFails
               PROVE  IInv'
    OBVIOUS
  <1> USE DEF WriteFails
  <1>1. Turn' /\ PairTogether'
    BY DEF IInv, Turn, PairTogether, Sent, Fields
  <1>2. faults' \in 0 .. MaxFaults
    BY Sizes DEF IInv, TypeOK
  <1>3. db' \in [Users -> [Fields -> Values]]
    BY DEF IInv, TypeOK
  <1> QED BY <1>1, <1>2, <1>3, SendKeeps

LEMMA RestartsKeeps == IInv /\ Restarts => IInv'
  <1> SUFFICES ASSUME IInv, Restarts
               PROVE  IInv'
    OBVIOUS
  <1> USE DEF Restarts
  <1>1. 0 \in Time /\ Elapsed(0, 0) = 0 /\ faults' \in 0 .. MaxFaults
    BY Sizes DEF IInv, TypeOK, Time, Elapsed
  <1>4. /\ contador' \in 1 .. Top + 1 /\ age' \in 0 .. TimerDelay + 1
        /\ waited' \in Nat
    BY Sizes
  <1>2. TypeOK'
    BY <1>1, <1>4, PageUntouched DEF IInv, TypeOK
  <1>3. Clock' /\ Waiting' /\ Turn' /\ PairTogether'
    BY <1>1 DEF Clock, Waiting, Turn, PairTogether, Fields
  <1> QED BY <1>2, <1>3, PageUntouched DEF IInv

LEMMA TickKeeps == IInv /\ Tick => IInv'
  <1> SUFFICES ASSUME IInv, Tick
               PROVE  IInv'
    OBVIOUS
  <1> USE DEF Tick, board
  <1>1. /\ now' \in Time /\ Elapsed(now, sent) \in Nat
        /\ Elapsed(now, sent) <= TimerDelay =>
               Elapsed(now', sent) = Elapsed(now, sent) + 1
    <2>1. now \in Time /\ sent \in Time /\ now' = NextReading(now)
      BY DEF IInv, TypeOK
    <2>2. Elapsed(now, sent) \in Nat
      BY <2>1, ElapsedTime
    <2> QED BY <2>1, <2>2, ElapsedTick
  <1>2. age \in 0 .. TimerDelay + 1 /\ age' \in 0 .. TimerDelay + 1
    BY Sizes DEF IInv, TypeOK
  <1>3. TypeOK'
    BY <1>1, <1>2, PageUntouched DEF IInv, TypeOK
  <1>4. Clock'
    BY <1>1, <1>2, Sizes DEF IInv, Clock
  <1>5. Waiting'
    BY <1>1, Sizes DEF IInv, TypeOK, Waiting
  <1>6. Turn' /\ PairTogether'
    BY DEF IInv, Turn, PairTogether
  <1> QED BY <1>3, <1>4, <1>5, <1>6, PageUntouched DEF IInv
-----------------------------------------------------------------------------
LEMMA SilentFields == \A h \in Values \cup {Pending, Off} :
    /\ Silent(h) \in [Fields -> Values \cup {Pending, Off}]
    /\ \A f \in Fields : Silent(h)[f] = h
  BY DEF Silent

\* Neither of the two is a reading.
LEMMA NoReading ==
    /\ Pending \notin Readings /\ Off \notin Readings /\ Null \notin Readings
    /\ Pending \notin Values /\ Off \notin Values /\ Pending # Off
  BY Sizes DEF Pending, Off, Null, Readings, Values

\* Who comes or goes leaves no listener of anyone else behind.
LEMMA OthersSilent ==
    ASSUME IInv, NEW reader
    PROVE  /\ Permitted(heard, reader)
                  \in [Users -> [Fields -> Values \cup {Pending, Off}]]
           /\ \A u \in Users :
                  u # reader => Permitted(heard, reader)[u] = Silent(Off)
  BY SilentFields DEF IInv, TypeOK, Permitted, Readable

LEMMA SignInKeeps == ASSUME NEW u \in Users
                     PROVE  IInv /\ SignIn(u) => IInv'
  <1> SUFFICES ASSUME IInv, SignIn(u)
               PROVE  IInv'
    OBVIOUS
  <1> USE DEF SignIn
  <1>1. /\ heard' \in [Users -> [Fields -> Values \cup {Pending, Off}]]
        /\ heard'[u] = Silent(Pending)
        /\ \A v \in Users : v # u => heard'[v] = Silent(Off)
    BY OthersSilent, SilentFields
  <1>2. TypeOK'
    BY <1>1, BoardUntouched DEF IInv, TypeOK
  <1>3. Alone'
    BY <1>1 DEF Alone
  <1>4. OwnReadings'
    BY <1>1, SilentFields, NoReading DEF OwnReadings
  <1> QED BY <1>2, <1>3, <1>4, BoardUntouched DEF IInv

LEMMA SignOutKeeps == IInv /\ SignOut => IInv'
  <1> SUFFICES ASSUME IInv, SignOut
               PROVE  IInv'
    OBVIOUS
  <1> USE DEF SignOut
  <1>1. /\ heard' \in [Users -> [Fields -> Values \cup {Pending, Off}]]
        /\ \A v \in Users : v # Nobody => heard'[v] = Silent(Off)
    BY OthersSilent
  <1>2. TypeOK'
    BY <1>1, BoardUntouched DEF IInv, TypeOK
  <1>3. Alone' /\ OwnReadings'
    BY <1>1, Sizes DEF Alone, OwnReadings
  <1> QED BY <1>2, <1>3, BoardUntouched DEF IInv

LEMMA ReloadKeeps == IInv /\ Reload => IInv'
  <1> SUFFICES ASSUME IInv, Reload
               PROVE  IInv'
    OBVIOUS
  <1> USE DEF Reload
  <1>1. /\ heard' \in [Users -> [Fields -> Values \cup {Pending, Off}]]
        /\ \A u \in Users : heard'[u] = IF u = user THEN Silent(Pending)
                                                    ELSE Silent(Off)
    BY SilentFields
  <1>2. shown' \in [Fields -> [of : Users \cup {Nobody}, value : Values]]
    BY DEF Blank, Values
  <1>3. TypeOK'
    BY <1>1, <1>2, BoardUntouched DEF IInv, TypeOK
  <1>4. Alone'
    BY <1>1 DEF Alone
  <1>5. OwnReadings'
    BY <1>1, SilentFields, NoReading DEF OwnReadings
  <1> QED BY <1>3, <1>4, <1>5, BoardUntouched DEF IInv

LEMMA EventKeeps == ASSUME NEW u \in Users, NEW f \in Fields
                    PROVE  IInv /\ Event(u, f) => IInv'
  <1> SUFFICES ASSUME IInv, Event(u, f)
               PROVE  IInv'
    OBVIOUS
  <1> DEFINE value == db[u][f]
  <1>1. /\ heard[u][f] # Off
        /\ heard' = [heard EXCEPT ![u][f] = value]
        /\ shown' = IF value = Null THEN shown
                    ELSE [shown EXCEPT ![f] = [of |-> u, value |-> value]]
        /\ user' = user
    BY DEF Event, PathOf
  <1>2. /\ heard \in [Users -> [Fields -> Values \cup {Pending, Off}]]
        /\ shown \in [Fields -> [of : Users \cup {Nobody}, value : Values]]
        /\ value \in Values
    BY DEF IInv, TypeOK
  <1>3. u = user
    BY <1>1, SilentFields DEF IInv, Alone
  <1> HIDE DEF value
  <1>4. heard' \in [Users -> [Fields -> Values \cup {Pending, Off}]]
    BY <1>1, <1>2
  <1>5. shown' \in [Fields -> [of : Users \cup {Nobody}, value : Values]]
    BY <1>1, <1>2
  <1>6. TypeOK'
    BY <1>1, <1>4, <1>5, BoardUntouched DEF IInv, TypeOK, Event
  <1>7. Alone'
    BY <1>1, <1>2, <1>3 DEF IInv, Alone
  <1>8. OwnReadings'
    <2> SUFFICES ASSUME NEW g \in Fields, user \in Users,
                        heard'[user][g] \in Readings
                 PROVE  shown'[g] = [of |-> user, value |-> heard'[user][g]]
      BY <1>1 DEF OwnReadings
    <2>1. CASE g = f
      <3>1. heard'[user][g] = value
        BY <1>1, <1>2, <1>3, <2>1
      <3>2. value # Null
        BY <3>1, NoReading
      <3> QED BY <1>1, <1>2, <1>3, <2>1, <3>1, <3>2
    <2>2. CASE g # f
      <3>1. heard'[user][g] = heard[user][g] /\ shown'[g] = shown[g]
        BY <1>1, <1>2, <1>3, <2>2
      <3> QED BY <3>1 DEF IInv, OwnReadings
    <2> QED BY <2>1, <2>2
  <1> QED BY <1>6, <1>7, <1>8, BoardUntouched DEF IInv, Event
-----------------------------------------------------------------------------
\* The invariant the theorems follow from.
THEOREM Invariance == Spec => []IInv
  <1>1. IInv /\ Next => IInv'
    <2>1. IInv /\ (Station \/ Faults) => IInv'
      BY BootsKeeps, NotDueKeeps, NotReadyKeeps, UploadKeeps, WriteKeeps,
         TickKeeps, WriteFailsKeeps, RestartsKeeps
      DEF Station, Faults
    <2>2. IInv /\ Page => IInv'
      BY SignOutKeeps, ReloadKeeps, SignInKeeps, EventKeeps DEF Page, Events
    <2> QED BY <2>1, <2>2 DEF Next
  <1>2. IInv /\ UNCHANGED vars => IInv'
    <2> SUFFICES ASSUME IInv, UNCHANGED vars
                 PROVE  IInv'
      OBVIOUS
    <2>1. UNCHANGED page /\ UNCHANGED <<now, board, db, history, faults>>
      BY DEF vars
    <2> QED BY <2>1, PageUntouched, BoardUntouched DEF IInv, TypeOK
  <1> QED BY Startup, <1>1, <1>2, PTL DEF Spec

\* The variables of board and page keep to their types, contador to its cycle.
THEOREM TypeCorrect == Spec => []TypeOK
  <1> QED BY Invariance, PTL DEF IInv

\* Between two uploads more than timerDelay passes.
THEOREM PaceKept == Spec => Paced
  <1>1. IInv /\ [Next]_vars =>
            [pc = "loop" /\ pc' = "temperatura" =>
                 age > TimerDelay \/ sent = 0]_vars
    <2> SUFFICES ASSUME IInv, Next, pc = "loop", pc' = "temperatura"
                 PROVE  age > TimerDelay \/ sent = 0
      OBVIOUS
    <2>1. Upload
      BY DEF Next, Station, Faults, Page, Boots, NotDue, NotReady, Write, Tick,
             WriteFails, Restarts, SignOut, Reload, SignIn, Events, Event,
             board, Fields, Sent
    <2>2. Elapsed(now, sent) > TimerDelay \/ sent = 0
      BY <2>1 DEF Upload, Due
    <2>3. age \in Nat
      BY Sizes DEF IInv, TypeOK
    <2>4. Elapsed(now, sent) \in Nat
      BY ElapsedTime DEF IInv, TypeOK
    <2> QED BY <2>2, <2>3, <2>4, Sizes DEF IInv, Clock
  <1> QED BY Invariance, <1>1, PTL DEF Spec, Paced

\* A due upload is not sat out.
THEOREM NotLate == Spec => []OnTime
  <1>1. IInv => OnTime
    <2> SUFFICES ASSUME IInv
                 PROVE  OnTime
      OBVIOUS
    <2>1. waited \in Nat /\ Elapsed(now, sent) \in Nat
      BY ElapsedTime DEF IInv, TypeOK
    <2>2. waited = 0 \/ waited <= TimerDelay + 1
      BY <2>1, Sizes DEF IInv, TypeOK, Waiting
    <2> QED BY <2>1, <2>2, Sizes DEF OnTime
  <1> QED BY Invariance, <1>1, PTL

\* After a turn without a failure the database holds one reading.
THEOREM PairsKept == Spec => []PairTogether
  <1> QED BY Invariance, PTL DEF IInv

\* A user who was told a reading sees it, whoever was here before.
THEOREM ReadingsKeptApart == Spec => []OwnReadings
  <1> QED BY Invariance, PTL DEF IInv
=============================================================================
