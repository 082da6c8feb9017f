------------------------- MODULE PubSubClientProofs -------------------------
(***************************************************************************)
(* Theorems about the MQTT client, for every clock, interval and buffer.   *)
(***************************************************************************)
EXTENDS PubSubClient, TLAPS

\* The clock: one tick adds one to every difference until it wraps.
LEMMA NextReadingType ==
    ASSUME NEW r \in Time PROVE NextReading(r) \in Time
BY ClockAssumption DEF Time, NextReading

LEMMA ElapsedType ==
    ASSUME NEW a \in Time, NEW b \in Time
    PROVE  Elapsed(a, b) \in Nat /\ Elapsed(a, b) < ClockSize
BY ClockAssumption DEF Time, Elapsed

LEMMA ElapsedSelf ==
    ASSUME NEW a \in Time PROVE Elapsed(a, a) = 0
BY ClockAssumption DEF Time, Elapsed

LEMMA ElapsedTick ==
    ASSUME NEW a \in Time, NEW b \in Time, Elapsed(a, b) + 1 < ClockSize
    PROVE  Elapsed(NextReading(a), b) = Elapsed(a, b) + 1
BY ClockAssumption DEF Time, Elapsed, NextReading
-----------------------------------------------------------------------------
\* A clock has a zero.
LEMMA ZeroTime == 0 \in Time
BY ClockAssumption DEF Time

\* Reading a cell leaves a sequence of cells.
LEMMA ReadCell ==
    ASSUME NEW s \in Seq(Cells), s # <<>>
    PROVE  Head(s) \in Cells /\ Tail(s) \in Seq(Cells)
OBVIOUS

\* So does a packet that arrives.
LEMMA AppendCells ==
    ASSUME NEW s \in Seq(Cells), NEW u \in Seq(Cells)
    PROVE  s \o u \in Seq(Cells)
OBVIOUS

\* Whatever the broker sends is a cell.
LEMMA CellKinds ==
    /\ Kinds \subseteq Cells /\ Greetings \subseteq Cells /\ "REST" \in Cells
    /\ Inbound \subseteq Cells
BY ConfigAssumption DEF Cells

\* Every step keeps every variable in its type.
LEMMA TypeStep ==
    ASSUME TypeOK, [Next]_vars
    PROVE  TypeOK'
<1> USE DEF TypeOK, ClocksOK, StreamOK, StatusOK, CountsOK, FlagsOK,
        client, calls, wire, broker, ages,
        Disconnected, ReadingLoop, ReadingConnect
<1>1. CASE TcpFails
  <2>1. ClocksOK' BY <1>1, ZeroTime, NextReadingType DEF TcpFails
  <2>2. StreamOK' BY <1>1, ReadCell, CellKinds DEF TcpFails
  <2>3. StatusOK' BY <1>1, ConfigAssumption DEF TcpFails
  <2>4. CountsOK' BY <1>1 DEF TcpFails
  <2>5. FlagsOK' BY <1>1 DEF TcpFails
  <2>6. QED BY <2>1, <2>2, <2>3, <2>4, <2>5 DEF TypeOK
<1>2. CASE CredentialsTooLong
  <2>1. ClocksOK'
    BY <1>2, ZeroTime, NextReadingType DEF CredentialsTooLong, Noticed, Stop,
         ConnectBegins
  <2>2. StreamOK'
    BY <1>2, ReadCell, CellKinds DEF CredentialsTooLong, Noticed, Stop,
         ConnectBegins
  <2>3. StatusOK'
    BY <1>2, ConfigAssumption DEF CredentialsTooLong, Noticed, Stop,
         ConnectBegins
  <2>4. CountsOK' BY <1>2 DEF CredentialsTooLong, Noticed, Stop, ConnectBegins
  <2>5. FlagsOK' BY <1>2 DEF CredentialsTooLong, Noticed, Stop, ConnectBegins
  <2>6. QED BY <2>1, <2>2, <2>3, <2>4, <2>5 DEF TypeOK
<1>3. CASE ConnectWritten
  <2>1. ClocksOK'
    BY <1>3, ZeroTime, NextReadingType DEF ConnectWritten, StampBoth, Noticed,
         Heard
  <2>2. StreamOK'
    BY <1>3, ReadCell, CellKinds DEF ConnectWritten, StampBoth, Noticed, Heard
  <2>3. StatusOK'
    BY <1>3, ConfigAssumption DEF ConnectWritten, StampBoth, Noticed, Heard
  <2>4. CountsOK' BY <1>3 DEF ConnectWritten, StampBoth, Noticed, Heard
  <2>5. FlagsOK' BY <1>3 DEF ConnectWritten, StampBoth, Noticed, Heard
  <2>6. QED BY <2>1, <2>2, <2>3, <2>4, <2>5 DEF TypeOK
<1>4. CASE ConnackTimeout
  <2>1. ClocksOK'
    BY <1>4, ZeroTime, NextReadingType DEF ConnackTimeout, ConnackWaited,
         Stop, Return
  <2>2. StreamOK'
    BY <1>4, ReadCell, CellKinds DEF ConnackTimeout, ConnackWaited, Stop,
         Return
  <2>3. StatusOK'
    BY <1>4, ConfigAssumption DEF ConnackTimeout, ConnackWaited, Stop, Return
  <2>4. CountsOK' BY <1>4 DEF ConnackTimeout, ConnackWaited, Stop, Return
  <2>5. FlagsOK' BY <1>4 DEF ConnackTimeout, ConnackWaited, Stop, Return
  <2>6. QED BY <2>1, <2>2, <2>3, <2>4, <2>5 DEF TypeOK
<1>5. CASE ConnackHeader
  <2>1. ClocksOK' BY <1>5, ZeroTime, NextReadingType DEF ConnackHeader
  <2>2. StreamOK' BY <1>5, ReadCell, CellKinds DEF ConnackHeader
  <2>3. StatusOK' BY <1>5, ConfigAssumption DEF ConnackHeader
  <2>4. CountsOK' BY <1>5 DEF ConnackHeader
  <2>5. FlagsOK' BY <1>5 DEF ConnackHeader
  <2>6. QED BY <2>1, <2>2, <2>3, <2>4, <2>5 DEF TypeOK
<1>6. CASE ConnackRead
  <2>1. ClocksOK'
    BY <1>6, ZeroTime, NextReadingType DEF ConnackRead, Accepted, NewSession,
         ReturnCodeOK, NotAccepted,
         Stop, Return
  <2>2. StreamOK'
    <3>1. rx' \in Seq(Cells)
      <4>1. CASE Accepted
        <5>1. rx # <<>> /\ rx' = Tail(rx)
          BY <1>6, <4>1 DEF ConnackRead, Accepted, NewSession, ReturnCodeOK
        <5>2. QED BY <5>1, ReadCell
      <4>2. CASE NotAccepted
        <5>1. rx' = <<>>
          BY <4>2 DEF NotAccepted, ReturnCodeOK, Stop
        <5>2. QED BY <5>1
      <4>3. QED BY <1>6, <4>1, <4>2 DEF ConnackRead
    <3>2. msg' = "none"
      BY <1>6 DEF ConnackRead, Return
    <3>3. QED BY <3>1, <3>2
  <2>3. StatusOK'
    BY <1>6, ConfigAssumption DEF ConnackRead, Accepted, NewSession,
         ReturnCodeOK, NotAccepted, Stop,
         Return
  <2>4. CountsOK'
    BY <1>6 DEF ConnackRead, Accepted, NewSession, ReturnCodeOK, NotAccepted,
         Stop, Return
  <2>5. FlagsOK'
    BY <1>6 DEF ConnackRead, Accepted, NewSession, ReturnCodeOK, NotAccepted,
         Stop, Return
  <2>6. QED BY <2>1, <2>2, <2>3, <2>4, <2>5 DEF TypeOK
<1>7. CASE ConnackStalls
  <2>1. ClocksOK'
    BY <1>7, ZeroTime, NextReadingType DEF ConnackStalls, Stop, Return
  <2>2. StreamOK' BY <1>7, ReadCell, CellKinds DEF ConnackStalls, Stop, Return
  <2>3. StatusOK' BY <1>7, ConfigAssumption DEF ConnackStalls, Stop, Return
  <2>4. CountsOK' BY <1>7 DEF ConnackStalls, Stop, Return
  <2>5. FlagsOK' BY <1>7 DEF ConnackStalls, Stop, Return
  <2>6. QED BY <2>1, <2>2, <2>3, <2>4, <2>5 DEF TypeOK
<1>8. CASE KeepAliveTimeout
  <2>1. ClocksOK' BY <1>8, ZeroTime, NextReadingType DEF KeepAliveTimeout, Stop
  <2>2. StreamOK' BY <1>8, ReadCell, CellKinds DEF KeepAliveTimeout, Stop
  <2>3. StatusOK' BY <1>8, ConfigAssumption DEF KeepAliveTimeout, Stop
  <2>4. CountsOK' BY <1>8 DEF KeepAliveTimeout, Stop
  <2>5. FlagsOK' BY <1>8 DEF KeepAliveTimeout, Stop
  <2>6. QED BY <2>1, <2>2, <2>3, <2>4, <2>5 DEF TypeOK
<1>9. CASE Loop
  <2>1. ClocksOK'
    BY <1>9, ZeroTime, NextReadingType DEF Loop, Ping, StampBoth, NoPing,
         Heard,
         NextHeader
  <2>2. StreamOK'
    BY <1>9, ReadCell, CellKinds DEF Loop, Ping, StampBoth, NoPing, Heard,
         NextHeader
  <2>3. StatusOK'
    BY <1>9, ConfigAssumption DEF Loop, Ping, StampBoth, NoPing, Heard,
         NextHeader
  <2>4. CountsOK' BY <1>9 DEF Loop, Ping, StampBoth, NoPing, Heard, NextHeader
  <2>5. FlagsOK' BY <1>9 DEF Loop, Ping, StampBoth, NoPing, Heard, NextHeader
  <2>6. QED BY <2>1, <2>2, <2>3, <2>4, <2>5 DEF TypeOK
<1>10. CASE BadLength
  <2>1. ClocksOK'
    BY <1>10, ZeroTime, NextReadingType DEF BadLength, Stop, Return
  <2>2. StreamOK' BY <1>10, ReadCell, CellKinds DEF BadLength, Stop, Return
  <2>3. StatusOK' BY <1>10, ConfigAssumption DEF BadLength, Stop, Return
  <2>4. CountsOK' BY <1>10 DEF BadLength, Stop, Return
  <2>5. FlagsOK' BY <1>10 DEF BadLength, Stop, Return
  <2>6. QED BY <2>1, <2>2, <2>3, <2>4, <2>5 DEF TypeOK
<1>11. CASE Oversized
  <2>1. ClocksOK'
    BY <1>11, ZeroTime, NextReadingType DEF Oversized, RestRead, Return,
         Noticed
  <2>2. StreamOK'
    BY <1>11, ReadCell, CellKinds DEF Oversized, RestRead, Return, Noticed
  <2>3. StatusOK'
    BY <1>11, ConfigAssumption DEF Oversized, RestRead, Return, Noticed
  <2>4. CountsOK' BY <1>11 DEF Oversized, RestRead, Return, Noticed
  <2>5. FlagsOK' BY <1>11 DEF Oversized, RestRead, Return, Noticed
  <2>6. QED BY <2>1, <2>2, <2>3, <2>4, <2>5 DEF TypeOK
<1>12. CASE Received
  <2>1. ClocksOK'
    BY <1>12, ZeroTime, NextReadingType DEF Received, RestRead, Ignored,
         Deliver, AnswerPing, PingAnswered, Return
  <2>2. StreamOK'
    BY <1>12, ReadCell, CellKinds DEF Received, RestRead, Ignored, Deliver,
         AnswerPing, PingAnswered, Return
  <2>3. StatusOK'
    BY <1>12, ConfigAssumption DEF Received, RestRead, Ignored, Deliver,
         AnswerPing, PingAnswered, Return
  <2>4. CountsOK'
    BY <1>12 DEF Received, RestRead, Ignored, Deliver, AnswerPing,
         PingAnswered, Return
  <2>5. FlagsOK'
    BY <1>12 DEF Received, RestRead, Ignored, Deliver, AnswerPing,
         PingAnswered, Return
  <2>6. QED BY <2>1, <2>2, <2>3, <2>4, <2>5 DEF TypeOK
<1>13. CASE ReadTimeout
  <2>1. ClocksOK'
    BY <1>13, ZeroTime, NextReadingType DEF ReadTimeout, Return, Noticed
  <2>2. StreamOK'
    BY <1>13, ReadCell, CellKinds DEF ReadTimeout, Return, Noticed
  <2>3. StatusOK' BY <1>13, ConfigAssumption DEF ReadTimeout, Return, Noticed
  <2>4. CountsOK' BY <1>13 DEF ReadTimeout, Return, Noticed
  <2>5. FlagsOK' BY <1>13 DEF ReadTimeout, Return, Noticed
  <2>6. QED BY <2>1, <2>2, <2>3, <2>4, <2>5 DEF TypeOK
<1>14. CASE CallbackReturns
  <2>1. ClocksOK'
    BY <1>14, ZeroTime, NextReadingType DEF CallbackReturns, Return
  <2>2. StreamOK' BY <1>14, ReadCell, CellKinds DEF CallbackReturns, Return
  <2>3. StatusOK' BY <1>14, ConfigAssumption DEF CallbackReturns, Return
  <2>4. CountsOK' BY <1>14 DEF CallbackReturns, Return
  <2>5. FlagsOK' BY <1>14 DEF CallbackReturns, Return
  <2>6. QED BY <2>1, <2>2, <2>3, <2>4, <2>5 DEF TypeOK
<1>15. CASE NoticeLoss
  <2>1. ClocksOK' BY <1>15, ZeroTime, NextReadingType DEF NoticeLoss, Noticed
  <2>2. StreamOK' BY <1>15, ReadCell, CellKinds DEF NoticeLoss, Noticed
  <2>3. StatusOK' BY <1>15, ConfigAssumption DEF NoticeLoss, Noticed
  <2>4. CountsOK' BY <1>15 DEF NoticeLoss, Noticed
  <2>5. FlagsOK' BY <1>15 DEF NoticeLoss, Noticed
  <2>6. QED BY <2>1, <2>2, <2>3, <2>4, <2>5 DEF TypeOK
<1>16. CASE Publish
  <2>1. ClocksOK' BY <1>16, ZeroTime, NextReadingType DEF Publish, Heard
  <2>2. StreamOK' BY <1>16, ReadCell, CellKinds DEF Publish, Heard
  <2>3. StatusOK' BY <1>16, ConfigAssumption DEF Publish, Heard
  <2>4. CountsOK' BY <1>16 DEF Publish, Heard
  <2>5. FlagsOK' BY <1>16 DEF Publish, Heard
  <2>6. QED BY <2>1, <2>2, <2>3, <2>4, <2>5 DEF TypeOK
<1>17. CASE Subscribe
  <2>1. ClocksOK'
    BY <1>17, ZeroTime, NextReadingType DEF Subscribe, Heard, IdAfter
  <2>2. StreamOK' BY <1>17, ReadCell, CellKinds DEF Subscribe, Heard, IdAfter
  <2>3. StatusOK' BY <1>17, ConfigAssumption DEF Subscribe, Heard, IdAfter
  <2>4. CountsOK' BY <1>17 DEF Subscribe, Heard, IdAfter
  <2>5. FlagsOK' BY <1>17 DEF Subscribe, Heard, IdAfter
  <2>6. QED BY <2>1, <2>2, <2>3, <2>4, <2>5 DEF TypeOK
<1>18. CASE SetCallback
  <2>1. ClocksOK' BY <1>18, ZeroTime, NextReadingType DEF SetCallback
  <2>2. StreamOK' BY <1>18, ReadCell, CellKinds DEF SetCallback
  <2>3. StatusOK' BY <1>18, ConfigAssumption DEF SetCallback
  <2>4. CountsOK' BY <1>18 DEF SetCallback
  <2>5. FlagsOK' BY <1>18 DEF SetCallback
  <2>6. QED BY <2>1, <2>2, <2>3, <2>4, <2>5 DEF TypeOK
<1>19. CASE Disconnect
  <2>1. ClocksOK'
    BY <1>19, ZeroTime, NextReadingType DEF Disconnect, StampBoth, Stop
  <2>2. StreamOK' BY <1>19, ReadCell, CellKinds DEF Disconnect, StampBoth, Stop
  <2>3. StatusOK' BY <1>19, ConfigAssumption DEF Disconnect, StampBoth, Stop
  <2>4. CountsOK' BY <1>19 DEF Disconnect, StampBoth, Stop
  <2>5. FlagsOK' BY <1>19 DEF Disconnect, StampBoth, Stop
  <2>6. QED BY <2>1, <2>2, <2>3, <2>4, <2>5 DEF TypeOK
<1>20. CASE BrokerSends
  <2>1. ClocksOK'
    BY <1>20, ZeroTime, NextReadingType DEF BrokerSends, Sends, MaySend
  <2>2. StreamOK'
    <3>1. PICK k \in Greetings \cup Inbound :
              rx' = rx \o <<k, "REST">> \/ rx' = rx \o <<k>>
      BY <1>20 DEF BrokerSends, Sends
    <3>2. <<k, "REST">> \in Seq(Cells) /\ <<k>> \in Seq(Cells)
      BY CellKinds
    <3>3. rx' \in Seq(Cells)
      <4>1. rx \in Seq(Cells)
        OBVIOUS
      <4> HIDE DEF StreamOK, StatusOK, Cells
      <4>2. QED BY <3>1, <3>2, <4>1, AppendCells
    <3>4. QED BY <1>20, <3>3 DEF BrokerSends, Sends
  <2>3. StatusOK' BY <1>20, ConfigAssumption DEF BrokerSends, Sends, MaySend
  <2>4. CountsOK' BY <1>20 DEF BrokerSends, Sends, MaySend
  <2>5. FlagsOK' BY <1>20 DEF BrokerSends, Sends, MaySend
  <2>6. QED BY <2>1, <2>2, <2>3, <2>4, <2>5 DEF TypeOK
<1>21. CASE BrokerFinishes
  <2>1. ClocksOK' BY <1>21, ZeroTime, NextReadingType DEF BrokerFinishes
  <2>2. StreamOK' BY <1>21, ReadCell, CellKinds DEF BrokerFinishes
  <2>3. StatusOK' BY <1>21, ConfigAssumption DEF BrokerFinishes
  <2>4. CountsOK' BY <1>21 DEF BrokerFinishes
  <2>5. FlagsOK' BY <1>21 DEF BrokerFinishes
  <2>6. QED BY <2>1, <2>2, <2>3, <2>4, <2>5 DEF TypeOK
<1>22. CASE Trickles
  <2>1. ClocksOK' BY <1>22, ZeroTime, NextReadingType DEF Trickles
  <2>2. StreamOK' BY <1>22, ReadCell, CellKinds DEF Trickles
  <2>3. StatusOK' BY <1>22, ConfigAssumption DEF Trickles
  <2>4. CountsOK' BY <1>22 DEF Trickles
  <2>5. FlagsOK' BY <1>22 DEF Trickles
  <2>6. QED BY <2>1, <2>2, <2>3, <2>4, <2>5 DEF TypeOK
<1>23. CASE SocketDies
  <2>1. ClocksOK' BY <1>23, ZeroTime, NextReadingType DEF SocketDies, Stop
  <2>2. StreamOK' BY <1>23, ReadCell, CellKinds DEF SocketDies, Stop
  <2>3. StatusOK' BY <1>23, ConfigAssumption DEF SocketDies, Stop
  <2>4. CountsOK' BY <1>23 DEF SocketDies, Stop
  <2>5. FlagsOK' BY <1>23 DEF SocketDies, Stop
  <2>6. QED BY <2>1, <2>2, <2>3, <2>4, <2>5 DEF TypeOK
<1>24. CASE Tick
  <2>1. ClocksOK' BY <1>24, ZeroTime, NextReadingType DEF Tick
  <2>2. StreamOK' BY <1>24, ReadCell, CellKinds DEF Tick
  <2>3. StatusOK' BY <1>24, ConfigAssumption DEF Tick
  <2>4. CountsOK' BY <1>24 DEF Tick
  <2>5. FlagsOK' BY <1>24 DEF Tick
  <2>6. QED BY <2>1, <2>2, <2>3, <2>4, <2>5 DEF TypeOK
<1>25. CASE UNCHANGED vars
  BY <1>25 DEF vars
<1>26. QED
  BY <1>1, <1>2, <1>3, <1>4, <1>5, <1>6, <1>7, <1>8, <1>9, <1>10, <1>11,
       <1>12, <1>13, <1>14, <1>15, <1>16, <1>17, <1>18, <1>19, <1>20, <1>21,
       <1>22, <1>23, <1>24, <1>25 DEF Next, ConnectSteps, LoopSteps,
       Environment
-----------------------------------------------------------------------------
(* The inductive invariant. *)

\* A closed socket holds nothing; an open one carries the only CONNECT of a
\* connect() that is under way or has succeeded.
Sockets ==
    /\ sock = "closed" => rx = <<>> /\ ~owed /\ hello = "none" /\ connects = 0
    /\ sock = "open" => connects = 1
    /\ sock = "open" /\ pc \notin ReadingConnect => state = "CONNECTED"
    /\ pc \in ReadingConnect => state # "CONNECTED"

\* No CONNACK is among the cells of s.
Free(s) == \A i \in 1 .. Len(s) : s[i] # "CONNACK"

\* A CONNACK in the stream, or read by connect(), is the broker's own word.
Greeted ==
    /\ hello # "CONNACK" => Free(rx)
    /\ sock = "open" /\ pc = "connbody" /\ msg = "CONNACK" => hello = "CONNACK"
    /\ Online => hello = "CONNACK"

InLoop == pc \in ReadingLoop \cup {"callback"}
OnWire == Online \/ pc \in ReadingConnect

\* How old the code's time stamps can be.
StampAge ==
    /\ InCall => sinceCall <= MaxGap
    /\ pc \in ReadingConnect => /\ Elapsed(now, lastIn) <= sinceCall
                                /\ Elapsed(now, lastOut) <= sinceCall
    /\ InLoop => Elapsed(now, t) <= sinceCall
    /\ Online => /\ Elapsed(now, lastIn) <= KeepAlive + sinceCall
                 /\ Elapsed(now, lastOut) <= KeepAlive + sinceCall

\* What the time stamps say of the true ages.  lastInActivity is also moved by
\* a PINGREQ, which can hide one whole period of silence, and no more.
TrueAge ==
    /\ OnWire => silence <= Elapsed(now, lastOut)
    /\ Online => quiet <= Elapsed(now, lastIn) + KeepAlive + MaxGap
    /\ Online /\ ~pingOutstanding => quiet <= Elapsed(now, lastIn)

\* While a PINGREQ is younger than KeepAlive no time stamp is older than it.
PingStamps ==
    Online /\ pingOutstanding /\ pingAge <= KeepAlive =>
        /\ Elapsed(now, lastIn) <= pingAge
        /\ Elapsed(now, lastOut) <= pingAge
        /\ InLoop => Elapsed(now, t) <= pingAge

UsedIds == OnWire => nextMsgId # 0

IInv == TypeOK /\ Sockets /\ Greeted /\ StampAge /\ TrueAge /\ PingStamps
        /\ UsedIds
-----------------------------------------------------------------------------
(* The steps with several branches, summed up. *)

\* loop() begins: both stamps are at most KeepAlive old when it goes on.
LEMMA LoopEffect ==
    ASSUME Loop
    PROVE  /\ Online /\ pc = "idle"
           /\ now' = now /\ state' = state /\ sock' = sock
           /\ sinceCall' = 0 /\ quiet' = quiet
           /\ \/ /\ lastIn' = now /\ lastOut' = now /\ silence' = 0
                 /\ pingAge' = 0
              \/ /\ lastIn' = lastIn /\ lastOut' = lastOut
                 /\ ~Overdue /\ silence' = silence
                 /\ pingAge' = pingAge
           /\ \/ pc' = "idle"
              \/ pc' \in ReadingLoop /\ t' = now
<1>1. /\ Online /\ pc = "idle"
      /\ now' = now /\ state' = state /\ sock' = sock
      /\ sinceCall' = 0 /\ quiet' = quiet
  BY DEF Loop
<1>2. \/ pc' = "idle"
      \/ pc' \in ReadingLoop /\ t' = now
  BY <1>1 DEF Loop, NextHeader, calls, ReadingLoop
<1>3. \/ /\ lastIn' = now /\ lastOut' = now /\ silence' = 0
         /\ pingAge' = 0
      \/ /\ lastIn' = lastIn /\ lastOut' = lastOut
         /\ ~Overdue /\ silence' = silence
         /\ pingAge' = pingAge
  BY DEF Loop, Ping, StampBoth, NoPing, Heard
<1>4. QED BY <1>1, <1>2, <1>3

\* loop() sends a PINGREQ only when none is outstanding.
LEMMA LoopPing ==
    ASSUME Loop
    PROVE  \/ /\ pingOutstanding = FALSE /\ pingOutstanding' = TRUE
              /\ lastIn' = now /\ lastOut' = now /\ pingAge' = 0
           \/ /\ pingOutstanding' = pingOutstanding
              /\ lastIn' = lastIn /\ lastOut' = lastOut
              /\ pingAge' = pingAge
BY DEF Loop, Ping, StampBoth, NoPing

\* loop() has read a packet: it is stamped with the time loop() began.
LEMMA ReceivedEffect ==
    ASSUME Received
    PROVE  /\ pc \in ReadingLoop
           /\ now' = now /\ state' = state /\ sock' = sock
           /\ lastIn' = t /\ lastOut' = lastOut
           /\ sinceCall' = sinceCall /\ quiet' = 0 /\ pingAge' = pingAge
           /\ silence' = 0 \/ silence' = silence
           /\ \/ pc' = "idle"
              \/ pc' = "callback" /\ t' = t
<1>1. /\ pc \in ReadingLoop
      /\ now' = now /\ state' = state /\ sock' = sock
      /\ lastIn' = t /\ lastOut' = lastOut
      /\ sinceCall' = sinceCall /\ quiet' = 0 /\ pingAge' = pingAge
  BY DEF Received, RestRead, ReadingLoop
<1>2. CASE Ignored
  BY <1>1, <1>2 DEF Ignored, Return
<1>3. CASE Deliver
  BY <1>1, <1>3 DEF Deliver
<1>4. CASE AnswerPing
  BY <1>1, <1>4 DEF AnswerPing, Return
<1>5. CASE PingAnswered
  BY <1>1, <1>5 DEF PingAnswered, Return
<1>6. QED BY <1>2, <1>3, <1>4, <1>5 DEF Received

\* Reading a packet never makes a PINGREQ outstanding.
LEMMA ReceivedPing ==
    ASSUME Received
    PROVE  pingOutstanding' = pingOutstanding \/ pingOutstanding' = FALSE
BY DEF Received, Ignored, Deliver, AnswerPing, PingAnswered

\* The callback returned: a PUBACK is stamped with the time loop() began.
LEMMA CallbackEffect ==
    ASSUME CallbackReturns
    PROVE  /\ pc = "callback" /\ pc' = "idle"
           /\ now' = now /\ state' = state /\ sock' = sock
           /\ lastIn' = lastIn
           /\ sinceCall' = sinceCall /\ quiet' = quiet /\ pingAge' = pingAge
           /\ \/ lastOut' = t /\ (sock = "open" => silence' = 0)
              \/ lastOut' = lastOut /\ silence' = silence
<1>1. /\ pc = "callback" /\ pc' = "idle"
      /\ now' = now /\ state' = state /\ sock' = sock
      /\ lastIn' = lastIn
      /\ sinceCall' = sinceCall /\ quiet' = quiet /\ pingAge' = pingAge
  BY DEF CallbackReturns, Return, wire
<1>2. \/ lastOut' = t /\ (sock = "open" => silence' = 0)
      \/ lastOut' = lastOut /\ silence' = silence
  BY DEF CallbackReturns
<1>3. QED BY <1>1, <1>2

\* connect() has read its answer.
LEMMA ConnackEffect ==
    ASSUME ConnackRead
    PROVE  /\ pc = "connbody" /\ pc' = "idle"
           /\ now' = now /\ lastOut' = lastOut /\ sinceCall' = sinceCall
           /\ silence' = silence /\ nextMsgId' = nextMsgId
           /\ \/ /\ sock' = sock /\ lastIn' = now /\ quiet' = 0
                 /\ pingOutstanding' = FALSE /\ msg = "CONNACK" /\ rx # <<>>
              \/ sock' = "closed"
<1>1. /\ pc = "connbody" /\ pc' = "idle" /\ rx # <<>>
      /\ now' = now /\ lastOut' = lastOut /\ sinceCall' = sinceCall
      /\ silence' = silence /\ nextMsgId' = nextMsgId
  BY DEF ConnackRead, Return
<1>2. CASE Accepted
  BY <1>1, <1>2 DEF Accepted, NewSession, ReturnCodeOK
<1>3. CASE NotAccepted
  BY <1>1, <1>3 DEF NotAccepted, ReturnCodeOK, Stop
<1>4. QED BY <1>2, <1>3 DEF ConnackRead

\* A tick ages a stamp by one.
LEMMA TickAges ==
    ASSUME TypeOK, Tick, InCall, NEW s \in Time,
           Elapsed(now, s) <= KeepAlive + sinceCall
    PROVE  Elapsed(now', s) = Elapsed(now, s) + 1
<1>1. sinceCall < MaxGap /\ now' = NextReading(now)
  BY DEF Tick
<1>2. Elapsed(now, s) + 1 < ClockSize
  BY <1>1, ElapsedType, ConfigAssumption, ClockAssumption
  DEF TypeOK, ClocksOK, CountsOK
<1>3. QED
  BY <1>1, <1>2, ElapsedTick DEF TypeOK, ClocksOK

\* The quantities the invariant compares are natural numbers.
LEMMA Numbers ==
    ASSUME TypeOK
    PROVE  /\ Elapsed(now, lastIn) \in Nat /\ Elapsed(now, lastOut) \in Nat
           /\ Elapsed(now, t) \in Nat /\ Elapsed(now, now) = 0
           /\ sinceCall \in Nat /\ quiet \in Nat /\ silence \in Nat
           /\ pingAge \in Nat
           /\ KeepAlive \in Nat /\ MaxGap \in Nat
BY ElapsedType, ElapsedSelf, ConfigAssumption
DEF TypeOK, ClocksOK, CountsOK
-----------------------------------------------------------------------------
(* Each part of the invariant is kept by every step. *)

\* Every step keeps Sockets.
LEMMA SocketsStep ==
    ASSUME IInv, TypeOK', [Next]_vars
    PROVE  Sockets'
<1> USE DEF IInv, Sockets, TypeOK, StatusOK, client, calls, wire, broker,
        ages, Online,
        ReadingLoop, ReadingConnect, Disconnected
<1>1. CASE TcpFails
  BY <1>1 DEF TcpFails, ConnectBegins
<1>2. CASE CredentialsTooLong
  BY <1>2 DEF CredentialsTooLong, ConnectBegins, Noticed, Stop
<1>3. CASE ConnectWritten
  BY <1>3 DEF ConnectWritten, StampBoth, ConnectBegins, Noticed, Heard
<1>4. CASE ConnackTimeout
  BY <1>4 DEF ConnackTimeout, ConnackWaited, Stop, Return
<1>5. CASE ConnackHeader
  BY <1>5 DEF ConnackHeader
<1>6. CASE ConnackRead
  BY <1>6 DEF ConnackRead, Accepted, NewSession, ReturnCodeOK, NotAccepted,
       Stop, Return
<1>7. CASE ConnackStalls
  BY <1>7 DEF ConnackStalls, Stop, Return
<1>8. CASE KeepAliveTimeout
  BY <1>8 DEF KeepAliveTimeout, Stop
<1>9. CASE Loop
  BY <1>9 DEF Loop, Ping, StampBoth, NoPing, Heard, NextHeader, Overdue
<1>10. CASE BadLength
  BY <1>10 DEF BadLength, Stop, Return
<1>11. CASE Oversized
  BY <1>11 DEF Oversized, RestRead, Return, Noticed
<1>12. CASE Received
  BY <1>12 DEF Received, RestRead, Ignored, Deliver, AnswerPing, PingAnswered,
     Return
<1>13. CASE ReadTimeout
  BY <1>13 DEF ReadTimeout, Return, Noticed
<1>14. CASE CallbackReturns
  BY <1>14 DEF CallbackReturns, Return
<1>15. CASE NoticeLoss
  BY <1>15 DEF NoticeLoss, Noticed
<1>16. CASE Publish
  BY <1>16 DEF Publish, Heard, InSketch
<1>17. CASE Subscribe
  BY <1>17 DEF Subscribe, Heard, IdAfter, InSketch
<1>18. CASE SetCallback
  BY <1>18 DEF SetCallback
<1>19. CASE Disconnect
  BY <1>19 DEF Disconnect, StampBoth, Stop, InSketch
<1>20. CASE BrokerSends
  BY <1>20 DEF BrokerSends, Sends, MaySend
<1>21. CASE BrokerFinishes
  BY <1>21 DEF BrokerFinishes
<1>22. CASE Trickles
  BY <1>22 DEF Trickles
<1>23. CASE SocketDies
  BY <1>23 DEF SocketDies, Stop
<1>24. CASE Tick
  BY <1>24 DEF Tick, InCall
<1>25. CASE UNCHANGED vars
  BY <1>25 DEF vars
<1>26. QED
  BY <1>1, <1>2, <1>3, <1>4, <1>5, <1>6, <1>7, <1>8, <1>9, <1>10, <1>11,
     <1>12, <1>13, <1>14, <1>15, <1>16, <1>17, <1>18, <1>19, <1>20, <1>21,
     <1>22, <1>23, <1>24, <1>25
  DEF Next, ConnectSteps, LoopSteps, Environment

\* Every step keeps UsedIds.
LEMMA UsedIdsStep ==
    ASSUME IInv, TypeOK', [Next]_vars
    PROVE  UsedIds'
<1> USE ConfigAssumption
        DEF IInv, UsedIds, OnWire, TypeOK, StatusOK, Sockets, client, calls,
        wire, broker, ages,
        Online, ReadingLoop, ReadingConnect, Disconnected
<1>1. CASE TcpFails
  BY <1>1 DEF TcpFails, ConnectBegins
<1>2. CASE CredentialsTooLong
  BY <1>2 DEF CredentialsTooLong, ConnectBegins, Noticed, Stop
<1>3. CASE ConnectWritten
  BY <1>3 DEF ConnectWritten, StampBoth, ConnectBegins, Noticed, Heard
<1>4. CASE ConnackTimeout
  BY <1>4 DEF ConnackTimeout, ConnackWaited, Stop, Return
<1>5. CASE ConnackHeader
  BY <1>5 DEF ConnackHeader
<1>6. CASE ConnackRead
  BY <1>6 DEF ConnackRead, Accepted, NewSession, ReturnCodeOK, NotAccepted,
       Stop, Return
<1>7. CASE ConnackStalls
  BY <1>7 DEF ConnackStalls, Stop, Return
<1>8. CASE KeepAliveTimeout
  BY <1>8 DEF KeepAliveTimeout, Stop
<1>9. CASE Loop
  BY <1>9 DEF Loop, Ping, StampBoth, NoPing, Heard, NextHeader, Overdue
<1>10. CASE BadLength
  BY <1>10 DEF BadLength, Stop, Return
<1>11. CASE Oversized
  BY <1>11 DEF Oversized, RestRead, Return, Noticed
<1>12. CASE Received
  BY <1>12 DEF Received, RestRead, Ignored, Deliver, AnswerPing, PingAnswered,
     Return
<1>13. CASE ReadTimeout
  BY <1>13 DEF ReadTimeout, Return, Noticed
<1>14. CASE CallbackReturns
  BY <1>14 DEF CallbackReturns, Return
<1>15. CASE NoticeLoss
  BY <1>15 DEF NoticeLoss, Noticed
<1>16. CASE Publish
  BY <1>16 DEF Publish, Heard, InSketch
<1>17. CASE Subscribe
  BY <1>17 DEF Subscribe, Heard, IdAfter, InSketch
<1>18. CASE SetCallback
  BY <1>18 DEF SetCallback
<1>19. CASE Disconnect
  BY <1>19 DEF Disconnect, StampBoth, Stop, InSketch
<1>20. CASE BrokerSends
  BY <1>20 DEF BrokerSends, Sends, MaySend
<1>21. CASE BrokerFinishes
  BY <1>21 DEF BrokerFinishes
<1>22. CASE Trickles
  BY <1>22 DEF Trickles
<1>23. CASE SocketDies
  BY <1>23 DEF SocketDies, Stop
<1>24. CASE Tick
  BY <1>24 DEF Tick, InCall
<1>25. CASE UNCHANGED vars
  BY <1>25 DEF vars
<1>26. QED
  BY <1>1, <1>2, <1>3, <1>4, <1>5, <1>6, <1>7, <1>8, <1>9, <1>10, <1>11,
     <1>12, <1>13, <1>14, <1>15, <1>16, <1>17, <1>18, <1>19, <1>20, <1>21,
     <1>22, <1>23, <1>24, <1>25
  DEF Next, ConnectSteps, LoopSteps, Environment

\* Every step keeps StampAge.
LEMMA StampAgeStep ==
    ASSUME IInv, TypeOK', [Next]_vars
    PROVE  StampAge'
<1> USE Numbers
        DEF IInv, StampAge, InLoop, InCall, TypeOK, ClocksOK, StatusOK,
        CountsOK,
        Sockets, client, calls, wire, broker, ages, Online,
        ReadingLoop, ReadingConnect, Disconnected
<1>1. CASE TcpFails
  BY <1>1 DEF TcpFails, ConnectBegins
<1>2. CASE CredentialsTooLong
  BY <1>2 DEF CredentialsTooLong, ConnectBegins, Noticed, Stop
<1>3. CASE ConnectWritten
  BY <1>3 DEF ConnectWritten, StampBoth, ConnectBegins, Noticed, Heard
<1>4. CASE ConnackTimeout
  BY <1>4 DEF ConnackTimeout, ConnackWaited, Stop, Return
<1>5. CASE ConnackHeader
  BY <1>5 DEF ConnackHeader
<1>6. CASE ConnackRead
  <2>1. pc = "connbody" /\ pc' = "idle" /\ now' = now /\ lastOut' = lastOut
    BY <1>6, ConnackEffect
  <2>2. sinceCall' = sinceCall /\ (sock' = "closed" \/ lastIn' = now)
    BY <1>6, ConnackEffect
  <2>3. Elapsed(now, now) = 0
    BY ElapsedSelf
  <2>4. sinceCall <= MaxGap /\ Elapsed(now, lastOut) <= sinceCall
    BY <2>1
  <2>5. Online' => lastIn' = now
    BY <2>2
  <2>6. QED BY <2>1, <2>2, <2>3, <2>4, <2>5
<1>7. CASE ConnackStalls
  BY <1>7 DEF ConnackStalls, Stop, Return
<1>8. CASE KeepAliveTimeout
  BY <1>8 DEF KeepAliveTimeout, Stop
<1>9. CASE Loop
  BY <1>9, LoopEffect DEF Overdue
<1>10. CASE BadLength
  BY <1>10 DEF BadLength, Stop, Return
<1>11. CASE Oversized
  BY <1>11 DEF Oversized, RestRead, Return, Noticed
<1>12. CASE Received
  <2>1. InLoop /\ InCall
    BY <1>12, ReceivedEffect
  <2>2. /\ Elapsed(now, t) <= sinceCall /\ sinceCall <= MaxGap
        /\ Online => Elapsed(now, lastOut) <= KeepAlive + sinceCall
    BY <2>1
  <2>3. /\ now' = now /\ sinceCall' = sinceCall /\ lastIn' = t
        /\ lastOut' = lastOut /\ (Online' => Online)
        /\ pc' \notin ReadingConnect /\ (InLoop' => t' = t)
    BY <1>12, ReceivedEffect
  <2>4. Elapsed(now, t) <= KeepAlive + sinceCall
    BY <2>2
  <2>5. QED BY <2>2, <2>3, <2>4
<1>13. CASE ReadTimeout
  BY <1>13 DEF ReadTimeout, Return, Noticed
<1>14. CASE CallbackReturns
  <2>1. InLoop /\ InCall
    BY <1>14, CallbackEffect
  <2>2. /\ Elapsed(now, t) <= sinceCall /\ sinceCall <= MaxGap
        /\ Online => /\ Elapsed(now, lastIn) <= KeepAlive + sinceCall
                     /\ Elapsed(now, lastOut) <= KeepAlive + sinceCall
    BY <2>1
  <2>3. /\ now' = now /\ sinceCall' = sinceCall /\ lastIn' = lastIn
        /\ lastOut' = t \/ lastOut' = lastOut
        /\ (Online' => Online) /\ pc' = "idle"
    BY <1>14, CallbackEffect
  <2>4. Elapsed(now, t) <= KeepAlive + sinceCall
    BY <2>2
  <2>5. QED BY <2>2, <2>3, <2>4
<1>15. CASE NoticeLoss
  BY <1>15 DEF NoticeLoss, Noticed
<1>16. CASE Publish
  BY <1>16 DEF Publish, Heard, InSketch
<1>17. CASE Subscribe
  BY <1>17 DEF Subscribe, Heard, IdAfter, InSketch
<1>18. CASE SetCallback
  BY <1>18 DEF SetCallback
<1>19. CASE Disconnect
  BY <1>19 DEF Disconnect, StampBoth, Stop, InSketch
<1>20. CASE BrokerSends
  BY <1>20 DEF BrokerSends, Sends, MaySend
<1>21. CASE BrokerFinishes
  BY <1>21 DEF BrokerFinishes
<1>22. CASE Trickles
  BY <1>22 DEF Trickles
<1>23. CASE SocketDies
  BY <1>23 DEF SocketDies, Stop
<1>24. CASE Tick
  <2>1. CASE InCall
    <3>1. /\ sinceCall < MaxGap /\ sinceCall' = sinceCall + 1
          /\ UNCHANGED <<client, calls, wire>>
      BY <1>24, <2>1 DEF Tick
    <3>2. ASSUME NEW s \in Time, Elapsed(now, s) <= KeepAlive + sinceCall
          PROVE  Elapsed(now', s) = Elapsed(now, s) + 1
      BY <1>24, <2>1, <3>2, TickAges
    <3>3. pc \in ReadingConnect =>
              /\ Elapsed(now', lastIn') <= sinceCall'
              /\ Elapsed(now', lastOut') <= sinceCall'
      BY <3>1, <3>2
    <3>4. InLoop => Elapsed(now', t') <= sinceCall'
      BY <3>1, <3>2
    <3>5. Online => /\ Elapsed(now', lastIn') <= KeepAlive + sinceCall'
                    /\ Elapsed(now', lastOut') <= KeepAlive + sinceCall'
      BY <3>1, <3>2
    <3>6. QED BY <3>1, <3>3, <3>4, <3>5
  <2>2. CASE ~InCall
    BY <1>24, <2>2 DEF Tick, InCall
  <2>3. QED BY <2>1, <2>2
<1>25. CASE UNCHANGED vars
  BY <1>25 DEF vars
<1>26. QED
  BY <1>1, <1>2, <1>3, <1>4, <1>5, <1>6, <1>7, <1>8, <1>9, <1>10, <1>11,
     <1>12, <1>13, <1>14, <1>15, <1>16, <1>17, <1>18, <1>19, <1>20, <1>21,
     <1>22, <1>23, <1>24, <1>25
  DEF Next, ConnectSteps, LoopSteps, Environment

\* Every step keeps TrueAge.
LEMMA TrueAgeStep ==
    ASSUME IInv, TypeOK', [Next]_vars
    PROVE  TrueAge'
<1> USE Numbers
        DEF IInv, TrueAge, StampAge, OnWire, InLoop, InCall,
        TypeOK, ClocksOK, StatusOK, CountsOK,
        Sockets, client, calls, wire, broker, ages, Online,
        ReadingLoop, ReadingConnect, Disconnected
<1>1. CASE TcpFails
  BY <1>1 DEF TcpFails, ConnectBegins
<1>2. CASE CredentialsTooLong
  BY <1>2 DEF CredentialsTooLong, ConnectBegins, Noticed, Stop
<1>3. CASE ConnectWritten
  BY <1>3 DEF ConnectWritten, StampBoth, ConnectBegins, Noticed, Heard
<1>4. CASE ConnackTimeout
  BY <1>4 DEF ConnackTimeout, ConnackWaited, Stop, Return
<1>5. CASE ConnackHeader
  BY <1>5 DEF ConnackHeader
<1>6. CASE ConnackRead
  <2>1. /\ pc = "connbody" /\ pc' = "idle" /\ now' = now
        /\ lastOut' = lastOut /\ silence' = silence
        /\ sock' = "closed" \/ (lastIn' = now /\ quiet' = 0)
    BY <1>6, ConnackEffect
  <2>2. silence <= Elapsed(now, lastOut)
    BY <2>1
  <2>3. Elapsed(now, now) = 0
    BY ElapsedSelf
  <2>4. QED BY <2>1, <2>2, <2>3
<1>7. CASE ConnackStalls
  BY <1>7 DEF ConnackStalls, Stop, Return
<1>8. CASE KeepAliveTimeout
  BY <1>8 DEF KeepAliveTimeout, Stop
<1>9. CASE Loop
  <2>1. /\ Online /\ pc = "idle" /\ now' = now /\ quiet' = quiet
        /\ pc' \notin ReadingConnect
    BY <1>9, LoopEffect
  <2>2. /\ Elapsed(now, lastIn) <= KeepAlive + MaxGap
        /\ quiet <= Elapsed(now, lastIn) + KeepAlive + MaxGap
        /\ silence <= Elapsed(now, lastOut)
        /\ Elapsed(now, lastOut) \in Nat /\ Elapsed(now, lastIn) \in Nat
    BY <2>1
  <2>3. Elapsed(now, now) = 0
    BY ElapsedSelf
  <2>4. silence' <= Elapsed(now, lastOut')
    BY <1>9, <2>2, <2>3, LoopEffect
  <2>5. CASE /\ pingOutstanding = FALSE /\ pingOutstanding' = TRUE
             /\ lastIn' = now
    <3>1. quiet <= Elapsed(now, lastIn)
      BY <2>1, <2>5
    <3>2. quiet' <= Elapsed(now', lastIn') + KeepAlive + MaxGap
      BY <2>1, <2>2, <2>3, <2>5, <3>1
    <3>3. QED BY <2>1, <2>4, <2>5, <3>2
  <2>6. CASE pingOutstanding' = pingOutstanding /\ lastIn' = lastIn
    <3>1. ~pingOutstanding' => quiet' <= Elapsed(now', lastIn')
      BY <2>1, <2>6
    <3>2. QED BY <2>1, <2>2, <2>4, <2>6, <3>1
  <2>7. QED BY <1>9, <2>5, <2>6, LoopPing
<1>10. CASE BadLength
  BY <1>10 DEF BadLength, Stop, Return
<1>11. CASE Oversized
  BY <1>11 DEF Oversized, RestRead, Return, Noticed
<1>12. CASE Received
  <2>1. /\ now' = now /\ lastIn' = t /\ lastOut' = lastOut /\ quiet' = 0
        /\ silence' = 0 \/ silence' = silence
        /\ (Online' => Online) /\ pc' \notin ReadingConnect
    BY <1>12, ReceivedEffect
  <2>2. Online' => silence' <= Elapsed(now', lastOut')
    BY <2>1
  <2>3. quiet' <= Elapsed(now', lastIn') + KeepAlive + MaxGap
    BY <2>1
  <2>4. quiet' <= Elapsed(now', lastIn')
    BY <2>1
  <2>5. QED BY <2>1, <2>2, <2>3, <2>4
<1>13. CASE ReadTimeout
  BY <1>13 DEF ReadTimeout, Return, Noticed
<1>14. CASE CallbackReturns
  <2>1. /\ now' = now /\ lastIn' = lastIn /\ quiet' = quiet
        /\ (Online' => Online) /\ pc' = "idle"
    BY <1>14, CallbackEffect
  <2>2. pingOutstanding' = pingOutstanding
    BY <1>14 DEF CallbackReturns
  <2>3. Online => /\ quiet' <= Elapsed(now', lastIn') + KeepAlive + MaxGap
                  /\ ~pingOutstanding' => quiet' <= Elapsed(now', lastIn')
    BY <2>1, <2>2
  <2>4. Elapsed(now, t) \in Nat /\ Elapsed(now, lastOut) \in Nat
    BY ElapsedType
  <2>5. Online => silence' <= Elapsed(now', lastOut')
    BY <1>14, <2>1, <2>4, CallbackEffect
  <2>6. QED BY <2>1, <2>3, <2>5
<1>15. CASE NoticeLoss
  BY <1>15 DEF NoticeLoss, Noticed
<1>16. CASE Publish
  BY <1>16 DEF Publish, Heard, InSketch
<1>17. CASE Subscribe
  BY <1>17 DEF Subscribe, Heard, IdAfter, InSketch
<1>18. CASE SetCallback
  BY <1>18 DEF SetCallback
<1>19. CASE Disconnect
  BY <1>19 DEF Disconnect, StampBoth, Stop, InSketch
<1>20. CASE BrokerSends
  BY <1>20 DEF BrokerSends, Sends, MaySend
<1>21. CASE BrokerFinishes
  BY <1>21 DEF BrokerFinishes
<1>22. CASE Trickles
  BY <1>22 DEF Trickles
<1>23. CASE SocketDies
  BY <1>23 DEF SocketDies, Stop
<1>24. CASE Tick
  <2>1. CASE InCall
    <3>1. /\ quiet' = (IF Online THEN quiet + 1 ELSE 0)
          /\ silence' = silence + 1 /\ sinceCall < MaxGap
          /\ UNCHANGED <<client, calls, wire>>
      BY <1>24, <2>1 DEF Tick
    <3>2. ASSUME NEW s \in Time, Elapsed(now, s) <= KeepAlive + sinceCall
          PROVE  Elapsed(now', s) = Elapsed(now, s) + 1
      BY <1>24, <2>1, <3>2, TickAges
    <3>3. OnWire => Elapsed(now', lastOut') = Elapsed(now, lastOut) + 1
      BY <3>1, <3>2
    <3>4. Online => Elapsed(now', lastIn') = Elapsed(now, lastIn) + 1
      BY <3>1, <3>2
    <3>5. OnWire => silence' <= Elapsed(now', lastOut')
      BY <3>1, <3>3
    <3>6. Online => quiet' <= Elapsed(now', lastIn') + KeepAlive + MaxGap
      BY <3>1, <3>4
    <3>7. Online /\ ~pingOutstanding => quiet' <= Elapsed(now', lastIn')
      BY <3>1, <3>4
    <3>8. (OnWire' <=> OnWire) /\ (Online' <=> Online)
      BY <3>1
    <3>9. pingOutstanding' = pingOutstanding
      BY <3>1
    <3>10. QED BY <3>5, <3>6, <3>7, <3>8, <3>9
  <2>2. CASE ~InCall
    BY <1>24, <2>2 DEF Tick, InCall
  <2>3. QED BY <2>1, <2>2
<1>25. CASE UNCHANGED vars
  BY <1>25 DEF vars
<1>26. QED
  BY <1>1, <1>2, <1>3, <1>4, <1>5, <1>6, <1>7, <1>8, <1>9, <1>10, <1>11,
     <1>12, <1>13, <1>14, <1>15, <1>16, <1>17, <1>18, <1>19, <1>20, <1>21,
     <1>22, <1>23, <1>24, <1>25
  DEF Next, ConnectSteps, LoopSteps, Environment

\* Every step keeps PingStamps.
LEMMA PingStampsStep ==
    ASSUME IInv, TypeOK', [Next]_vars
    PROVE  PingStamps'
<1> USE Numbers
        DEF IInv, PingStamps, StampAge, InLoop, InCall,
        TypeOK, ClocksOK, StatusOK, CountsOK,
        Sockets, client, calls, wire, broker, ages, Online,
        ReadingLoop, ReadingConnect, Disconnected
<1>1. CASE TcpFails
  BY <1>1 DEF TcpFails, ConnectBegins
<1>2. CASE CredentialsTooLong
  BY <1>2 DEF CredentialsTooLong, ConnectBegins, Noticed, Stop
<1>3. CASE ConnectWritten
  BY <1>3 DEF ConnectWritten, StampBoth, ConnectBegins, Noticed, Heard
<1>4. CASE ConnackTimeout
  BY <1>4 DEF ConnackTimeout, ConnackWaited, Stop, Return
<1>5. CASE ConnackHeader
  BY <1>5 DEF ConnackHeader
<1>6. CASE ConnackRead
  BY <1>6, ConnackEffect
<1>7. CASE ConnackStalls
  BY <1>7 DEF ConnackStalls, Stop, Return
<1>8. CASE KeepAliveTimeout
  BY <1>8 DEF KeepAliveTimeout, Stop
<1>9. CASE Loop
  <2>1. /\ Online /\ now' = now
        /\ InLoop' => t' = now
    BY <1>9, LoopEffect
  <2>2. CASE lastIn' = now /\ lastOut' = now /\ pingAge' = 0
    BY <2>1, <2>2
  <2>3. CASE /\ pingOutstanding' = pingOutstanding /\ pingAge' = pingAge
             /\ lastIn' = lastIn /\ lastOut' = lastOut
    <3>1. ASSUME pingOutstanding', pingAge' <= KeepAlive
          PROVE  /\ Elapsed(now', lastIn') <= pingAge'
                 /\ Elapsed(now', lastOut') <= pingAge'
      BY <2>1, <2>3, <3>1
    <3>2. InLoop' => Elapsed(now', t') <= pingAge'
      BY <2>1, <2>3
    <3>3. QED BY <3>1, <3>2
  <2>4. QED BY <1>9, <2>2, <2>3, LoopPing
<1>10. CASE BadLength
  BY <1>10 DEF BadLength, Stop, Return
<1>11. CASE Oversized
  BY <1>11 DEF Oversized, RestRead, Return, Noticed
<1>12. CASE Received
  <2>1. /\ now' = now /\ lastIn' = t /\ lastOut' = lastOut
        /\ pingAge' = pingAge /\ InLoop
        /\ (Online' => Online) /\ (InLoop' => t' = t)
    BY <1>12, ReceivedEffect
  <2>2. pingOutstanding' => pingOutstanding
    BY <1>12, ReceivedPing
  <2>3. QED BY <2>1, <2>2
<1>13. CASE ReadTimeout
  BY <1>13 DEF ReadTimeout, Return, Noticed
<1>14. CASE CallbackReturns
  <2>1. /\ now' = now /\ lastIn' = lastIn /\ pingAge' = pingAge
        /\ lastOut' = t \/ lastOut' = lastOut
        /\ (Online' => Online) /\ InLoop /\ ~InLoop'
    BY <1>14, CallbackEffect
  <2>2. pingOutstanding' = pingOutstanding
    BY <1>14 DEF CallbackReturns
  <2>3. QED BY <2>1, <2>2
<1>15. CASE NoticeLoss
  BY <1>15 DEF NoticeLoss, Noticed
<1>16. CASE Publish
  BY <1>16 DEF Publish, Heard, InSketch
<1>17. CASE Subscribe
  BY <1>17 DEF Subscribe, Heard, IdAfter, InSketch
<1>18. CASE SetCallback
  BY <1>18 DEF SetCallback
<1>19. CASE Disconnect
  BY <1>19 DEF Disconnect, StampBoth, Stop, InSketch
<1>20. CASE BrokerSends
  BY <1>20 DEF BrokerSends, Sends, MaySend
<1>21. CASE BrokerFinishes
  BY <1>21 DEF BrokerFinishes
<1>22. CASE Trickles
  BY <1>22 DEF Trickles
<1>23. CASE SocketDies
  BY <1>23 DEF SocketDies, Stop
<1>24. CASE Tick
  <2>1. /\ UNCHANGED <<client, calls, wire>>
        /\ pingAge' = (IF Online /\ pingAge <= KeepAlive THEN pingAge + 1
                                                        ELSE pingAge)
    BY <1>24 DEF Tick
  <2>2. SUFFICES ASSUME Online, pingOutstanding, pingAge + 1 <= KeepAlive
                 PROVE  /\ Elapsed(now', lastIn) <= pingAge + 1
                        /\ Elapsed(now', lastOut) <= pingAge + 1
                        /\ InLoop => Elapsed(now', t) <= pingAge + 1
    BY <2>1
  <2>3. /\ Elapsed(now, lastIn) <= pingAge
        /\ Elapsed(now, lastOut) <= pingAge
        /\ InLoop => Elapsed(now, t) <= pingAge
    BY <2>2
  <2>4. ASSUME NEW s \in Time, Elapsed(now, s) <= KeepAlive + sinceCall
        PROVE  Elapsed(now', s) = Elapsed(now, s) + 1
    BY <1>24, <2>2, <2>4, TickAges
  <2>5. QED BY <2>2, <2>3, <2>4
<1>25. CASE UNCHANGED vars
  BY <1>25 DEF vars
<1>26. QED
  BY <1>1, <1>2, <1>3, <1>4, <1>5, <1>6, <1>7, <1>8, <1>9, <1>10, <1>11,
     <1>12, <1>13, <1>14, <1>15, <1>16, <1>17, <1>18, <1>19, <1>20, <1>21,
     <1>22, <1>23, <1>24, <1>25
  DEF Next, ConnectSteps, LoopSteps, Environment

\* Reading and appending cells, where no CONNACK is among them.
LEMMA ReadFree ==
    ASSUME NEW s \in Seq(Cells), s # <<>>, Free(s)
    PROVE  Head(s) # "CONNACK" /\ Free(Tail(s))
BY DEF Free

LEMMA AppendFree ==
    ASSUME NEW s \in Seq(Cells), Free(s), NEW k \in Cells, k # "CONNACK"
    PROVE  /\ Free(s \o <<k, "REST">>) /\ Free(s \o <<k>>)
           /\ Free(Append(s, "REST"))
BY DEF Free, Cells

\* A closed socket makes no claim.
LEMMA StopGreeted ==
    ASSUME Stop PROVE Greeted'
<1>1. Free(<<>>)
  BY DEF Free
<1>2. QED BY <1>1 DEF Stop, Greeted, Online

\* Every step keeps Greeted.
LEMMA GreetedStep ==
    ASSUME IInv, TypeOK', [Next]_vars
    PROVE  Greeted'
<1> USE DEF IInv, Greeted, Sockets, TypeOK, StreamOK, StatusOK,
        client, calls, wire, broker, ages, Online,
        ReadingLoop, ReadingConnect, Disconnected
<1>1. CASE TcpFails
  BY <1>1 DEF TcpFails, ConnectBegins
<1>2. CASE CredentialsTooLong
  BY <1>2, StopGreeted DEF CredentialsTooLong
<1>3. CASE ConnectWritten
  BY <1>3 DEF ConnectWritten, StampBoth, ConnectBegins, Noticed, Heard
<1>4. CASE ConnackTimeout
  BY <1>4, StopGreeted DEF ConnackTimeout, ConnackWaited
<1>5. CASE ConnackHeader
  <2>1. rx # <<>> /\ rx' = Tail(rx) /\ msg' = Head(rx) /\ hello' = hello
    BY <1>5 DEF ConnackHeader
  <2>2. hello # "CONNACK" => Head(rx) # "CONNACK" /\ Free(Tail(rx))
    BY <2>1, ReadFree
  <2>3. Online' => Online
    BY <1>5 DEF ConnackHeader
  <2>4. QED BY <2>1, <2>2, <2>3
<1>6. CASE ConnackRead
  <2>1. CASE NotAccepted
    BY <2>1, StopGreeted DEF NotAccepted, ReturnCodeOK
  <2>2. CASE Accepted
    <3>1. hello = "CONNACK"
      BY <1>6, <2>2 DEF ConnackRead, Accepted, NewSession, ReturnCodeOK
    <3>2. hello' = hello
      BY <2>2 DEF Accepted, NewSession, ReturnCodeOK
    <3>3. QED BY <3>1, <3>2
  <2>3. QED BY <1>6, <2>1, <2>2 DEF ConnackRead
<1>7. CASE ConnackStalls
  BY <1>7, StopGreeted DEF ConnackStalls
<1>8. CASE KeepAliveTimeout
  BY <1>8, StopGreeted DEF KeepAliveTimeout
<1>9. CASE Loop
  BY <1>9 DEF Loop, Ping, StampBoth, NoPing, Heard, NextHeader, Overdue
<1>10. CASE BadLength
  BY <1>10, StopGreeted DEF BadLength
<1>11. CASE Oversized
  BY <1>11 DEF Oversized, RestRead, Return, Noticed
<1>12. CASE Received
  BY <1>12 DEF Received, RestRead, Ignored, Deliver, AnswerPing, PingAnswered,
     Return
<1>13. CASE ReadTimeout
  BY <1>13 DEF ReadTimeout, Return, Noticed
<1>14. CASE CallbackReturns
  BY <1>14 DEF CallbackReturns, Return
<1>15. CASE NoticeLoss
  BY <1>15 DEF NoticeLoss, Noticed
<1>16. CASE Publish
  BY <1>16 DEF Publish, Heard, InSketch
<1>17. CASE Subscribe
  BY <1>17 DEF Subscribe, Heard, IdAfter, InSketch
<1>18. CASE SetCallback
  BY <1>18 DEF SetCallback
<1>19. CASE Disconnect
  BY <1>19, StopGreeted DEF Disconnect, StampBoth
<1>20. CASE BrokerSends
  <2>1. PICK k \in Greetings \cup Inbound :
            /\ Sends(k, <<k, "REST">>) \/ Sends(k, <<k>>)
    BY <1>20 DEF BrokerSends
  <2>2. hello' = IF hello = "none" THEN k ELSE hello
    BY <2>1 DEF Sends
  <2>3. /\ rx' = rx \o <<k, "REST">> \/ rx' = rx \o <<k>>
        /\ UNCHANGED <<client, calls, sock>>
    BY <2>1 DEF Sends
  <2>4. hello = "none" \/ hello = "CONNACK"
    BY <2>1 DEF Sends, MaySend
  <2>5. CASE hello = "CONNACK"
    BY <2>2, <2>5
  <2>6. CASE hello = "none" /\ k = "CONNACK"
    BY <2>2, <2>6
  <2>7. CASE hello = "none" /\ k # "CONNACK"
    <3>1. Free(rx')
      BY <2>3, <2>7, AppendFree, CellKinds
    <3>2. QED BY <2>3, <2>7, <3>1
  <2>8. QED BY <2>4, <2>5, <2>6, <2>7
<1>21. CASE BrokerFinishes
  <2>1. hello' = hello /\ rx' = Append(rx, "REST")
    BY <1>21 DEF BrokerFinishes
  <2>2. hello # "CONNACK" => Free(rx')
    <3>1. "ACK" \in Cells
      BY DEF Cells, Kinds
    <3>2. QED BY <2>1, <3>1, AppendFree
  <2>3. UNCHANGED <<client, calls, sock>>
    BY <1>21 DEF BrokerFinishes
  <2>4. QED BY <2>1, <2>2, <2>3
<1>22. CASE Trickles
  BY <1>22 DEF Trickles
<1>23. CASE SocketDies
  BY <1>23, StopGreeted DEF SocketDies
<1>24. CASE Tick
  BY <1>24 DEF Tick, InCall
<1>25. CASE UNCHANGED vars
  BY <1>25 DEF vars
<1>26. QED
  BY <1>1, <1>2, <1>3, <1>4, <1>5, <1>6, <1>7, <1>8, <1>9, <1>10, <1>11,
     <1>12, <1>13, <1>14, <1>15, <1>16, <1>17, <1>18, <1>19, <1>20, <1>21,
     <1>22, <1>23, <1>24, <1>25
  DEF Next, ConnectSteps, LoopSteps, Environment
-----------------------------------------------------------------------------
(* The invariant, and what follows from it. *)

LEMMA InitInv == Init => IInv
<1> SUFFICES ASSUME Init PROVE IInv
  OBVIOUS
<1>1. TypeOK
  <2>1. ClocksOK /\ CountsOK
    BY ZeroTime DEF Init, ClocksOK, CountsOK
  <2>2. StreamOK
    BY DEF Init, StreamOK
  <2>3. StatusOK
    BY ConfigAssumption DEF Init, StatusOK, Disconnected
  <2>4. FlagsOK
    BY DEF Init, FlagsOK
  <2>5. QED BY <2>1, <2>2, <2>3, <2>4 DEF TypeOK
<1>2. ~Online /\ pc = "idle" /\ sock = "closed"
  BY DEF Init, Online
<1>3. Sockets
  BY DEF Init, Sockets, ReadingConnect
<1>4. Greeted
  <2>1. Free(<<>>)
    BY DEF Free
  <2>2. QED BY <1>2, <2>1 DEF Init, Greeted
<1>5. StampAge /\ TrueAge /\ PingStamps /\ UsedIds
  BY <1>2 DEF StampAge, TrueAge, PingStamps, UsedIds, OnWire, InLoop, InCall,
              ReadingLoop, ReadingConnect
<1>6. QED BY <1>1, <1>3, <1>4, <1>5 DEF IInv

LEMMA StepInv == IInv /\ [Next]_vars => IInv'
<1> SUFFICES ASSUME IInv, [Next]_vars PROVE IInv'
  OBVIOUS
<1>1. TypeOK'
  BY TypeStep DEF IInv
<1>2. QED
  BY <1>1, SocketsStep, GreetedStep, StampAgeStep, TrueAgeStep,
     PingStampsStep, UsedIdsStep DEF IInv

\* The inductive invariant holds in every behaviour of the client.
THEOREM Invariance == Spec => []IInv
BY InitInv, StepInv, PTL DEF Spec

\* Every variable keeps its type, whatever the constants.
THEOREM TypeCorrect == Spec => []TypeOK
<1>1. IInv => TypeOK
  BY DEF IInv
<1>2. QED BY <1>1, Invariance, PTL

\* The client is online only where the broker accepted it.
THEOREM AcceptedFirst == Spec => []ConnectedOnlyAfterConnack
<1>1. IInv => ConnectedOnlyAfterConnack
  BY DEF IInv, Greeted, ConnectedOnlyAfterConnack
<1>2. QED BY <1>1, Invariance, PTL

\* No socket is left open by a failed connect(), or used for a second one.
THEOREM OneAttemptPerSocket == Spec => []NoHalfOpenSocket
<1>1. IInv => NoHalfOpenSocket
  BY DEF IInv, Sockets, NoHalfOpenSocket, ReadingConnect, TypeOK, StatusOK
<1>2. QED BY <1>1, Invariance, PTL

\* The broker hears from the client every KeepAlive + MaxGap ticks.
THEOREM ContactKept == Spec => []BrokerNotStarved
<1>1. IInv => BrokerNotStarved
  <2> SUFFICES ASSUME IInv, Online PROVE silence <= KeepAlive + MaxGap
    BY DEF BrokerNotStarved
  <2>1. silence <= Elapsed(now, lastOut)
    BY DEF IInv, TrueAge, OnWire
  <2>2. Elapsed(now, lastOut) <= KeepAlive + sinceCall /\ sinceCall <= MaxGap
    BY DEF IInv, StampAge, InCall
  <2>3. QED BY <2>1, <2>2, Numbers DEF IInv
<1>2. QED BY <1>1, Invariance, PTL

\* A connection on which nothing arrives is given up within two periods.
THEOREM HungGivenUp == Spec => []HungDetected
<1>1. IInv => HungDetected
  <2> SUFFICES ASSUME IInv, Online PROVE quiet <= 2 * (KeepAlive + MaxGap)
    BY DEF HungDetected
  <2>1. quiet <= Elapsed(now, lastIn) + KeepAlive + MaxGap
    BY DEF IInv, TrueAge
  <2>2. Elapsed(now, lastIn) <= KeepAlive + sinceCall /\ sinceCall <= MaxGap
    BY DEF IInv, StampAge, InCall
  <2>3. QED BY <2>1, <2>2, Numbers DEF IInv
<1>2. QED BY <1>1, Invariance, PTL

\* Message identifier zero is never sent.
THEOREM NoZeroId == Spec => []IdsValid
<1>1. IInv => IdsValid
  BY DEF IInv, UsedIds, OnWire, IdsValid
<1>2. QED BY <1>1, Invariance, PTL

\* Only the keep-alive check gives a connection up, when its PINGREQ is old.
LEMMA GivingUp ==
    ASSUME IInv, Next, GivesUp
    PROVE  KeepAliveTimeout /\ pingAge > KeepAlive
<1>1. CASE KeepAliveTimeout
  <2>1. Online /\ pingOutstanding /\ Overdue
    BY <1>1 DEF KeepAliveTimeout
  <2>2. pingAge <= KeepAlive => /\ Elapsed(now, lastIn) <= KeepAlive
                                /\ Elapsed(now, lastOut) <= KeepAlive
    BY <2>1, Numbers DEF IInv, PingStamps
  <2>3. QED BY <1>1, <2>1, <2>2, Numbers DEF IInv, Overdue
<1>2. CASE ConnackTimeout
  BY <1>2 DEF ConnackTimeout, ConnackWaited, GivesUp, IInv, Sockets,
       ReadingConnect
<1>3. CASE ConnectSteps /\ ~ConnackTimeout
  BY <1>3 DEF ConnectSteps, GivesUp, TcpFails, CredentialsTooLong,
       ConnectWritten, StampBoth, ConnackHeader, ConnackRead,
       ConnackStalls, Accepted, NewSession, ReturnCodeOK,
       NotAccepted, ConnectBegins, Noticed, client
<1>4. CASE LoopSteps /\ ~KeepAliveTimeout
  BY <1>4 DEF LoopSteps, GivesUp, Loop, BadLength, Oversized, Received,
       ReadTimeout, CallbackReturns, Noticed
<1>5. CASE NoticeLoss \/ Publish \/ Subscribe \/ SetCallback \/ Disconnect
  BY <1>5 DEF GivesUp, NoticeLoss, Publish, Subscribe, SetCallback,
       Disconnect, StampBoth, Noticed
<1>6. CASE Environment
  BY <1>6 DEF Environment, GivesUp, BrokerSends, Sends, BrokerFinishes,
       Trickles, SocketDies, Tick, client
<1>7. QED BY <1>1, <1>2, <1>3, <1>4, <1>5, <1>6 DEF Next

\* A timeout leaves the broker more than KeepAlive ticks to answer a PINGREQ.
THEOREM Patient == Spec => PatientWithBroker
<1>1. IInv /\ [Next]_vars => [GivesUp => pingAge > KeepAlive]_vars
  BY GivingUp
<1>2. QED BY <1>1, Invariance, PTL DEF Spec, PatientWithBroker
=============================================================================
