------------------------ MODULE PubSubPromisesProofs ------------------------
(***************************************************************************)
(* Theorems about the order of what the broker sends: the client keeps its *)
(* place in the byte stream, and its account of PINGREQs is right.  And    *)
(* the client implements MqttLink, for every clock and interval.           *)
(***************************************************************************)
EXTENDS PubSubClientProofs, MCPubSubClient

\* The first byte of the packet is read, and the rest is to come.
Half == pc \in {"body", "connbody"}

\* First bytes and rests take turns in s, which begins with a rest if half.
Alternates(s, half) ==
    \A i \in 1 .. Len(s) :
        s[i] = "REST" <=> IF i = 1 THEN half ELSE s[i - 1] # "REST"

\* A rest is owed after s.
Open(s, half) == IF s = <<>> THEN half ELSE s[Len(s)] # "REST"

InOrder(s, half, more) == Alternates(s, half) /\ (more <=> Open(s, half))

\* A client that never gave up a read halfway knows where a packet begins.
Framed ==
    sock = "open" /\ ~stalled => pc # "junk" /\ InOrder(rx, Half, owed)

\* Between two packets there is none in hand, and none is delivered but a
\* message.  A socket that is closed has no past.
InHand ==
    /\ pc \in {"idle", "connack"} => msg = "none"
    /\ pc = "callback" => msg \in {"QOS0", "QOS1"}
    /\ sock = "closed" => ~unanswered /\ ~stalled

PongIn(s)  == \E i \in 1 .. Len(s) : s[i] = "PINGRESP"
OnePong(s) == \A i, j \in 1 .. Len(s) :
                  s[i] = "PINGRESP" /\ s[j] = "PINGRESP" => i = j

\* The PINGREQ, or its answer, is in one place.
OnePlace ==
    sock = "open" /\ ~stalled =>
        /\ OnePong(rx)
        /\ msg = "PINGRESP" => ~PongIn(rx)
        /\ unanswered => msg # "PINGRESP" /\ ~PongIn(rx)

\* There is one if and only if the client waits for it.
Accounted ==
    sock = "open" /\ ~stalled =>
        (AnswerOnTheWay <=> state = "CONNECTED" /\ pingOutstanding)

StreamInv == Framed /\ InHand /\ OnePlace /\ Accounted
-----------------------------------------------------------------------------
(* Sequences of cells. *)

LEMMA EmptyStream ==
    ASSUME NEW s \in Seq(Cells), Len(s) = 0 PROVE s = <<>>
OBVIOUS

\* What is read is the other half, and the rest goes on in order.
LEMMA TakenInOrder ==
    ASSUME NEW s \in Seq(Cells), s # <<>>, NEW half \in BOOLEAN,
           NEW more \in BOOLEAN, InOrder(s, half, more)
    PROVE  /\ Head(s) = "REST" <=> half
           /\ InOrder(Tail(s), ~half, more)
<1>1. /\ Len(s) \in Nat /\ Len(s) > 0 /\ Head(s) = s[1]
      /\ Len(Tail(s)) = Len(s) - 1
      /\ \A i \in 1 .. Len(Tail(s)) : Tail(s)[i] = s[i + 1]
  OBVIOUS
<1>2. Head(s) = "REST" <=> half
  BY <1>1 DEF InOrder, Alternates
<1>3. Alternates(Tail(s), ~half)
  <2>1. SUFFICES ASSUME NEW i \in 1 .. Len(Tail(s))
                 PROVE  Tail(s)[i] = "REST" <=>
                            IF i = 1 THEN ~half ELSE Tail(s)[i - 1] # "REST"
    BY DEF Alternates
  <2>2. i + 1 \in 1 .. Len(s) /\ i + 1 # 1 /\ (i + 1) - 1 = i
    BY <1>1
  <2>3. Tail(s)[i] = "REST" <=> s[i] # "REST"
    BY <1>1, <2>2 DEF InOrder, Alternates
  <2>4. CASE i = 1
    BY <1>1, <1>2, <2>3, <2>4
  <2>5. CASE i # 1
    <3>1. i - 1 \in 1 .. Len(Tail(s)) /\ (i - 1) + 1 = i
      BY <1>1, <2>5
    <3>2. Tail(s)[i - 1] = s[i]
      BY <1>1, <3>1
    <3>3. QED BY <2>3, <2>5, <3>2
  <2>6. QED BY <2>4, <2>5
<1>4. more <=> Open(Tail(s), ~half)
  <2>1. more <=> s[Len(s)] # "REST"
    BY DEF InOrder, Open
  <2>2. CASE Len(s) = 1
    <3>1. Tail(s) = <<>> /\ s[Len(s)] = Head(s)
      <4>1. Tail(s) \in Seq(Cells) /\ Len(Tail(s)) = 0
        BY <1>1, <2>2, ReadCell
      <4>2. QED BY <1>1, <2>2, <4>1, EmptyStream
    <3>2. Open(Tail(s), ~half) = ~half
      BY <3>1 DEF Open
    <3>3. QED BY <1>2, <2>1, <3>1, <3>2
  <2>3. CASE Len(s) # 1
    <3>1. Len(Tail(s)) \in 1 .. Len(Tail(s)) /\ Tail(s) # <<>>
      BY <1>1, <2>3
    <3>2. Tail(s)[Len(Tail(s))] = s[Len(s)]
      BY <1>1, <3>1
    <3>3. QED BY <2>1, <3>1, <3>2 DEF Open
  <2>4. QED BY <2>2, <2>3
<1>5. QED BY <1>2, <1>3, <1>4 DEF InOrder

\* One more cell, of the kind that is due.
LEMMA CellInOrder ==
    ASSUME NEW s \in Seq(Cells), NEW half \in BOOLEAN, NEW more \in BOOLEAN,
           NEW c \in Cells, InOrder(s, half, more), c = "REST" <=> more
    PROVE  InOrder(Append(s, c), half, ~more)
<1>1. /\ Len(s) \in Nat /\ Len(Append(s, c)) = Len(s) + 1
      /\ \A i \in 1 .. Len(s) : Append(s, c)[i] = s[i]
      /\ Append(s, c)[Len(s) + 1] = c
  OBVIOUS
<1>2. Alternates(Append(s, c), half)
  <2>1. SUFFICES ASSUME NEW i \in 1 .. Len(Append(s, c))
                 PROVE  Append(s, c)[i] = "REST" <=>
                            IF i = 1 THEN half
                                     ELSE Append(s, c)[i - 1] # "REST"
    BY DEF Alternates
  <2>2. CASE i \in 1 .. Len(s)
    <3>1. i # 1 => i - 1 \in 1 .. Len(s)
      BY <1>1, <2>2
    <3>2. QED BY <1>1, <2>2, <3>1 DEF InOrder, Alternates
  <2>3. CASE i = Len(s) + 1
    <3>1. Append(s, c)[i] = "REST" <=> Open(s, half)
      BY <1>1, <2>3 DEF InOrder
    <3>2. CASE s = <<>>
      BY <1>1, <2>3, <3>1, <3>2 DEF Open
    <3>3. CASE s # <<>>
      <4>1. i # 1 /\ i - 1 = Len(s) /\ i - 1 \in 1 .. Len(s)
        BY <1>1, <2>3, <3>3
      <4>2. QED BY <1>1, <3>1, <3>3, <4>1 DEF Open
    <3>4. QED BY <3>2, <3>3
  <2>4. QED BY <1>1, <2>2, <2>3
<1>3. ~more <=> Open(Append(s, c), half)
  <2>1. Append(s, c) # <<>>
    OBVIOUS
  <2>2. QED BY <1>1, <2>1 DEF Open
<1>4. QED BY <1>2, <1>3 DEF InOrder

\* A cell that is read leaves those behind it.
LEMMA TakenPong ==
    ASSUME NEW s \in Seq(Cells), s # <<>>
    PROVE  /\ PongIn(s) <=> Head(s) = "PINGRESP" \/ PongIn(Tail(s))
           /\ OnePong(s) => /\ OnePong(Tail(s))
                            /\ Head(s) = "PINGRESP" => ~PongIn(Tail(s))
<1>1. /\ Len(s) \in Nat /\ Len(s) > 0 /\ Head(s) = s[1]
      /\ Len(Tail(s)) = Len(s) - 1
      /\ \A i \in 1 .. Len(Tail(s)) : Tail(s)[i] = s[i + 1]
  OBVIOUS
<1>2. \A i \in 1 .. Len(Tail(s)) : i + 1 \in 1 .. Len(s) /\ i + 1 # 1
  BY <1>1
<1>3. \A i \in 1 .. Len(s) : i # 1 => i - 1 \in 1 .. Len(Tail(s))
                                      /\ Tail(s)[i - 1] = s[i]
  BY <1>1
<1>4. 1 \in 1 .. Len(s)
  BY <1>1
<1>5. PongIn(s) <=> Head(s) = "PINGRESP" \/ PongIn(Tail(s))
  BY <1>1, <1>2, <1>3, <1>4 DEF PongIn
<1>6. OnePong(s) => OnePong(Tail(s))
  <2>1. SUFFICES ASSUME OnePong(s),
                        NEW i \in 1 .. Len(Tail(s)),
                        NEW j \in 1 .. Len(Tail(s)),
                        Tail(s)[i] = "PINGRESP", Tail(s)[j] = "PINGRESP"
                 PROVE  i = j
    BY DEF OnePong
  <2>2. i + 1 = j + 1
    BY <1>1, <1>2, <2>1 DEF OnePong
  <2>3. QED BY <1>1, <2>2
<1>7. OnePong(s) /\ Head(s) = "PINGRESP" => ~PongIn(Tail(s))
  BY <1>1, <1>2, <1>4 DEF OnePong, PongIn
<1>8. QED BY <1>5, <1>6, <1>7

\* A cell that comes.
LEMMA CellPong ==
    ASSUME NEW s \in Seq(Cells), NEW c \in Cells
    PROVE  /\ PongIn(Append(s, c)) <=> PongIn(s) \/ c = "PINGRESP"
           /\ OnePong(s) /\ (c = "PINGRESP" => ~PongIn(s)) =>
                  OnePong(Append(s, c))
<1>1. /\ Len(s) \in Nat /\ Len(Append(s, c)) = Len(s) + 1
      /\ \A i \in 1 .. Len(s) : Append(s, c)[i] = s[i]
      /\ Append(s, c)[Len(s) + 1] = c
  OBVIOUS
<1>2. \A i \in 1 .. Len(s) + 1 : i \in 1 .. Len(s) \/ i = Len(s) + 1
  BY <1>1
<1>3. /\ Len(s) + 1 \in 1 .. Len(s) + 1
      /\ \A i \in 1 .. Len(s) : i \in 1 .. Len(s) + 1
  BY <1>1
<1>4. PongIn(Append(s, c)) <=> PongIn(s) \/ c = "PINGRESP"
  BY <1>1, <1>2, <1>3 DEF PongIn
<1>5. OnePong(s) /\ (c = "PINGRESP" => ~PongIn(s)) => OnePong(Append(s, c))
  BY <1>1, <1>2 DEF OnePong, PongIn
<1>6. QED BY <1>4, <1>5

LEMMA TwoCells ==
    ASSUME NEW s \in Seq(Cells), NEW c \in Cells
    PROVE  /\ s \o <<c>> = Append(s, c)
           /\ s \o <<c, "REST">> = Append(Append(s, c), "REST")
           /\ Append(s, c) \in Seq(Cells)
OBVIOUS
-----------------------------------------------------------------------------
(* The steps. *)

LEMMA StreamTypes ==
    ASSUME TypeOK
    PROVE  /\ rx \in Seq(Cells) /\ owed \in BOOLEAN /\ Half \in BOOLEAN
           /\ unanswered \in BOOLEAN /\ stalled \in BOOLEAN
           /\ pingOutstanding \in BOOLEAN
           /\ sock \in {"open", "closed"}
BY DEF TypeOK, StreamOK, FlagsOK, StatusOK, Half

\* AnswerOnTheWay, with its places named.
LEMMA Places ==
    AnswerOnTheWay <=> unanswered \/ msg = "PINGRESP" \/ PongIn(rx)
BY DEF AnswerOnTheWay, PongIn

\* Nothing that matters here changes.
LEMMA Still ==
    ASSUME StreamInv,
           UNCHANGED <<sock, rx, owed, pc, msg, unanswered, stalled, state,
                       pingOutstanding>>
    PROVE  StreamInv'
BY DEF StreamInv, Framed, InHand, OnePlace, Accounted, AnswerOnTheWay, Half,
       InOrder, Alternates, Open, PongIn, OnePong

\* The socket is gone, and the call goes on or returns.
LEMMA Down ==
    ASSUME StreamInv, sock' = "closed", ~unanswered', ~stalled',
           \/ pc' = pc /\ msg' = msg
           \/ pc' = "idle" /\ msg' = "none"
    PROVE  StreamInv'
BY DEF StreamInv, Framed, InHand, OnePlace, Accounted

\* A connection begins with an empty stream.
LEMMA ConnectWrittenStream ==
    ASSUME TypeOK, Sockets, StreamInv, ConnectWritten
    PROVE  StreamInv'
<1>1. /\ pc = "idle" /\ ~Online
      /\ sock' = "open" /\ pc' = "connack"
      /\ UNCHANGED <<rx, owed, msg, unanswered, stalled>>
      /\ state' = Noticed
  BY DEF ConnectWritten, ConnectBegins
<1>2. sock = "closed"
  BY <1>1, StreamTypes DEF Sockets, Online, ReadingConnect
<1>3. rx' = <<>> /\ ~owed' /\ ~unanswered' /\ ~stalled' /\ msg' = "none"
  BY <1>1, <1>2 DEF Sockets, StreamInv, InHand
<1>4. state' # "CONNECTED"
  BY <1>1, <1>2 DEF Noticed
<1>5. Framed'
  BY <1>1, <1>3 DEF Framed, Half, InOrder, Alternates, Open
<1>6. ~PongIn(rx)' /\ OnePong(rx)'
  BY <1>3 DEF PongIn, OnePong
<1>7. OnePlace' /\ Accounted'
  BY <1>3, <1>4, <1>6 DEF OnePlace, Accounted, AnswerOnTheWay, PongIn
<1>8. InHand'
  BY <1>1, <1>3 DEF InHand
<1>9. QED BY <1>5, <1>7, <1>8 DEF StreamInv

\* connect() takes the first byte of the answer.
LEMMA ConnackHeaderStream ==
    ASSUME TypeOK, Sockets, StreamInv, ConnackHeader
    PROVE  StreamInv'
<1>1. /\ pc = "connack" /\ rx # <<>>
      /\ pc' = "connbody" /\ msg' = Head(rx) /\ rx' = Tail(rx)
      /\ UNCHANGED <<sock, owed, unanswered, stalled, state, pingOutstanding>>
  BY DEF ConnackHeader, client, broker
<1>2. ~Half /\ Half' /\ msg = "none" /\ state # "CONNECTED"
  BY <1>1 DEF Half, StreamInv, InHand, Sockets, ReadingConnect
<1>3. InHand'
  BY <1>1 DEF InHand, StreamInv
<1>4. CASE sock = "open" /\ ~stalled
  <2>1. InOrder(rx, FALSE, owed) /\ rx \in Seq(Cells) /\ owed \in BOOLEAN
    BY <1>2, <1>4, StreamTypes DEF StreamInv, Framed
  <2>2. InOrder(Tail(rx), TRUE, owed)
    BY <1>1, <2>1, TakenInOrder
  <2>3. Framed'
    BY <1>1, <1>2, <2>2 DEF Framed
  <2>4. ~unanswered /\ ~PongIn(rx)
    BY <1>2, <1>4, Places DEF StreamInv, Accounted
  <2>5. msg' # "PINGRESP" /\ ~PongIn(rx)' /\ OnePong(rx)'
    BY <1>1, <1>4, <2>1, <2>4, TakenPong DEF StreamInv, OnePlace
  <2>6. OnePlace'
    BY <1>1, <2>5 DEF OnePlace
  <2>7. Accounted'
    BY <1>1, <1>2, <2>4, <2>5 DEF Accounted, AnswerOnTheWay, PongIn
  <2>8. QED BY <1>3, <2>3, <2>6, <2>7 DEF StreamInv
<1>5. CASE ~(sock = "open" /\ ~stalled)
  BY <1>1, <1>3, <1>5 DEF StreamInv, Framed, OnePlace, Accounted
<1>6. QED BY <1>4, <1>5

\* The rest of a packet is taken, and nothing else.
LEMMA RestTaken ==
    ASSUME TypeOK, StreamInv, sock = "open", ~stalled, Half,
           rx # <<>>, rx' = Tail(rx), owed' = owed
    PROVE  /\ InOrder(rx, FALSE, owed)'
           /\ PongIn(rx)' <=> PongIn(rx)
           /\ OnePong(rx)'
<1>1. rx \in Seq(Cells) /\ owed \in BOOLEAN /\ InOrder(rx, TRUE, owed)
  BY StreamTypes DEF StreamInv, Framed
<1>2. Head(rx) = "REST" /\ InOrder(Tail(rx), FALSE, owed)
  BY <1>1, TakenInOrder
<1>3. (PongIn(Tail(rx)) <=> PongIn(rx)) /\ OnePong(Tail(rx))
  BY <1>1, <1>2, TakenPong DEF StreamInv, OnePlace
<1>4. QED BY <1>2, <1>3

\* connect() succeeds.
LEMMA AcceptedStream ==
    ASSUME TypeOK, Sockets, StreamInv, ConnackRead, Accepted
    PROVE  StreamInv'
<1>1. /\ pc = "connbody" /\ rx # <<>> /\ msg = "CONNACK"
      /\ pc' = "idle" /\ msg' = "none" /\ rx' = Tail(rx)
      /\ ~pingOutstanding'
      /\ UNCHANGED <<sock, owed, unanswered, stalled>>
  BY DEF ConnackRead, Accepted, ReturnCodeOK, NewSession, Return, broker
<1>2. Half /\ Half' = FALSE /\ state # "CONNECTED"
  BY <1>1 DEF Half, Sockets, ReadingConnect
<1>3. InHand'
  BY <1>1 DEF InHand, StreamInv
<1>4. CASE sock = "open" /\ ~stalled
  <2>1. /\ InOrder(rx, FALSE, owed)' /\ OnePong(rx)'
        /\ PongIn(rx)' <=> PongIn(rx)
    BY <1>1, <1>2, <1>4, RestTaken
  <2>2. Framed'
    BY <1>1, <1>2, <2>1 DEF Framed
  <2>3. ~unanswered /\ ~PongIn(rx)
    BY <1>2, <1>4, Places DEF StreamInv, Accounted
  <2>4. OnePlace'
    BY <1>1, <2>1, <2>3 DEF OnePlace
  <2>5. Accounted'
    BY <1>1, <2>1, <2>3 DEF Accounted, AnswerOnTheWay, PongIn
  <2>6. QED BY <1>3, <2>2, <2>4, <2>5 DEF StreamInv
<1>5. CASE ~(sock = "open" /\ ~stalled)
  BY <1>1, <1>3, <1>5 DEF StreamInv, Framed, OnePlace, Accounted
<1>6. QED BY <1>4, <1>5

\* loop() pings or not, and takes the first byte of a packet if there is one.
LEMMA LoopStream ==
    ASSUME TypeOK, StreamInv, Loop
    PROVE  StreamInv'
<1>1. /\ pc = "idle" /\ sock = "open" /\ state = "CONNECTED" /\ msg = "none"
      /\ UNCHANGED <<sock, owed, stalled, state>>
  BY DEF Loop, Online, StreamInv, InHand
<1>2. \/ unanswered' = unanswered /\ pingOutstanding' = pingOutstanding
      \/ unanswered' /\ pingOutstanding' /\ ~pingOutstanding
  BY DEF Loop, Ping, NoPing
<1>3. ~Half
  BY <1>1 DEF Half
<1>4. CASE rx = <<>>
  <2>1. UNCHANGED <<rx, pc, msg>>
    BY <1>4 DEF Loop, NextHeader, calls
  <2>2. InHand'
    BY <1>1, <2>1 DEF InHand
  <2>3. Framed'
    BY <1>1, <2>1 DEF StreamInv, Framed, Half, InOrder, Alternates, Open
  <2>4. ~PongIn(rx) /\ ~PongIn(rx)' /\ OnePong(rx)'
    BY <1>4, <2>1 DEF PongIn, OnePong
  <2>5. OnePlace'
    BY <1>1, <2>1, <2>4 DEF OnePlace
  <2>6. stalled \/ (unanswered <=> pingOutstanding)
    BY <1>1, <2>4, Places DEF StreamInv, Accounted
  <2>7. stalled' \/ (AnswerOnTheWay' <=> unanswered')
    BY <1>1, <2>1, <2>4 DEF AnswerOnTheWay, PongIn
  <2>8. Accounted'
    BY <1>1, <1>2, <2>6, <2>7, StreamTypes DEF Accounted
  <2>9. QED BY <2>2, <2>3, <2>5, <2>8 DEF StreamInv
<1>5. CASE rx # <<>>
  <2>1. /\ rx' = Tail(rx) /\ pc' \in {"body", "junk"}
        /\ Head(rx) # "REST" => pc' = "body" /\ msg' = Head(rx)
    BY <1>5 DEF Loop, NextHeader
  <2>2. InHand'
    BY <1>1, <2>1 DEF InHand
  <2>3. CASE stalled
    BY <1>1, <2>2, <2>3 DEF StreamInv, Framed, OnePlace, Accounted
  <2>4. CASE ~stalled
    <3>1. InOrder(rx, FALSE, owed) /\ rx \in Seq(Cells) /\ owed \in BOOLEAN
      BY <1>1, <1>3, <2>4, StreamTypes DEF StreamInv, Framed
    <3>2. Head(rx) # "REST" /\ InOrder(Tail(rx), TRUE, owed)
      BY <1>5, <3>1, TakenInOrder
    <3>3. pc' = "body" /\ msg' = Head(rx) /\ Half'
      BY <2>1, <3>2 DEF Half
    <3>4. Framed'
      BY <1>1, <2>1, <3>2, <3>3 DEF Framed
    <3>5. /\ PongIn(rx) <=> msg' = "PINGRESP" \/ PongIn(rx)'
          /\ OnePong(rx)'
          /\ msg' = "PINGRESP" => ~PongIn(rx)'
      BY <1>1, <1>5, <2>1, <2>4, <3>1, <3>3, TakenPong DEF StreamInv, OnePlace
    <3>6. /\ unanswered \/ PongIn(rx) <=> pingOutstanding
          /\ unanswered => ~PongIn(rx)
      BY <1>1, <2>4, Places DEF StreamInv, OnePlace, Accounted
    <3>7. OnePlace'
      BY <1>2, <3>5, <3>6 DEF OnePlace
    <3>8. AnswerOnTheWay' <=> unanswered' \/ PongIn(rx)
      BY <3>5 DEF AnswerOnTheWay, PongIn
    <3>9. Accounted'
      BY <1>1, <1>2, <3>6, <3>8, StreamTypes DEF Accounted
    <3>10. QED BY <2>2, <3>4, <3>7, <3>9 DEF StreamInv
  <2>5. QED BY <2>3, <2>4
<1>6. QED BY <1>4, <1>5

\* readPacket() has read a packet too large for the buffer.
LEMMA OversizedStream ==
    ASSUME TypeOK, StreamInv, Oversized
    PROVE  StreamInv'
<1>1. /\ pc \in ReadingLoop /\ RestRead /\ msg = "OVERSIZE" /\ state' = Noticed
      /\ pc' = "idle" /\ msg' = "none"
      /\ UNCHANGED <<sock, owed, unanswered, stalled, pingOutstanding>>
  BY DEF Oversized, RestRead, Return, broker, ReadingLoop
<1>2. InHand'
  BY <1>1 DEF InHand, StreamInv
<1>3. CASE sock = "open" /\ ~stalled
  <2>1. Half /\ Half' = FALSE /\ rx # <<>> /\ rx' = Tail(rx) /\ state' = state
    BY <1>1, <1>3
    DEF StreamInv, Framed, Half, ReadingLoop, RestRead, Noticed
  <2>2. /\ InOrder(rx, FALSE, owed)' /\ OnePong(rx)'
        /\ PongIn(rx)' <=> PongIn(rx)
    BY <1>1, <1>3, <2>1, RestTaken
  <2>3. Framed'
    BY <1>1, <2>1, <2>2 DEF Framed
  <2>4. OnePlace'
    BY <1>1, <1>3, <2>2 DEF StreamInv, OnePlace
  <2>5. AnswerOnTheWay' <=> AnswerOnTheWay
    <3>1. AnswerOnTheWay' <=> unanswered \/ PongIn(rx)
      BY <1>1, <2>2 DEF AnswerOnTheWay, PongIn
    <3>2. QED BY <1>1, <3>1, Places
  <2>6. Accounted'
    BY <1>1, <1>3, <2>1, <2>5 DEF StreamInv, Accounted
  <2>7. QED BY <1>2, <2>3, <2>4, <2>6 DEF StreamInv
<1>4. CASE ~(sock = "open" /\ ~stalled)
  BY <1>1, <1>2, <1>4 DEF StreamInv, Framed, OnePlace, Accounted
<1>5. QED BY <1>3, <1>4

\* What the switch on the kind of a packet does to the account.
LEMMA ReceivedKinds ==
    ASSUME Received
    PROVE  /\ pc \in ReadingLoop
           /\ \/ pc' = "idle" /\ msg' = "none"
              \/ pc' = "callback" /\ msg' = msg /\ msg \in {"QOS0", "QOS1"}
           /\ IF msg = "PINGRESP" THEN ~pingOutstanding'
                                  ELSE pingOutstanding' = pingOutstanding
           /\ UNCHANGED <<sock, owed, unanswered, stalled, state>>
<1>1. pc \in ReadingLoop /\ UNCHANGED <<sock, owed, unanswered, stalled, state>>
  BY DEF Received, RestRead, ReadingLoop, broker
<1>2. CASE Ignored
  BY <1>1, <1>2 DEF Ignored, Return
<1>3. CASE Deliver
  BY <1>1, <1>3 DEF Deliver
<1>4. CASE AnswerPing
  BY <1>1, <1>4 DEF AnswerPing, Return
<1>5. CASE PingAnswered
  BY <1>1, <1>5 DEF PingAnswered, Return
<1>6. QED BY <1>2, <1>3, <1>4, <1>5 DEF Received

LEMMA ReceivedStream ==
    ASSUME TypeOK, StreamInv, Received
    PROVE  StreamInv'
<1>1. /\ pc \in ReadingLoop
      /\ \/ pc' = "idle" /\ msg' = "none"
         \/ pc' = "callback" /\ msg' = msg /\ msg \in {"QOS0", "QOS1"}
      /\ IF msg = "PINGRESP" THEN ~pingOutstanding'
                             ELSE pingOutstanding' = pingOutstanding
      /\ UNCHANGED <<sock, owed, unanswered, stalled, state>>
  BY ReceivedKinds
<1>2. InHand'
  BY <1>1 DEF InHand, StreamInv
<1>3. CASE sock = "open" /\ ~stalled
  <2>1. Half /\ Half' = FALSE /\ rx # <<>> /\ rx' = Tail(rx)
    BY <1>1, <1>3
    DEF StreamInv, Framed, Half, ReadingLoop, Received, RestRead
  <2>2. /\ InOrder(rx, FALSE, owed)' /\ OnePong(rx)'
        /\ PongIn(rx)' <=> PongIn(rx)
    BY <1>1, <1>3, <2>1, RestTaken
  <2>3. Framed'
    BY <1>1, <2>1, <2>2 DEF Framed
  <2>4. msg' # "PINGRESP"
    BY <1>1
  <2>5. OnePlace'
    BY <1>1, <1>3, <2>2, <2>4 DEF StreamInv, OnePlace
  <2>6. AnswerOnTheWay' <=> unanswered \/ PongIn(rx)
    BY <1>1, <2>2, <2>4 DEF AnswerOnTheWay, PongIn
  <2>7. CASE msg = "PINGRESP"
    <3>1. ~AnswerOnTheWay'
      BY <1>3, <2>6, <2>7 DEF StreamInv, OnePlace
    <3>2. Accounted'
      BY <1>1, <2>7, <3>1 DEF Accounted
    <3>3. QED BY <1>2, <2>3, <2>5, <3>2 DEF StreamInv
  <2>8. CASE msg # "PINGRESP"
    <3>1. AnswerOnTheWay' <=> AnswerOnTheWay
      BY <2>6, <2>8, Places
    <3>2. Accounted'
      BY <1>1, <1>3, <2>8, <3>1 DEF StreamInv, Accounted
    <3>3. QED BY <1>2, <2>3, <2>5, <3>2 DEF StreamInv
  <2>9. QED BY <2>7, <2>8
<1>4. CASE ~(sock = "open" /\ ~stalled)
  BY <1>1, <1>2, <1>4 DEF StreamInv, Framed, OnePlace, Accounted
<1>5. QED BY <1>3, <1>4

\* A read gives up: from now on nothing is promised on this socket.
LEMMA ReadTimeoutStream ==
    ASSUME TypeOK, StreamInv, ReadTimeout
    PROVE  StreamInv'
<1>1. /\ pc' = "idle" /\ msg' = "none" /\ stalled' = (sock = "open")
      /\ sock' = sock /\ unanswered' = unanswered
  BY DEF ReadTimeout, Return, wire
<1>2. InHand'
  BY <1>1 DEF InHand, StreamInv
<1>3. ~(sock' = "open" /\ ~stalled')
  BY <1>1
<1>4. QED BY <1>2, <1>3 DEF StreamInv, Framed, OnePlace, Accounted

LEMMA CallbackReturnsStream ==
    ASSUME TypeOK, StreamInv, CallbackReturns
    PROVE  StreamInv'
<1>1. /\ pc = "callback" /\ pc' = "idle" /\ msg' = "none"
      /\ UNCHANGED <<sock, rx, owed, unanswered, stalled, state,
                     pingOutstanding>>
  BY DEF CallbackReturns, Return, wire, broker
<1>2. ~Half /\ ~Half' /\ msg # "PINGRESP"
  BY <1>1 DEF Half, StreamInv, InHand
<1>3. InHand'
  BY <1>1 DEF InHand, StreamInv
<1>4. Framed'
  BY <1>1, <1>2 DEF StreamInv, Framed, InOrder, Alternates, Open
<1>5. (PongIn(rx)' <=> PongIn(rx)) /\ (OnePong(rx)' <=> OnePong(rx))
  BY <1>1 DEF PongIn, OnePong
<1>6. OnePlace'
  BY <1>1, <1>5 DEF StreamInv, OnePlace
<1>7. AnswerOnTheWay' <=> AnswerOnTheWay
  BY <1>1, <1>2 DEF AnswerOnTheWay
<1>8. Accounted'
  BY <1>1, <1>7 DEF StreamInv, Accounted
<1>9. QED BY <1>3, <1>4, <1>6, <1>8 DEF StreamInv

\* The broker sends a packet or the first part of one.
LEMMA BrokerSendsStream ==
    ASSUME TypeOK, StreamInv, BrokerSends
    PROVE  StreamInv'
<1>1. PICK k \in Greetings \cup Inbound :
          \/ Sends(k, <<k, "REST">>) /\ UNCHANGED owed
          \/ Sends(k, <<k>>) /\ owed' = TRUE
  BY DEF BrokerSends
<1>2. /\ sock = "open" /\ ~owed /\ (k = "PINGRESP" => unanswered)
      /\ unanswered' = (unanswered /\ k # "PINGRESP")
      /\ UNCHANGED <<sock, pc, msg, stalled, state, pingOutstanding>>
      /\ \/ rx' = rx \o <<k, "REST">> /\ ~owed'
         \/ rx' = rx \o <<k>> /\ owed'
  BY <1>1 DEF Sends, MaySend, client, calls
<1>3. k \in Cells /\ k # "REST" /\ "REST" \in Cells
  BY ConfigAssumption DEF Cells, Kinds, Greetings
<1>4. rx \in Seq(Cells) /\ Half \in BOOLEAN /\ Append(rx, k) \in Seq(Cells)
  BY <1>3, StreamTypes, TwoCells
<1>5. \/ rx' = Append(Append(rx, k), "REST") /\ ~owed'
      \/ rx' = Append(rx, k) /\ owed'
  BY <1>2, <1>3, <1>4, TwoCells
<1>6. InHand'
  BY <1>2 DEF InHand, StreamInv
<1>7. CASE stalled
  BY <1>2, <1>6, <1>7 DEF StreamInv, Framed, OnePlace, Accounted
<1>8. CASE ~stalled
  <2>1. pc # "junk" /\ InOrder(rx, Half, FALSE)
    BY <1>2, <1>8, StreamTypes DEF StreamInv, Framed
  <2>2. InOrder(Append(rx, k), Half, TRUE)
    BY <1>3, <1>4, <2>1, CellInOrder
  <2>3. InOrder(Append(Append(rx, k), "REST"), Half, FALSE)
    BY <1>3, <1>4, <2>2, CellInOrder
  <2>4. InOrder(rx', Half, owed')
    <3>1. CASE rx' = Append(Append(rx, k), "REST") /\ ~owed'
      BY <2>3, <3>1 DEF InOrder
    <3>2. CASE rx' = Append(rx, k) /\ owed'
      BY <2>2, <3>2 DEF InOrder
    <3>3. QED BY <1>5, <3>1, <3>2
  <2>5. Framed'
    <3>1. Half' = Half
      BY <1>2 DEF Half
    <3>2. QED BY <1>2, <2>1, <2>4, <3>1 DEF Framed
  <2>6. /\ PongIn(rx)' <=> PongIn(rx) \/ k = "PINGRESP"
        /\ OnePong(rx)'
    <3>1. OnePong(rx) /\ (k = "PINGRESP" => ~PongIn(rx))
      BY <1>2, <1>8 DEF StreamInv, OnePlace
    <3>2. /\ PongIn(Append(rx, k)) <=> PongIn(rx) \/ k = "PINGRESP"
          /\ OnePong(Append(rx, k))
      BY <1>3, <1>4, <3>1, CellPong
    <3>3. /\ PongIn(Append(Append(rx, k), "REST")) <=> PongIn(Append(rx, k))
          /\ OnePong(Append(Append(rx, k), "REST"))
      BY <1>3, <1>4, <3>2, CellPong
    <3>4. QED BY <1>5, <3>2, <3>3
  <2>7. OnePlace'
    BY <1>2, <1>8, <2>6 DEF StreamInv, OnePlace
  <2>8. AnswerOnTheWay' <=> AnswerOnTheWay
    <3>1. AnswerOnTheWay' <=> \/ unanswered' \/ msg = "PINGRESP"
                              \/ PongIn(rx) \/ k = "PINGRESP"
      BY <1>2, <2>6 DEF AnswerOnTheWay, PongIn
    <3>2. QED BY <1>2, <3>1, Places
  <2>9. Accounted'
    BY <1>2, <1>8, <2>8 DEF StreamInv, Accounted
  <2>10. QED BY <1>6, <2>5, <2>7, <2>9 DEF StreamInv
<1>9. QED BY <1>7, <1>8

\* ... and the rest of it.
LEMMA BrokerFinishesStream ==
    ASSUME TypeOK, StreamInv, BrokerFinishes
    PROVE  StreamInv'
<1>1. /\ owed /\ ~owed' /\ rx' = Append(rx, "REST")
      /\ UNCHANGED <<sock, pc, msg, unanswered, stalled, state,
                     pingOutstanding>>
  BY DEF BrokerFinishes, client, calls, broker
<1>2. rx \in Seq(Cells) /\ Half \in BOOLEAN /\ "REST" \in Cells /\ Half' = Half
  BY <1>1, StreamTypes DEF Cells, Half
<1>3. InHand'
  BY <1>1 DEF InHand, StreamInv
<1>4. CASE sock = "open" /\ ~stalled
  <2>1. pc # "junk" /\ InOrder(rx, Half, TRUE)
    BY <1>1, <1>4, StreamTypes DEF StreamInv, Framed
  <2>2. InOrder(Append(rx, "REST"), Half, FALSE)
    BY <1>2, <2>1, CellInOrder
  <2>3. Framed'
    BY <1>1, <1>2, <2>1, <2>2 DEF Framed, InOrder
  <2>4. (PongIn(rx)' <=> PongIn(rx)) /\ OnePong(rx)'
    BY <1>1, <1>2, <1>4, CellPong DEF StreamInv, OnePlace
  <2>5. OnePlace'
    BY <1>1, <1>4, <2>4 DEF StreamInv, OnePlace
  <2>6. AnswerOnTheWay' <=> AnswerOnTheWay
    <3>1. AnswerOnTheWay' <=> unanswered \/ msg = "PINGRESP" \/ PongIn(rx)
      BY <1>1, <2>4 DEF AnswerOnTheWay, PongIn
    <3>2. QED BY <3>1, Places
  <2>7. Accounted'
    BY <1>1, <1>4, <2>6 DEF StreamInv, Accounted
  <2>8. QED BY <1>3, <2>3, <2>5, <2>7 DEF StreamInv
<1>5. CASE ~(sock = "open" /\ ~stalled)
  BY <1>1, <1>3, <1>5 DEF StreamInv, Framed, OnePlace, Accounted
<1>6. QED BY <1>4, <1>5
-----------------------------------------------------------------------------
LEMMA InitStream == Init => StreamInv
BY DEF Init, StreamInv, Framed, InHand, OnePlace, Accounted

\* Every step keeps the order.
LEMMA StreamStep == IInv /\ StreamInv /\ [Next]_vars => StreamInv'
<1> SUFFICES ASSUME IInv, StreamInv, [Next]_vars
             PROVE  StreamInv'
  OBVIOUS
<1> USE DEF client, calls, wire, broker, ages
<1>0. TypeOK /\ Sockets
  BY DEF IInv
<1>1. CASE TcpFails
  <2>1. sock' = "closed" /\ pc' = pc /\ msg' = msg
    BY <1>1 DEF TcpFails
  <2>2. ~unanswered' /\ ~stalled'
    BY <1>1 DEF TcpFails, StreamInv, InHand
  <2>3. QED BY <2>1, <2>2, Down
<1>2. CASE CredentialsTooLong
  BY <1>2, Down DEF CredentialsTooLong, Stop
<1>3. CASE ConnectWritten
  BY <1>0, <1>3, ConnectWrittenStream
<1>4. CASE ConnackTimeout
  BY <1>4, Down DEF ConnackTimeout, Stop, Return
<1>5. CASE ConnackHeader
  BY <1>0, <1>5, ConnackHeaderStream
<1>6. CASE ConnackRead
  <2>1. CASE Accepted
    BY <1>0, <1>6, <2>1, AcceptedStream
  <2>2. CASE NotAccepted
    BY <1>6, <2>2, Down DEF ConnackRead, NotAccepted, Stop, Return
  <2>3. QED BY <1>6, <2>1, <2>2 DEF ConnackRead
<1>7. CASE ConnackStalls
  BY <1>7, Down DEF ConnackStalls, Stop, Return
<1>8. CASE KeepAliveTimeout
  BY <1>8, Down DEF KeepAliveTimeout, Stop
<1>9. CASE Loop
  BY <1>0, <1>9, LoopStream
<1>10. CASE BadLength
  BY <1>10, Down DEF BadLength, Stop, Return
<1>11. CASE Oversized
  BY <1>0, <1>11, OversizedStream
<1>12. CASE Received
  BY <1>0, <1>12, ReceivedStream
<1>13. CASE ReadTimeout
  BY <1>0, <1>13, ReadTimeoutStream
<1>14. CASE CallbackReturns
  BY <1>0, <1>14, CallbackReturnsStream
<1>15. CASE NoticeLoss
  <2>1. sock' = "closed" /\ pc' = pc /\ msg' = msg
    BY <1>15 DEF NoticeLoss
  <2>2. ~unanswered' /\ ~stalled'
    BY <1>15 DEF NoticeLoss, StreamInv, InHand
  <2>3. QED BY <2>1, <2>2, Down
<1>16. CASE Publish
  BY <1>16, Still DEF Publish
<1>17. CASE Subscribe
  BY <1>17, Still DEF Subscribe
<1>18. CASE SetCallback
  BY <1>18, Still DEF SetCallback
<1>19. CASE Disconnect
  BY <1>19, Down DEF Disconnect, Stop
<1>20. CASE BrokerSends
  BY <1>0, <1>20, BrokerSendsStream
<1>21. CASE BrokerFinishes
  BY <1>0, <1>21, BrokerFinishesStream
<1>22. CASE Trickles
  BY <1>22, Still DEF Trickles
<1>23. CASE SocketDies
  BY <1>23, Down DEF SocketDies, Stop
<1>24. CASE Tick
  BY <1>24, Still DEF Tick
<1>25. CASE UNCHANGED vars
  BY <1>25, Still DEF vars
<1>26. QED
  BY <1>1, <1>2, <1>3, <1>4, <1>5, <1>6, <1>7, <1>8, <1>9, <1>10, <1>11,
     <1>12, <1>13, <1>14, <1>15, <1>16, <1>17, <1>18, <1>19, <1>20, <1>21,
     <1>22, <1>23, <1>24, <1>25
  DEF Next, ConnectSteps, LoopSteps, Environment

\* Whatever the broker sends and whenever the socket dies, the stream is in
\* order and there is one PINGREQ at most to account for.
THEOREM StreamInvariance == Spec => []StreamInv
BY InitStream, StreamStep, Invariance, PTL DEF Spec

\* The client keeps its place in the byte stream (InStep): unless a read gave
\* up halfway, what readPacket() and connect() leave begins with a packet.
THEOREM PlaceKept == Spec => []InStep
<1>1. StreamInv => InStep
  <2>1. SUFFICES ASSUME StreamInv, InSketch, sock = "open", ~stalled
                 PROVE  AtPacket
    BY DEF InStep
  <2>2. ~Half /\ InOrder(rx, Half, owed)
    BY <2>1 DEF StreamInv, Framed, Half, InSketch
  <2>3. QED BY <2>2 DEF AtPacket, InOrder, Alternates, Open
<1>2. QED BY StreamInvariance, <1>1, PTL

\* The client's account of PINGREQs is right (PingAccounting): it waits for an
\* answer exactly while the broker has one to give or it is on the way.
THEOREM PingsAccounted == Spec => []PingAccounting
<1>1. StreamInv => PingAccounting
  BY DEF StreamInv, Accounted, PingAccounting, Online
<1>2. QED BY StreamInvariance, <1>1, PTL
-----------------------------------------------------------------------------
(* The link. *)

Agreed == sock = "open" /\ hello = "CONNACK"

\* What the link is in each part of the client's state.
LEMMA LinkCases ==
    ASSUME TypeOK, Sockets
    PROVE  /\ Online <=> LinkState = "up"
           /\ pc \in ReadingConnect <=> LinkState = "dialing"
           /\ LinkState \in {"up", "dialing", "down"}
           /\ sock = "closed" => Agreed = FALSE /\ LinkState # "up"
           /\ LinkState = "down" => Agreed = FALSE /\ sock = "closed"
BY DEF LinkState, Sockets, Online, Agreed, TypeOK, StatusOK
-----------------------------------------------------------------------------
(* The steps of the link, in terms of the client's variables. *)

\* A step of the client that leaves the link as it was.
LEMMA Stays ==
    ASSUME LinkState' = LinkState, Agreed' = Agreed,
           LinkState # "down" => silence' = silence,
           LinkState = "up" => quiet' = quiet
    PROVE  UNCHANGED Link!vars
BY DEF Link!vars, Agreed

LEMMA Dials ==
    ASSUME LinkState = "down", LinkState' = "dialing", Agreed' = Agreed,
           silence' = 0
    PROVE  Link!Next
BY DEF Link!Next, Link!Dial, Agreed

LEMMA Agrees ==
    ASSUME LinkState = "dialing", LinkState' = "dialing", Agreed' = TRUE,
           silence' = silence
    PROVE  Link!Next
BY DEF Link!Next, Link!Agree, Agreed

LEMMA Opens ==
    ASSUME LinkState = "dialing", LinkState' = "up", Agreed, Agreed',
           silence' = silence, quiet' = 0
    PROVE  Link!Next
BY DEF Link!Next, Link!Open, Agreed

LEMMA Talks ==
    ASSUME LinkState = "up", LinkState' = "up", Agreed' = Agreed,
           silence' = 0 \/ silence' = silence, quiet' = 0 \/ quiet' = quiet
    PROVE  Link!Next
BY DEF Link!Next, Link!Traffic, Agreed

LEMMA Closes ==
    ASSUME LinkState # "down", LinkState' = "down", Agreed' = FALSE
    PROVE  Link!Next
BY DEF Link!Next, Link!Close, Agreed

LEMMA Orphans ==
    ASSUME LinkState = "dialing", LinkState' = "dialing", Agreed' = FALSE,
           silence' = silence
    PROVE  Link!Next
BY DEF Link!Next, Link!Orphan, Agreed

LEMMA Ticks ==
    ASSUME LinkState # "down", LinkState' = LinkState, Agreed' = Agreed,
           silence < KeepAlive + MaxGap,
           LinkState = "up" => quiet < 2 * (KeepAlive + MaxGap),
           silence' = silence + 1, LinkState = "up" => quiet' = quiet + 1
    PROVE  Link!Next
BY DEF Link!Next, Link!Tick, Agreed
-----------------------------------------------------------------------------
(* Every step of the client is a step of the link. *)

LEMMA LinkCasesAfter ==
    ASSUME TypeOK', Sockets'
    PROVE  /\ Online' <=> LinkState' = "up"
           /\ pc' \in ReadingConnect <=> LinkState' = "dialing"
           /\ LinkState' \in {"up", "dialing", "down"}
           /\ sock' = "closed" => Agreed' = FALSE /\ LinkState' # "up"
           /\ LinkState' = "down" => Agreed' = FALSE /\ sock' = "closed"
BY DEF LinkState, Sockets, Online, Agreed, TypeOK, StatusOK

\* The link follows from the socket, the state and where the sketch is.
LEMMA SameLinkState ==
    ASSUME IInv, IInv', sock' = sock, hello' = hello,
           state' = state \/ state' = Noticed,
           pc' \in ReadingConnect <=> pc \in ReadingConnect
    PROVE  LinkState' = LinkState /\ Agreed' = Agreed
BY DEF LinkState, Online, Agreed, Noticed

\* Steps that close the socket, and steps of a closed socket.
LEMMA GoesDown ==
    ASSUME IInv, IInv', sock' = "closed", pc' \notin ReadingConnect,
           silence' = silence, quiet' = quiet
    PROVE  [Link!Next]_Link!vars
<1>1. LinkState' = "down" /\ Agreed' = FALSE
  BY DEF LinkState, Online, Agreed
<1>2. CASE LinkState = "down"
  BY <1>1, <1>2, Stays, LinkCases DEF IInv
<1>3. CASE LinkState # "down"
  BY <1>1, <1>3, Closes
<1>4. QED BY <1>2, <1>3

\* Packets that pass in the middle of the sketch.
LEMMA Passes ==
    ASSUME IInv, IInv', LinkState' = LinkState, Agreed' = Agreed,
           pc \notin ReadingConnect,
           silence' = 0 \/ silence' = silence, quiet' = 0 \/ quiet' = quiet
    PROVE  [Link!Next]_Link!vars
<1>1. CASE LinkState = "up"
  BY <1>1, Talks
<1>2. CASE LinkState = "down"
  BY <1>2, Stays
<1>3. QED BY <1>1, <1>2, LinkCases DEF IInv

\* After a step the ages are within their bounds again.
LEMMA AgesBounded ==
    ASSUME TypeOK', StampAge', TrueAge', OnWire'
    PROVE  /\ silence' <= KeepAlive + MaxGap
           /\ Online' => quiet' <= 2 * (KeepAlive + MaxGap)
<1>1. /\ silence' \in Nat /\ quiet' \in Nat /\ sinceCall' \in Nat
      /\ Elapsed(now', lastOut') \in Nat /\ Elapsed(now', lastIn') \in Nat
      /\ KeepAlive \in Nat /\ MaxGap \in Nat
  BY ElapsedType, ConfigAssumption DEF TypeOK, ClocksOK, CountsOK
<1>2. /\ silence' <= Elapsed(now', lastOut') /\ sinceCall' <= MaxGap
      /\ Elapsed(now', lastOut') <= KeepAlive + sinceCall'
  BY <1>1 DEF StampAge, TrueAge, OnWire, InCall, ReadingConnect
<1>3. Online' => /\ quiet' <= Elapsed(now', lastIn') + KeepAlive + MaxGap
                 /\ Elapsed(now', lastIn') <= KeepAlive + sinceCall'
  BY DEF StampAge, TrueAge
<1>4. QED BY <1>1, <1>2, <1>3

LEMMA LinkStep ==
    ASSUME IInv, IInv', [Next]_vars
    PROVE  [Link!Next]_Link!vars
<1> USE DEF client, calls, wire, broker, ages, ReadingConnect, ReadingLoop
<1>1. CASE \/ TcpFails \/ ConnackHeader \/ Oversized \/ ReadTimeout
           \/ NoticeLoss \/ SetCallback \/ BrokerFinishes \/ Trickles
           \/ UNCHANGED vars
  <2>1. /\ sock' = sock /\ hello' = hello
        /\ silence' = silence /\ quiet' = quiet
    BY <1>1 DEF TcpFails, ConnackHeader, Oversized, ReadTimeout, NoticeLoss,
         SetCallback, BrokerFinishes, Trickles, vars
  <2>2. pc' \in ReadingConnect <=> pc \in ReadingConnect
    BY <1>1 DEF TcpFails, ConnackHeader, Oversized, ReadTimeout, NoticeLoss,
         SetCallback, BrokerFinishes, Trickles, vars, Return, RestRead,
         IInv, TypeOK, StatusOK
  <2>3. CASE TcpFails
    <3>1. sock' = "closed" /\ pc' \notin ReadingConnect
      BY <2>3 DEF TcpFails, ConnectBegins
    <3>2. QED BY <2>1, <3>1, GoesDown
  <2>4. CASE ~TcpFails
    <3>1. state' = state \/ state' = Noticed
      BY <1>1, <2>4 DEF ConnackHeader, Oversized, ReadTimeout, NoticeLoss,
           SetCallback, BrokerFinishes, Trickles, vars
    <3>2. LinkState' = LinkState /\ Agreed' = Agreed
      BY <2>1, <2>2, <3>1, SameLinkState
    <3>3. QED BY <2>1, <3>2, Stays
  <2>5. QED BY <2>3, <2>4
<1>2. CASE \/ CredentialsTooLong \/ ConnackTimeout \/ ConnackStalls
           \/ KeepAliveTimeout \/ BadLength \/ Disconnect
  <2>1. sock' = "closed" /\ silence' = silence /\ quiet' = quiet
    BY <1>2 DEF CredentialsTooLong, ConnackTimeout, ConnackWaited,
         ConnackStalls,
         KeepAliveTimeout, BadLength, Disconnect, StampBoth, Stop
  <2>2. pc' \notin ReadingConnect
    BY <1>2 DEF CredentialsTooLong, ConnackTimeout, ConnackWaited,
         ConnackStalls,
         KeepAliveTimeout, BadLength, Disconnect, StampBoth, Return,
         ConnectBegins,
         InSketch
  <2>3. QED BY <2>1, <2>2, GoesDown
<1>3. CASE ConnectWritten
  <2>1. ~Online /\ pc = "idle" /\ pc' = "connack" /\ silence' = 0
        /\ hello' = hello
    BY <1>3 DEF ConnectWritten, StampBoth, ConnectBegins, Heard
  <2>2. LinkState = "down"
    BY <2>1 DEF LinkState
  <2>3. LinkState' = "dialing"
    BY <2>1, LinkCasesAfter DEF IInv
  <2>4. hello # "CONNACK"
    BY <2>2, LinkCases DEF IInv, Sockets
  <2>5. Agreed' = Agreed
    BY <2>1, <2>4 DEF Agreed
  <2>6. QED BY <2>1, <2>2, <2>3, <2>5, Dials
<1>4. CASE ConnackRead
  <2>1. pc = "connbody" /\ pc' = "idle" /\ silence' = silence /\ rx # <<>>
    BY <1>4 DEF ConnackRead, Return
  <2>2. LinkState = "dialing"
    BY <2>1, LinkCases DEF IInv
  <2>3. CASE Accepted
    <3>1. sock = "open" /\ hello = "CONNACK"
      BY <2>1, <2>3 DEF Accepted, NewSession, ReturnCodeOK, IInv, Sockets,
           Greeted, TypeOK, StatusOK
    <3>2. sock' = sock /\ hello' = hello /\ state' = "CONNECTED" /\ quiet' = 0
      BY <2>3 DEF Accepted, NewSession, ReturnCodeOK
    <3>3. Agreed /\ Agreed' /\ LinkState' = "up"
      BY <3>1, <3>2 DEF Agreed, LinkState, Online
    <3>4. QED BY <2>1, <2>2, <3>2, <3>3, Opens
  <2>4. CASE NotAccepted
    <3>1. sock' = "closed" /\ quiet' = quiet
      BY <2>4 DEF NotAccepted, ReturnCodeOK, Stop
    <3>2. QED BY <2>1, <3>1, GoesDown
  <2>5. QED BY <1>4, <2>3, <2>4 DEF ConnackRead
<1>5. CASE Loop
  <2>1. /\ sock' = sock /\ hello' = hello /\ state' = state /\ quiet' = quiet
        /\ pc = "idle" /\ pc' \notin ReadingConnect
        /\ silence' = 0 \/ silence' = silence
    BY <1>5, LoopEffect DEF Loop
  <2>2. LinkState' = LinkState /\ Agreed' = Agreed
    BY <2>1, SameLinkState
  <2>3. QED BY <2>1, <2>2, Passes
<1>6. CASE Received
  <2>1. /\ sock' = sock /\ hello' = hello /\ state' = state /\ quiet' = 0
        /\ pc \notin ReadingConnect /\ pc' \notin ReadingConnect
        /\ silence' = 0 \/ silence' = silence
    BY <1>6, ReceivedEffect DEF Received
  <2>2. LinkState' = LinkState /\ Agreed' = Agreed
    BY <2>1, SameLinkState
  <2>3. QED BY <2>1, <2>2, Passes
<1>7. CASE CallbackReturns
  <2>1. /\ sock' = sock /\ hello' = hello /\ state' = state /\ quiet' = quiet
        /\ pc \notin ReadingConnect /\ pc' \notin ReadingConnect
        /\ silence' = 0 \/ silence' = silence
    BY <1>7 DEF CallbackReturns, Return
  <2>2. LinkState' = LinkState /\ Agreed' = Agreed
    BY <2>1, SameLinkState
  <2>3. QED BY <2>1, <2>2, Passes
<1>8. CASE Publish \/ Subscribe
  <2>1. /\ sock' = sock /\ hello' = hello /\ state' = state /\ quiet' = quiet
        /\ pc \notin ReadingConnect /\ pc' = pc /\ silence' = 0
    BY <1>8 DEF Publish, Subscribe, InSketch, Heard
  <2>2. LinkState' = LinkState /\ Agreed' = Agreed
    BY <2>1, SameLinkState
  <2>3. QED BY <2>1, <2>2, Passes
<1>9. CASE BrokerSends
  <2>1. PICK k \in Greetings \cup Inbound :
            Sends(k, <<k, "REST">>) \/ Sends(k, <<k>>)
    BY <1>9 DEF BrokerSends
  <2>2. /\ UNCHANGED <<state, pc, sock, silence, quiet>> /\ sock = "open"
        /\ hello' = IF hello = "none" THEN k ELSE hello
    BY <2>1 DEF Sends, MaySend
  <2>3. LinkState' = LinkState /\ LinkState # "down"
    BY <2>2, LinkCases DEF LinkState, Online, IInv
  <2>4. CASE Agreed' = Agreed
    BY <2>2, <2>3, <2>4, Stays
  <2>5. CASE Agreed' # Agreed
    <3>1. hello = "none" /\ Agreed'
      BY <2>2, <2>5 DEF Agreed
    <3>2. LinkState = "dialing"
      BY <2>3, <3>1, LinkCases DEF IInv, Greeted
    <3>3. QED BY <2>2, <2>3, <3>1, <3>2, Agrees
  <2>6. QED BY <2>4, <2>5
<1>10. CASE SocketDies
  <2>1. /\ sock' = "closed" /\ pc' = pc
        /\ silence' = silence /\ quiet' = quiet
    BY <1>10 DEF SocketDies, Stop
  <2>2. CASE pc \in ReadingConnect
    <3>1. LinkState = "dialing" /\ LinkState' = "dialing" /\ Agreed' = FALSE
      BY <2>1, <2>2, LinkCases, LinkCasesAfter DEF IInv
    <3>2. QED BY <2>1, <3>1, Orphans
  <2>3. CASE pc \notin ReadingConnect
    BY <2>1, <2>3, GoesDown
  <2>4. QED BY <2>2, <2>3
<1>11. CASE Tick
  <2>1. /\ UNCHANGED <<state, pc, sock, hello>>
        /\ InCall => sinceCall' = sinceCall + 1 /\ silence' = silence + 1
        /\ Online => quiet' = quiet + 1
    BY <1>11 DEF Tick
  <2>2. LinkState' = LinkState /\ Agreed' = Agreed
    BY <2>1, SameLinkState
  <2>3. CASE LinkState = "down"
    BY <2>2, <2>3, Stays
  <2>4. CASE LinkState # "down"
    <3>1. OnWire /\ InCall /\ (Online <=> LinkState = "up")
      BY <2>4, LinkCases DEF IInv, OnWire, InCall
    <3>2. OnWire' /\ InCall' /\ (Online' <=> Online)
      BY <2>1, <3>1 DEF OnWire, InCall, Online
    <3>3. silence' <= KeepAlive + MaxGap
      BY <3>2, AgesBounded DEF IInv
    <3>4. Online => quiet' <= 2 * (KeepAlive + MaxGap)
      BY <3>2, AgesBounded DEF IInv
    <3>5. /\ silence < KeepAlive + MaxGap
          /\ Online => quiet < 2 * (KeepAlive + MaxGap)
      BY <2>1, <3>1, <3>3, <3>4, Numbers DEF IInv
    <3>6. QED BY <2>1, <2>2, <2>4, <3>1, <3>5, Ticks
  <2>5. QED BY <2>3, <2>4
<1>12. QED
  BY <1>1, <1>2, <1>3, <1>4, <1>5, <1>6, <1>7, <1>8, <1>9, <1>10, <1>11
  DEF Next, ConnectSteps, LoopSteps, Environment

\* The client keeps the promises of MqttLink.
THEOREM ClientImplementsLink == Spec => ImplementsLink
<1>1. Init => Link!Init
  BY DEF Init, Link!Init, LinkState, Online, ReadingConnect
<1>2. IInv /\ IInv' /\ [Next]_vars => [Link!Next]_Link!vars
  BY LinkStep
<1>3. QED BY <1>1, <1>2, Invariance, PTL DEF Spec, ImplementsLink, Link!Spec
-----------------------------------------------------------------------------
(* A broker that answers at once. *)

\* Its answers cost no time; and with it a read that waited has its packet.
Prompt ==
    /\ unanswered => pingAge = 0
    /\ ~stalled
    /\ sock = "open" /\ pc = "body" /\ waitFrom # now => rx # <<>>

LEMMA ClockMoves == ASSUME NEW r \in Time PROVE NextReading(r) # r
BY ClockAssumption DEF Time, NextReading

\* Time passes between the answers only.
LEMMA TickPrompt ==
    ASSUME IInv, StreamInv, Prompt, Tick, PromptBroker
    PROVE  Prompt'
<1>1. now' # now
  BY ClockMoves DEF Tick, IInv, TypeOK, ClocksOK
<1>2. ~unanswered /\ ~owed
  BY <1>1 DEF PromptBroker
<1>3. UNCHANGED <<unanswered, stalled, sock, pc, rx>>
  BY DEF Tick, client, calls, wire, broker
<1>4. sock = "open" /\ pc = "body" => rx # <<>>
  BY <1>2 DEF Prompt, StreamInv, Framed, Half, InOrder, Open
<1>5. QED BY <1>2, <1>3, <1>4 DEF Prompt

\* No read gives up on a packet.
LEMMA ReadTimeoutPrompt ==
    ASSUME IInv, StreamInv, Prompt, ReadTimeout
    PROVE  Prompt'
<1>1. /\ pc \in ReadingLoop /\ rx = <<>>
      /\ Elapsed(now, waitFrom) >= SocketTimeout
      /\ stalled' = (sock = "open") /\ pc' = "idle"
      /\ UNCHANGED <<unanswered, pingAge>>
  BY DEF ReadTimeout, Return, ages
<1>2. waitFrom # now
  <2>1. Elapsed(now, now) = 0
    BY ElapsedSelf DEF IInv, TypeOK, ClocksOK
  <2>2. QED BY <1>1, <2>1, ConfigAssumption
<1>3. sock # "open"
  BY <1>1, <1>2 DEF Prompt, StreamInv, Framed, ReadingLoop
<1>4. QED BY <1>1, <1>3 DEF Prompt

\* Nothing that matters here changes.
LEMMA PromptStays ==
    ASSUME Prompt,
           \/ pingAge' = 0
           \/ UNCHANGED <<unanswered, pingAge>>
           \/ ~unanswered',
           stalled' = stalled \/ ~stalled',
           \/ sock' = "closed"
           \/ pc' # "body"
           \/ waitFrom' = now'
           \/ UNCHANGED <<sock, pc, waitFrom, now, rx>>
           \/ UNCHANGED <<sock, pc, waitFrom, now>> /\ rx' # <<>>
    PROVE  Prompt'
BY DEF Prompt

LEMMA PromptStep ==
    ASSUME IInv, StreamInv, Prompt, [Next /\ PromptBroker]_vars
    PROVE  Prompt'
<1> USE DEF client, calls, wire, broker, ages
<1>1. CASE TcpFails
  BY <1>1, PromptStays DEF TcpFails
<1>2. CASE CredentialsTooLong
  BY <1>2, PromptStays DEF CredentialsTooLong, Stop
<1>3. CASE ConnectWritten
  BY <1>3, PromptStays DEF ConnectWritten
<1>4. CASE ConnackTimeout
  BY <1>4, PromptStays DEF ConnackTimeout, Stop
<1>5. CASE ConnackHeader
  BY <1>5, PromptStays DEF ConnackHeader
<1>6. CASE ConnackRead
  BY <1>6, PromptStays DEF ConnackRead, Accepted, NotAccepted, Stop, Return
<1>7. CASE ConnackStalls
  BY <1>7, PromptStays DEF ConnackStalls, Stop
<1>8. CASE KeepAliveTimeout
  BY <1>8, PromptStays DEF KeepAliveTimeout, Stop
<1>9. CASE Loop
  BY <1>9, PromptStays DEF Loop, Ping, NoPing, NextHeader
<1>10. CASE BadLength
  BY <1>10, PromptStays DEF BadLength, Stop
<1>11. CASE Oversized
  BY <1>11, PromptStays DEF Oversized, Return
<1>12. CASE Received
  BY <1>12, PromptStays DEF Received, Return, Ignored, Deliver, AnswerPing,
       PingAnswered
<1>13. CASE ReadTimeout
  BY <1>13, ReadTimeoutPrompt
<1>14. CASE CallbackReturns
  BY <1>14, PromptStays DEF CallbackReturns, Return
<1>15. CASE NoticeLoss \/ Publish \/ Subscribe \/ SetCallback
  BY <1>15, PromptStays DEF NoticeLoss, Publish, Subscribe, SetCallback
<1>16. CASE Disconnect
  BY <1>16, PromptStays DEF Disconnect, Stop
<1>17. CASE BrokerSends
  <2>1. PICK k \in Greetings \cup Inbound :
            Sends(k, <<k, "REST">>) \/ Sends(k, <<k>>)
    BY <1>17 DEF BrokerSends
  <2>2. rx' # <<>>
    <3>1. rx \in Seq(Cells) /\ k \in Cells
      BY StreamTypes, CellKinds DEF IInv
    <3>2. rx \o <<k, "REST">> # <<>> /\ rx \o <<k>> # <<>>
      BY <3>1, TwoCells
    <3>3. QED BY <2>1, <3>2 DEF Sends
  <2>3. QED BY <2>1, <2>2, PromptStays DEF Sends
<1>18. CASE BrokerFinishes
  <2>1. rx' # <<>>
    BY <1>18, StreamTypes DEF BrokerFinishes, IInv
  <2>2. QED BY <1>18, <2>1, PromptStays DEF BrokerFinishes
<1>19. CASE Trickles
  BY <1>19, PromptStays DEF Trickles
<1>20. CASE SocketDies
  BY <1>20, PromptStays DEF SocketDies, Stop
<1>21. CASE Tick /\ PromptBroker
  BY <1>21, TickPrompt
<1>22. CASE UNCHANGED vars
  BY <1>22, PromptStays DEF vars
<1>23. QED
  BY <1>1, <1>2, <1>3, <1>4, <1>5, <1>6, <1>7, <1>8, <1>9, <1>10, <1>11,
     <1>12, <1>13, <1>14, <1>15, <1>16, <1>17, <1>18, <1>19, <1>20, <1>21,
     <1>22
  DEF Next, ConnectSteps, LoopSteps, Environment

\* A client of a broker that answers every PINGREQ at once gives it up only
\* over an answer that lies unread in its own socket, for any clock, interval
\* and traffic: loop() looks at the clock before it looks at the socket.
THEOREM PromptAnswerUnread == PromptSpec => AnswerUnread
<1>1. Init => IInv /\ StreamInv /\ Prompt
  BY InitInv, InitStream DEF Init, Prompt
<1>2. /\ IInv /\ StreamInv /\ Prompt
      /\ [Next /\ PromptBroker]_vars
      => (IInv /\ StreamInv /\ Prompt)'
  BY StepInv, StreamStep, PromptStep
<1>3. ASSUME IInv, StreamInv, Prompt, Next, GivesUp
      PROVE  ~stalled /\ \E i \in 1 .. Len(rx) : rx[i] = "PINGRESP"
  <2>1. KeepAliveTimeout /\ pingAge > KeepAlive
    BY <1>3, GivingUp
  <2>2. /\ pc = "idle" /\ sock = "open" /\ state = "CONNECTED"
        /\ pingOutstanding
    BY <2>1 DEF KeepAliveTimeout, Online
  <2>3. ~unanswered /\ ~stalled
    BY <1>3, <2>1, ConfigAssumption DEF Prompt
  <2>4. msg # "PINGRESP" /\ AnswerOnTheWay
    BY <1>3, <2>2, <2>3 DEF StreamInv, InHand, Accounted
  <2>5. QED BY <2>3, <2>4 DEF AnswerOnTheWay
<1>4. IInv /\ StreamInv /\ Prompt /\ [Next /\ PromptBroker]_vars =>
      [GivesUp => ~stalled /\ \E i \in 1 .. Len(rx) : rx[i] = "PINGRESP"]_vars
  BY <1>3
<1>5. QED BY <1>1, <1>2, <1>4, PTL DEF PromptSpec, AnswerUnread
=============================================================================
