------------------------- MODULE PacketReaderProofs -------------------------
(***************************************************************************)
(* Whatever the sizes of the buffer and of the packet, and however the     *)
(* packet's length is encoded, PacketReader takes the packet, the whole    *)
(* packet and nothing but the packet.                                      *)
(***************************************************************************)
EXTENDS PacketReader, TLAPS

\* What the broker sends is well formed.
PacketOK ==
    /\ packet \in [publish : BOOLEAN, qos : {0, 1}, topic : Nat,
                   remaining : Nat]
    /\ packet.publish =>
           packet.remaining >= 2 + packet.topic + 2 * packet.qos
    /\ ~packet.publish => packet.qos = 0 /\ packet.topic = 0

NumbersOK ==
    /\ bufferSize \in BufferSizes
    /\ stream \in BOOLEAN /\ callback \in BOOLEAN
    /\ idx \in Nat /\ llen \in 0 .. 4 /\ length \in Nat /\ multiplier \in Nat
    /\ left \in Nat /\ skip \in Nat
    /\ pc \in Reading \cup Over \cup {"arrived", "callback", "ack"}

\* What is decoded and what is left to decode make up the remaining length.
Decoded ==
    /\ length + multiplier * left = packet.remaining
    /\ pc \in {"topic", "body"} \cup Through => length = packet.remaining

\* How far readPacket() is.
Position ==
    /\ pc = "first" => idx = 0 /\ llen = 0
    /\ pc = "length" => idx = llen + 1
    /\ pc = "topic" => /\ packet.publish /\ llen > 0
                       /\ idx \in {llen + 1, llen + 2}
    /\ pc = "body" => /\ llen > 0 /\ llen + 1 <= idx /\ idx <= Size
                      /\ packet.publish =>
                             /\ llen + 3 <= idx
                             /\ skip = packet.topic + 2 * packet.qos
    /\ pc \in Through => llen > 0 /\ idx = Size

\* The buffer holds the beginning of the packet, byte for byte.
Stored ==
    pc \in Reading \cup {"arrived"} =>
        buffer = Places(0, IF idx <= bufferSize THEN idx ELSE bufferSize)

StreamedSoFar ==
    pc \in Reading \cup Through =>
        streamed = IF /\ stream /\ packet.publish
                      /\ pc \in {"body"} \cup Through /\ idx > PayloadAt
                   THEN Places(PayloadAt, idx - PayloadAt) ELSE <<>>

\* Where loop() is with what it was given.
Progress ==
    /\ pc = "ignored" => ~stream /\ ~Fits
    /\ pc \in Through \ {"ignored"} => stream \/ Fits
    /\ pc \in {"arrived", "callback", "ack"} => packet.publish /\ callback
    /\ pc = "ack" => packet.qos = 1
    /\ pc \in {"callback", "ack"} /\ packet.qos = 1 =>
           msgId = Places(TopicAt + packet.topic, 2)

HandedOK ==
    /\ Len(buffer) <= bufferSize /\ buffer \in Seq(Int)
    /\ streamed \in Seq(Nat)
    /\ msgId \in Seq(Int) /\ acked \in Seq(Int)
    /\ given \in [topic : Seq(Int), payload : Seq(Int)]

IInv == /\ PacketOK /\ NumbersOK /\ Decoded /\ Position /\ Stored
        /\ StreamedSoFar /\ Progress /\ HandedOK
        /\ DeliveredAsSent /\ AckedAsSent
-----------------------------------------------------------------------------
LEMMA RadixOK == Radix \in Nat /\ Radix > 1
  BY ReaderAssumption

LEMMA SizeOfBuffer ==
    ASSUME IInv
    PROVE  bufferSize \in Nat /\ bufferSize > 0
  <1>1. \A n \in BufferSizes : n \in Nat /\ n > 0
    BY ReaderAssumption
  <1> QED BY <1>1 DEF IInv, NumbersOK

\* Places(f, n), one place longer.
LEMMA OneMore ==
    ASSUME NEW f \in Nat, NEW n \in Nat
    PROVE  /\ Places(f, n) \in Seq(Nat) /\ Places(f, n) \in Seq(Int)
           /\ Len(Places(f, n)) = n
           /\ Append(Places(f, n), f + n) = Places(f, n + 1)
  <1>1. Places(f, n) \in Seq(Nat) /\ Len(Places(f, n)) = n
    BY DEF Places
  <1>2. Places(f, n) \in Seq(Int)
    BY DEF Places
  <1>3. Append(Places(f, n), f + n) = Places(f, n + 1)
    BY <1>1 DEF Places
  <1> QED BY <1>1, <1>2, <1>3

LEMMA NoPlaces == \A f \in Nat : Places(f, 0) = <<>>
  BY DEF Places

\* Taking the low digit off a number, by a base of any size.
LEMMA DigitOff ==
    ASSUME NEW n \in Nat
    PROVE  /\ n % Radix \in Nat /\ n \div Radix \in Nat
           /\ n = (n % Radix) + Radix * (n \div Radix)
  BY RadixOK, SMTT(20)

\* What the loop over the remaining length keeps.
LEMMA OneDigit ==
    ASSUME NEW n \in Nat, NEW m \in Nat, NEW l \in Nat
    PROVE  l + (n % Radix) * m + m * Radix * (n \div Radix) = l + m * n
  <1> DEFINE d == n % Radix
             q == n \div Radix
  <1>1. d \in Nat /\ q \in Nat /\ n = d + Radix * q
    BY DigitOff
  <1>2. Radix \in Nat
    BY RadixOK
  <1> HIDE DEF d, q
  <1>3. m * n = m * d + m * (Radix * q)
    BY <1>1, <1>2, SMTT(20)
  <1>4. m * (Radix * q) = m * Radix * q /\ m * d = d * m
    BY <1>1, <1>2, SMTT(20)
  <1>5. d * m \in Nat /\ m * Radix * q \in Nat
    BY <1>1, <1>2, SMTT(20)
  <1>6. l + d * m + m * Radix * q = l + m * n
    BY <1>3, <1>4, <1>5
  <1> QED BY <1>6 DEF d, q

LEMMA PacketsOK == \A p \in Packets :
    /\ p \in [publish : BOOLEAN, qos : {0, 1}, topic : Nat, remaining : Nat]
    /\ p.publish => p.remaining >= 2 + p.topic + 2 * p.qos
    /\ ~p.publish => p.qos = 0 /\ p.topic = 0
  <1> SUFFICES ASSUME NEW p \in Packets
               PROVE  /\ p \in [publish : BOOLEAN, qos : {0, 1}, topic : Nat,
                                remaining : Nat]
                      /\ p.publish => p.remaining >= 2 + p.topic + 2 * p.qos
                      /\ ~p.publish => p.qos = 0 /\ p.topic = 0
    OBVIOUS
  <1>1. CASE p \in Messages
    <2>1. PICK t \in Topics, l \in Payloads, q \in {0, 1} : p = Publish(t, l, q)
      BY <1>1 DEF Messages
    <2>2. t \in Nat /\ l \in Nat
      BY ReaderAssumption
    <2>3. 2 + t + 2 * q + l \in Nat /\ 2 + t + 2 * q + l >= 2 + t + 2 * q
      BY <2>2
    <2> QED BY <2>1, <2>2, <2>3 DEF Publish
  <1>2. CASE p \in {Other(n) : n \in Others}
    <2>1. PICK n \in Others : p = Other(n)
      BY <1>2
    <2> QED BY <2>1, ReaderAssumption DEF Other
  <1> QED BY <1>1, <1>2 DEF Packets

LEMMA Startup == Init => IInv
  <1> SUFFICES ASSUME Init
               PROVE  IInv
    OBVIOUS
  <1>1. PacketOK
    BY PacketsOK DEF Init, PacketOK
  <1>2. NumbersOK
    BY <1>1 DEF Init, NumbersOK, PacketOK, Reading, Over
  <1>3. packet.remaining \in Nat
    BY <1>1 DEF PacketOK
  <1>4. Decoded /\ Position
    BY <1>3 DEF Init, Decoded, Position, Through
  <1>9. bufferSize \in Nat /\ bufferSize > 0
    <2>1. \A n \in BufferSizes : n \in Nat /\ n > 0
      BY ReaderAssumption
    <2> QED BY <2>1 DEF Init
  <1>5. Stored
    BY NoPlaces, <1>9 DEF Init, Stored
  <1>6. StreamedSoFar
    BY DEF Init, StreamedSoFar, Reading, Through
  <1>7. Progress /\ DeliveredAsSent /\ AckedAsSent
    BY DEF Init, Progress, Through, DeliveredAsSent, AckedAsSent
  <1>8. HandedOK
    BY <1>9 DEF Init, HandedOK, Nothing
  <1> QED BY <1>1, <1>2, <1>4, <1>5, <1>6, <1>7, <1>8 DEF IInv
-----------------------------------------------------------------------------
\* readPacket() stores one more byte behind those it stored before.
LEMMA StoreKeeps ==
    ASSUME IInv, Store, pc \in Reading
    PROVE  /\ buffer' = Places(0, idx')
           /\ Len(buffer') = idx' /\ idx' = idx + 1 /\ idx' <= bufferSize
           /\ Len(buffer) = idx
           /\ buffer' \in Seq(Int)
  <1>4. idx \in Nat /\ bufferSize \in Nat
        /\ buffer = Places(0, IF idx <= bufferSize THEN idx ELSE bufferSize)
    BY SizeOfBuffer DEF IInv, NumbersOK, Stored
  <1>1. idx \in Nat /\ idx < bufferSize
    <2>1. CASE idx <= bufferSize
      <3>1. Len(buffer) = idx
        BY <1>4, <2>1, OneMore
      <3> QED BY <1>4, <3>1 DEF Store, Room
    <2>2. CASE ~(idx <= bufferSize)
      <3>1. Len(buffer) = bufferSize
        BY <1>4, <2>2, OneMore
      <3> QED BY <1>4, <3>1 DEF Store, Room
    <2> QED BY <2>1, <2>2
  <1>2. buffer = Places(0, idx)
    BY <1>1, <1>4
  <1>3. buffer' = Places(0, idx + 1) /\ idx' = idx + 1
    BY <1>1, <1>2, OneMore, 0 + idx = idx DEF Store
  <1> QED BY <1>1, <1>2, <1>3, OneMore, SizeOfBuffer

\* Until loop() has the packet nothing was delivered or acknowledged.
LEMMA NothingYet ==
    ASSUME IInv, pc \in Reading,
           pc' \in Reading \cup {"closed", "gaveUp", "outside"},
           pc' = "outside" => bufferSize < HeaderSize,
           UNCHANGED <<setting, packet, handed>>
    PROVE  Progress' /\ DeliveredAsSent' /\ AckedAsSent' /\ PacketOK'
  <1>1. Progress'
    BY DEF Progress, Reading, Through
  <1>2. DeliveredAsSent' /\ AckedAsSent'
    BY DEF DeliveredAsSent, AckedAsSent, Reading, setting
  <1>3. PacketOK'
    BY DEF IInv, PacketOK
  <1> QED BY <1>1, <1>2, <1>3

LEMMA ReadFirstKeeps == IInv /\ ReadFirst => IInv'
  <1> SUFFICES ASSUME IInv, ReadFirst
               PROVE  IInv'
    OBVIOUS
  <1> USE DEF ReadFirst
  <1>1. pc = "first" /\ idx = 0 /\ llen = 0 /\ pc' = "length"
    BY DEF IInv, Position
  <1>2. pc \in Reading /\ pc' \in Reading
    BY <1>1 DEF Reading
  <1>3. buffer' = Places(0, idx') /\ Len(buffer') = idx' /\ idx' = 1
        /\ idx' <= bufferSize /\ buffer' \in Seq(Int)
    BY <1>1, <1>2, StoreKeeps
  <1>4. PacketOK' /\ Progress' /\ DeliveredAsSent' /\ AckedAsSent'
    BY <1>2, NothingYet DEF IInv
  <1>5. NumbersOK' /\ Decoded'
    BY <1>1, <1>2, <1>3 DEF IInv, NumbersOK, Decoded, parsed, setting, Through
  <1>6. Position' /\ Stored'
    BY <1>1, <1>3 DEF IInv, Position, Stored, parsed, setting, Through
  <1>7. StreamedSoFar'
    BY <1>1 DEF IInv, StreamedSoFar, Reading, Through
  <1>8. HandedOK'
    BY <1>3 DEF IInv, HandedOK, handed, setting
  <1> QED BY <1>4, <1>5, <1>6, <1>7, <1>8 DEF IInv

LEMMA ReadDigitKeeps == IInv /\ ReadDigit => IInv'
  <1> SUFFICES ASSUME IInv, ReadDigit
               PROVE  IInv'
    OBVIOUS
  <1>1. /\ pc = "length" /\ idx = llen + 1
        /\ idx \in Nat /\ llen \in 0 .. 4 /\ llen \in Nat
        /\ packet.remaining \in Nat
    BY DEF IInv, Position, NumbersOK, PacketOK, ReadDigit
  <1>2. pc \in Reading
    BY <1>1 DEF Reading
  <1>3. Store
    BY DEF ReadDigit
  <1>4. /\ buffer' = Places(0, idx') /\ Len(buffer') = idx' /\ idx' = idx + 1
        /\ idx' <= bufferSize /\ Len(buffer) = idx /\ buffer' \in Seq(Int)
    BY <1>2, <1>3, StoreKeeps
  <1>5. pc' \in {"length", "topic", "body"} /\ pc' \in Reading
    BY DEF ReadDigit, Reading
  <1>6. llen' = idx /\ llen' \in 1 .. 4 /\ idx' = llen' + 1
    BY <1>1, <1>4 DEF ReadDigit
  <1>7. PacketOK' /\ Progress' /\ DeliveredAsSent' /\ AckedAsSent'
    BY <1>2, <1>5, NothingYet DEF IInv, ReadDigit
  <1>8. /\ length' \in Nat /\ multiplier' \in Nat /\ left' \in Nat
        /\ length' + multiplier' * left' = packet.remaining
    <2>1. left \in Nat /\ length \in Nat /\ multiplier \in Nat
          /\ length + multiplier * left = packet.remaining
      BY DEF IInv, NumbersOK, Decoded
    <2>2. left % Radix \in Nat /\ left \div Radix \in Nat
      BY <2>1, DigitOff
    <2>3. (left % Radix) * multiplier \in Nat /\ multiplier * Radix \in Nat
      BY <2>1, <2>2, RadixOK
    <2>4. length + (left % Radix) * multiplier
              + multiplier * Radix * (left \div Radix) = packet.remaining
      BY <2>1, OneDigit
    <2>5. /\ length' = length + (left % Radix) * multiplier
          /\ multiplier' = multiplier * Radix /\ left' = left \div Radix
      BY DEF ReadDigit, NextMultiplier
    <2>6. length' + multiplier' * left' = packet.remaining
      BY <2>4, <2>5
    <2>7. length' \in Nat
      BY <2>1, <2>3, <2>5
    <2> QED BY <2>2, <2>3, <2>5, <2>6, <2>7
  <1>9. NumbersOK'
    BY <1>4, <1>5, <1>6, <1>8 DEF IInv, NumbersOK, ReadDigit, setting
  <1>10. Decoded'
    <2>1. packet' = packet
      BY DEF ReadDigit
    <2>2. CASE pc' = "length"
      BY <1>8, <2>1, <2>2 DEF Decoded, Through
    <2>3. CASE left' = 0
      BY <1>8, <2>1, <2>3, SMTT(20) DEF Decoded
    <2> QED BY <2>2, <2>3 DEF ReadDigit
  <1>11. Position'
    <2>1. pc' = "topic" => packet.publish
      BY DEF ReadDigit
    <2>2. pc' = "body" => ~packet.publish
      BY DEF ReadDigit
    <2>3. packet' = packet
      BY DEF ReadDigit
    <2> QED BY <1>1, <1>4, <1>5, <1>6, <2>1, <2>2, <2>3
        DEF Position, Size, Through
  <1>12. Stored'
    BY <1>4 DEF Stored, ReadDigit, setting
  <1>13. StreamedSoFar'
    <2>1. streamed = <<>>
      BY <1>1 DEF IInv, StreamedSoFar, Reading, Through
    <2>2. streamed' = <<>> /\ (pc' = "body" => ~packet'.publish)
      BY <2>1 DEF ReadDigit
    <2> QED BY <1>5, <2>2 DEF StreamedSoFar, Reading, Through
  <1>14. HandedOK'
    BY <1>4 DEF IInv, HandedOK, handed, setting, ReadDigit
  <1> QED BY <1>7, <1>9, <1>10, <1>11, <1>12, <1>13, <1>14 DEF IInv

LEMMA ReadTopicLengthKeeps == IInv /\ ReadTopicLength => IInv'
  <1> SUFFICES ASSUME IInv, ReadTopicLength
               PROVE  IInv'
    OBVIOUS
  <1>1. /\ pc = "topic" /\ idx \in {llen + 1, llen + 2} /\ packet.publish
        /\ idx \in Nat /\ llen \in 1 .. 4
    BY DEF IInv, Position, NumbersOK, ReadTopicLength
  <1>2. pc \in Reading
    BY <1>1 DEF Reading
  <1>3. Store
    BY DEF ReadTopicLength
  <1>4. /\ buffer' = Places(0, idx') /\ Len(buffer') = idx' /\ idx' = idx + 1
        /\ idx' <= bufferSize /\ buffer' \in Seq(Int)
    BY <1>2, <1>3, StoreKeeps
  <1>5. /\ \/ idx' = llen + 2 /\ pc' = "topic" /\ skip' = skip
           \/ /\ idx' = llen + 3 /\ pc' = "body"
              /\ skip' = packet.topic + 2 * packet.qos
        /\ pc' \in Reading
    BY <1>1, <1>4 DEF ReadTopicLength, SkipToPayload, Reading
  <1>6. PacketOK' /\ Progress' /\ DeliveredAsSent' /\ AckedAsSent'
    BY <1>2, <1>5, NothingYet DEF IInv, ReadTopicLength
  <1>7. packet.topic \in Nat /\ packet.qos \in {0, 1}
        /\ packet.remaining \in Nat
        /\ packet.remaining >= 2 + packet.topic + 2 * packet.qos
    BY <1>1 DEF IInv, PacketOK
  <1>8. NumbersOK'
    BY <1>4, <1>5, <1>7 DEF IInv, NumbersOK, ReadTopicLength, setting, parsed
  <1>9. Decoded'
    BY <1>1 DEF IInv, Decoded, ReadTopicLength, parsed
  <1>10. Position'
    BY <1>1, <1>5, <1>7
    DEF Position, Size, Through, ReadTopicLength, parsed
  <1>11. Stored'
    BY <1>4 DEF Stored, ReadTopicLength, setting
  <1>12. StreamedSoFar'
    <2>1. streamed' = <<>>
      BY <1>1 DEF IInv, StreamedSoFar, Reading, Through, ReadTopicLength
    <2>2. pc' = "body" => ~(idx' > PayloadAt')
      BY <1>1, <1>5, <1>7 DEF PayloadAt, TopicAt, ReadTopicLength, parsed
    <2> QED BY <1>5, <2>1, <2>2 DEF StreamedSoFar, Reading, Through
  <1>13. HandedOK'
    BY <1>4 DEF IInv, HandedOK, handed, setting, ReadTopicLength
  <1> QED BY <1>6, <1>8, <1>9, <1>10, <1>11, <1>12, <1>13 DEF IInv

LEMMA ReadBodyKeeps == IInv /\ ReadBody => IInv'
  <1> SUFFICES ASSUME IInv, ReadBody
               PROVE  IInv'
    OBVIOUS
  <1>1. /\ pc = "body" /\ pc' = "body" /\ idx \in Nat /\ idx' = idx + 1
        /\ llen \in 1 .. 4 /\ packet' = packet /\ llen' = llen
        /\ stream' = stream /\ callback' = callback /\ skip' = skip
        /\ length = packet.remaining /\ packet.remaining \in Nat
        /\ packet.topic \in Nat /\ packet.qos \in {0, 1}
    BY DEF IInv, Position, NumbersOK, PacketOK, Decoded, ReadBody, setting,
           parsed
  <1>2. pc \in Reading /\ pc' \in Reading
    BY <1>1 DEF Reading
  <1>3. idx < Size /\ idx >= llen + 1
        /\ (packet.publish => /\ idx >= llen + 3
                              /\ skip = packet.topic + 2 * packet.qos)
    BY <1>1 DEF IInv, Position, Size, ReadBody, More
  <1>4. PacketOK' /\ Progress' /\ DeliveredAsSent' /\ AckedAsSent'
    BY <1>2, NothingYet DEF IInv, ReadBody
  <1>5. NumbersOK' /\ Decoded'
    BY <1>1, <1>2 DEF IInv, NumbersOK, Decoded, ReadBody, setting, parsed
  <1>6. Position'
    BY <1>1, <1>3 DEF Position, Size, Through
  <1>7. /\ buffer' = Places(0, IF idx' <= bufferSize THEN idx' ELSE bufferSize)
        /\ Len(buffer') <= bufferSize /\ buffer' \in Seq(Int)
    <2>1. CASE idx < bufferSize
      <3>5. bufferSize \in Nat
        BY SizeOfBuffer
      <3>1. buffer = Places(0, idx) /\ Len(buffer) = idx
        BY <1>1, <1>2, <2>1, <3>5, OneMore DEF IInv, Stored
      <3>2. buffer' = Append(buffer, idx)
        BY <2>1, <3>1 DEF ReadBody, RoomForBody
      <3>3. buffer' = Places(0, idx + 1)
        BY <1>1, <3>1, <3>2, OneMore, 0 + idx = idx
      <3>4. idx + 1 \in Nat /\ idx' <= bufferSize
        BY <1>1, <2>1, SizeOfBuffer
      <3>6. Len(buffer') = idx + 1 /\ buffer' \in Seq(Int)
        BY <3>3, <3>4, OneMore
      <3> QED BY <1>1, <3>3, <3>4, <3>6
    <2>2. CASE ~(idx < bufferSize)
      <3>4. bufferSize \in Nat
        BY SizeOfBuffer
      <3>1. buffer = Places(0, bufferSize)
        BY <1>1, <1>2, <2>2, <3>4 DEF IInv, Stored
      <3>2. Len(buffer) = bufferSize /\ buffer \in Seq(Int)
        BY <3>1, OneMore, SizeOfBuffer
      <3>3. buffer' = buffer
        BY <3>2, SizeOfBuffer DEF ReadBody, RoomForBody
      <3> QED BY <1>1, <2>2, <3>1, <3>2, <3>3, SizeOfBuffer
    <2> QED BY <2>1, <2>2
  <1>8. Stored'
    BY <1>7 DEF Stored, ReadBody, setting
  <1>9. StreamedSoFar' /\ streamed' \in Seq(Nat)
    <2> DEFINE p == PayloadAt
    <2>1. p \in Nat /\ PayloadAt' = p
      BY <1>1 DEF PayloadAt, TopicAt
    <2>2. packet.publish => /\ p = llen + 3 + packet.topic + 2 * packet.qos
                            /\ InPayload <=> idx >= p
      BY <1>1, <1>3 DEF PayloadAt, TopicAt, InPayload
    <2> HIDE DEF p
    <2>3. streamed = IF stream /\ packet.publish /\ idx > p
                     THEN Places(p, idx - p) ELSE <<>>
      BY <1>1 DEF IInv, StreamedSoFar, Reading, Through, p
    <2>4. streamed' = IF stream /\ packet.publish /\ idx >= p
                      THEN Append(streamed, idx) ELSE streamed
      BY <2>2 DEF ReadBody, InPayload
    <2>5. streamed' = IF stream /\ packet.publish /\ idx + 1 > p
                      THEN Places(p, idx + 1 - p) ELSE <<>>
      <3>1. CASE ~(stream /\ packet.publish)
        BY <2>3, <2>4, <3>1
      <3>2. CASE stream /\ packet.publish /\ idx < p
        BY <1>1, <2>1, <2>3, <2>4, <3>2
      <3>3. CASE stream /\ packet.publish /\ idx >= p
        <4>1. streamed = Places(p, idx - p)
          <5>1. CASE idx = p
            BY <1>1, <2>1, <2>3, <5>1, NoPlaces, idx - p = 0
          <5>2. CASE idx > p
            BY <2>3, <3>3, <5>2
          <5> QED BY <1>1, <2>1, <3>3, <5>1, <5>2
        <4>2. idx - p \in Nat /\ p + (idx - p) = idx
              /\ (idx - p) + 1 = idx + 1 - p
          BY <1>1, <2>1, <3>3
        <4>3. Append(streamed, idx) = Places(p, idx + 1 - p)
          BY <2>1, <4>1, <4>2, OneMore
        <4> QED BY <1>1, <2>1, <2>4, <3>3, <4>3
      <3> QED BY <1>1, <2>1, <3>1, <3>2, <3>3
    <2>6. StreamedSoFar'
      BY <1>1, <2>1, <2>5 DEF StreamedSoFar, Reading, Through
    <2>7. streamed' \in Seq(Nat)
      BY <1>1, <2>4 DEF IInv, HandedOK
    <2> QED BY <2>6, <2>7
  <1>10. HandedOK'
    BY <1>7, <1>9 DEF IInv, HandedOK, handed, setting, ReadBody
  <1> QED BY <1>4, <1>5, <1>6, <1>8, <1>9, <1>10 DEF IInv

\* A packet given up leaves what was read of it behind.
LEMMA StopKeeps ==
    ASSUME IInv, pc \in Reading, pc' \in {"closed", "gaveUp", "outside"},
           pc' = "outside" => bufferSize < HeaderSize,
           UNCHANGED <<setting, packet, idx, parsed, skip, buffer, streamed,
                       handed>>
    PROVE  IInv'
  <1>1. pc' \in Over /\ pc' \notin Reading \cup Through \cup {"topic", "body"}
        /\ pc' \notin {"first", "length", "arrived"}
    BY DEF Over, Reading, Through
  <1>2. PacketOK' /\ Progress' /\ DeliveredAsSent' /\ AckedAsSent'
    BY NothingYet DEF IInv
  <1>3. NumbersOK' /\ HandedOK'
    BY <1>1 DEF IInv, NumbersOK, HandedOK, setting, parsed, handed
  <1>4. Decoded' /\ Position'
    BY <1>1 DEF IInv, Decoded, Position, parsed
  <1>5. Stored' /\ StreamedSoFar'
    BY <1>1 DEF Stored, StreamedSoFar
  <1> QED BY <1>2, <1>3, <1>4, <1>5 DEF IInv

LEMMA BadLengthKeeps == IInv /\ BadLength => IInv'
  <1> SUFFICES ASSUME IInv, BadLength
               PROVE  IInv'
    OBVIOUS
  <1> QED BY StopKeeps DEF BadLength, Reading

\* The first bytes of a packet overrun no buffer that holds its header.
LEMMA StorePastBufferKeeps == IInv /\ StorePastBuffer => IInv'
  <1> SUFFICES ASSUME IInv, StorePastBuffer
               PROVE  IInv'
    OBVIOUS
  <1>1. pc \in Reading /\ pc' = "outside"
    BY DEF StorePastBuffer, Reading
  <1>2. idx \in Nat /\ idx < HeaderSize
    BY DEF IInv, NumbersOK, Position, StorePastBuffer, HeaderSize
  <1>3. bufferSize \in Nat
        /\ buffer = Places(0, IF idx <= bufferSize THEN idx ELSE bufferSize)
    BY <1>1, SizeOfBuffer DEF IInv, Stored
  <1>4. bufferSize <= idx
    <2> SUFFICES ASSUME idx < bufferSize
                 PROVE  FALSE
      BY <1>2, <1>3
    <2>1. Len(buffer) = idx
      BY <1>2, <1>3, OneMore
    <2> QED BY <2>1 DEF StorePastBuffer, Room
  <1>5. bufferSize < HeaderSize
    BY <1>2, <1>3, <1>4 DEF HeaderSize
  <1> QED BY <1>1, <1>5, StopKeeps DEF StorePastBuffer

LEMMA GiveUpKeeps == IInv /\ GiveUp => IInv'
  <1> SUFFICES ASSUME IInv, GiveUp
               PROVE  IInv'
    OBVIOUS
  <1> QED BY StopKeeps DEF GiveUp, Reading

\* What every step after readPacket() leaves alone.
LEMMA AfterwardsKeeps ==
    ASSUME IInv, pc \in Through \cup {"body"}, pc' \in Through, idx = Size,
           UNCHANGED <<setting, packet, idx, parsed, skip, streamed>>
    PROVE  PacketOK' /\ NumbersOK' /\ Decoded' /\ Position' /\ StreamedSoFar'
  <1>1. pc' \in Over \cup {"arrived", "callback", "ack"}
    BY DEF Over, Through
  <1>2. pc' \notin Reading
    BY DEF Reading, Through
  <1>3. Size' = Size /\ PayloadAt' = PayloadAt
    BY DEF Size, PayloadAt, TopicAt, parsed
  <1>4. PacketOK' /\ NumbersOK'
    BY <1>1 DEF IInv, PacketOK, NumbersOK, setting, parsed
  <1>5. Decoded'
    BY DEF IInv, Decoded, parsed, Through
  <1>6. Position'
    BY <1>2, <1>3 DEF IInv, Position, parsed, Through
  <1>7. StreamedSoFar'
    BY <1>2, <1>3 DEF IInv, StreamedSoFar, setting, Reading, Through
  <1> QED BY <1>4, <1>5, <1>6, <1>7

LEMMA FinishKeeps == IInv /\ Finish => IInv'
  <1> SUFFICES ASSUME IInv, Finish
               PROVE  IInv'
    OBVIOUS
  <1>1. pc = "body" /\ pc' \in {"ignored", "arrived", "done"} /\ pc' \in Through
    BY DEF Finish, Through
  <1>2. /\ idx \in Nat /\ idx <= Size /\ ~(idx < 1 + llen + length)
        /\ length = packet.remaining /\ packet.remaining \in Nat
        /\ llen \in 0 .. 4
    BY <1>1 DEF IInv, NumbersOK, PacketOK, Position, Decoded, Finish, More
  <1>3. idx = Size
    BY <1>2 DEF Size
  <1>4. PacketOK' /\ NumbersOK' /\ Decoded' /\ Position' /\ StreamedSoFar'
    BY <1>1, <1>3, AfterwardsKeeps DEF Finish
  <1>5. HandedOK'
    BY DEF IInv, HandedOK, Finish, handed, setting
  <1>6. Stored'
    BY <1>1 DEF IInv, Stored, Reading, Finish, setting
  <1>7. pc' = IF ~stream /\ ~Fits THEN "ignored"
              ELSE IF packet.publish /\ callback THEN "arrived" ELSE "done"
    BY <1>2, <1>3, SizeOfBuffer DEF Finish, Overrun, Fits
  <1>8. Fits' <=> Fits
    BY DEF Fits, Size, Finish, parsed, setting
  <1>9. Progress'
    BY <1>7, <1>8 DEF Progress, Through, Finish, setting
  <1>10. DeliveredAsSent' /\ AckedAsSent'
    <2>1. packet.qos = 1 => packet.publish
      BY DEF IInv, PacketOK
    <2>2. pc' \notin {"callback", "ack"}
      BY <1>1
    <2>3. pc' = "done" => ~(packet.publish /\ callback)
      BY <1>7
    <2> QED BY <2>1, <2>2, <2>3
        DEF DeliveredAsSent, AckedAsSent, Finish, setting
  <1> QED BY <1>4, <1>5, <1>6, <1>9, <1>10 DEF IInv
-----------------------------------------------------------------------------
\* What a run of bytes is made of.
LEMMA BytesTaken ==
    ASSUME NEW q \in Seq(Int), NEW from \in Nat, NEW n \in Nat,
           from + n <= Len(q)
    PROVE  /\ Bytes(q, from, n) \in Seq(Int) /\ Len(Bytes(q, from, n)) = n
           /\ \A i \in 1 .. n : Bytes(q, from, n)[i] = q[from + i]
  <1>1. SubSeq(q, from + 1, from + n) = [i \in 1 .. n |-> q[from + i]]
    <2>1. from + n - (from + 1) + 1 = n
      OBVIOUS
    <2>2. \A i \in 1 .. n : from + 1 + i - 1 = from + i
      OBVIOUS
    <2> QED BY <2>1, <2>2
  <1>2. \A i \in 1 .. n : q[from + i] \in Int
    OBVIOUS
  <1> QED BY <1>1, <1>2 DEF Bytes

LEMMA Extensional ==
    ASSUME NEW p \in Seq(Int), NEW q \in Seq(Int), Len(p) = Len(q),
           \A i \in 1 .. Len(q) : p[i] = q[i]
    PROVE  p = q
  OBVIOUS

\* A run of bytes that are in their places.
LEMMA BytesInPlace ==
    ASSUME NEW q \in Seq(Int), NEW from \in Nat, NEW n \in Nat, NEW v \in Nat,
           from + n <= Len(q),
           \A i \in 1 .. n : q[from + i] = v + i - 1
    PROVE  Bytes(q, from, n) = Places(v, n)
  <1>1. /\ Bytes(q, from, n) \in Seq(Int) /\ Len(Bytes(q, from, n)) = n
        /\ \A i \in 1 .. n : Bytes(q, from, n)[i] = q[from + i]
    BY BytesTaken
  <1>2. /\ Places(v, n) \in Seq(Int) /\ Len(Places(v, n)) = n
        /\ \A i \in 1 .. n : Places(v, n)[i] = v + i - 1
    BY OneMore DEF Places
  <1> QED BY <1>1, <1>2, Extensional

\* What the callback is given as the topic, k bytes that begin at `first' in
\* the packet: they moved one place to the front and are ended by a zero.
TopicInFront(m, f, k, t, g) ==
    /\ m \in Seq(Int)
    /\ f \in Nat /\ k \in Nat /\ t \in Nat /\ g \in Nat
    /\ g = f + 1 /\ t = k + 1 /\ f + t <= Len(m) /\ m[f + t] = Nul
    /\ \A i \in 1 .. k : m[f + i] = f + i

LEMMA TopicMoved ==
    ASSUME NEW m, NEW f, NEW k, NEW t, NEW g, TopicInFront(m, f, k, t, g)
    PROVE  Bytes(m, f, t) = Append(Places(g, k), Nul)
  <1> USE DEF TopicInFront
  <1> DEFINE l == Bytes(m, f, t)
             r == Append(Places(g, k), Nul)
  <1>1. /\ l \in Seq(Int) /\ Len(l) = t
        /\ \A i \in 1 .. t : l[i] = m[f + i]
    BY BytesTaken
  <1>2. /\ Places(g, k) \in Seq(Int) /\ Len(Places(g, k)) = k
        /\ \A i \in 1 .. k : Places(g, k)[i] = f + i
    BY OneMore DEF Places
  <1>3. Nul \in Int
    BY DEF Nul
  <1> DEFINE s == Places(g, k)
  <1> HIDE DEF s
  <1>7. /\ s \in Seq(Int) /\ Len(s) = k /\ \A i \in 1 .. k : s[i] = f + i
    BY <1>2 DEF s
  <1>4. /\ r \in Seq(Int) /\ Len(r) = t /\ r[t] = Nul
        /\ \A i \in 1 .. k : r[i] = f + i
    <2>1. r = Append(s, Nul)
      BY DEF s
    <2> HIDE DEF r
    <2>2. \A i \in 1 .. k : r[i] = s[i]
      BY <1>7, <1>3, <2>1
    <2>3. r \in Seq(Int) /\ Len(r) = t /\ r[t] = Nul
      BY <1>7, <1>3, <2>1
    <2> QED BY <1>7, <2>2, <2>3
  <1> HIDE DEF l, r
  <1>5. \A i \in 1 .. t : l[i] = r[i]
    <2> TAKE i \in 1 .. t
    <2>1. l[i] = m[f + i]
      BY <1>1
    <2>2. CASE i \in 1 .. k
      BY <1>4, <2>1, <2>2
    <2>3. CASE i = t
      BY <1>4, <2>1, <2>3
    <2> QED BY <2>2, <2>3
  <1>6. l = r
    BY <1>1, <1>4, <1>5, Extensional
  <1> QED BY <1>6 DEF l, r

\* Only a message that overran the buffer, so with a Stream, takes loop()
\* behind its end.
LEMMA DeliverPastBufferKeeps == IInv /\ DeliverPastBuffer => IInv'
  <1> SUFFICES ASSUME IInv, DeliverPastBuffer
               PROVE  IInv'
    OBVIOUS
  <1> USE DEF DeliverPastBuffer
  <1>1. /\ pc = "arrived" /\ pc' = "outside" /\ packet.publish
        /\ stream \/ Fits
    BY DEF IInv, Progress, Through
  <1>2. /\ llen \in 1 .. 4 /\ packet.topic \in Nat
        /\ packet.remaining \in Nat /\ packet.qos \in {0, 1}
        /\ packet.remaining >= 2 + packet.topic + 2 * packet.qos
        /\ bufferSize \in Nat
    BY <1>1, SizeOfBuffer DEF IInv, Position, NumbersOK, PacketOK, Through
  <1>3. PayloadAt \in Nat /\ PayloadAt <= Size /\ Size \in Nat
    BY <1>2 DEF PayloadAt, TopicAt, Size
  <1>4. stream /\ ~Fits /\ PayloadAt > bufferSize
    BY <1>1, <1>2, <1>3 DEF Fits, Inside
  <1>5. UNCHANGED <<Fits, PayloadAt, stream, bufferSize>>
    BY DEF Fits, PayloadAt, TopicAt, Size, parsed, setting
  <1>6. pc' \in Over /\ pc' \notin Reading \cup Through
    BY <1>1 DEF Over, Reading, Through
  <1>7. PacketOK' /\ NumbersOK' /\ HandedOK'
    BY <1>6 DEF IInv, PacketOK, NumbersOK, HandedOK, setting, parsed, handed
  <1>8. Decoded' /\ Position' /\ Stored' /\ StreamedSoFar' /\ Progress'
    BY <1>1, <1>6
    DEF IInv, Decoded, Position, Stored, StreamedSoFar, Progress, parsed
  <1>9. DeliveredAsSent' /\ AckedAsSent'
    BY <1>1, <1>4, <1>5 DEF DeliveredAsSent, AckedAsSent
  <1> QED BY <1>7, <1>8, <1>9 DEF IInv

LEMMA DeliverKeeps == IInv /\ Deliver => IInv'
  <1> SUFFICES ASSUME IInv, Deliver
               PROVE  IInv'
    OBVIOUS
  <1> DEFINE n == IF Fits THEN Size ELSE bufferSize
             T == TopicAt
             e == T + packet.topic
  <1>1. /\ pc = "arrived" /\ pc' = "callback" /\ pc \in Through
        /\ pc' \in Through /\ packet.publish /\ callback
    BY DEF IInv, Progress, Deliver, Through
  <1>2. /\ idx = Size /\ llen \in 1 .. 4 /\ packet.topic \in Nat
        /\ packet.remaining \in Nat /\ packet.qos \in {0, 1}
        /\ packet.remaining >= 2 + packet.topic + 2 * packet.qos
    BY <1>1 DEF IInv, Position, NumbersOK, PacketOK
  <1>3. PacketOK' /\ NumbersOK' /\ Decoded' /\ Position' /\ StreamedSoFar'
    BY <1>1, <1>2, AfterwardsKeeps DEF Deliver
  <1>4. /\ n \in Nat /\ T \in Nat /\ e \in Nat /\ 0 < T /\ T <= e
        /\ PayloadAt \in Nat /\ e <= PayloadAt /\ PayloadAt <= n
        /\ n - PayloadAt \in Nat /\ n <= bufferSize
    <2>1. PayloadAt <= bufferSize
      BY DEF Deliver, Inside
    <2>2. bufferSize \in Nat
      BY SizeOfBuffer
    <2> QED BY <1>2, <2>1, <2>2 DEF Fits, Size, TopicAt, PayloadAt
  <1>5. packet.qos = 1 => e + 2 <= n
    BY <1>2, <1>4, SizeOfBuffer DEF TopicAt, PayloadAt
  <1>6. n - PayloadAt = IF Fits THEN PayloadSize ELSE bufferSize - PayloadAt
    BY <1>2, SizeOfBuffer DEF Fits, Size, TopicAt, PayloadAt, PayloadSize
  <1>7. buffer = Places(0, n)
    BY <1>1, <1>2 DEF IInv, Stored, Fits
  <1>8. /\ packet' = packet /\ TopicAt' = T /\ PayloadAt' = PayloadAt
        /\ (Fits' <=> Fits) /\ PayloadSize' = PayloadSize
    BY DEF Deliver, TopicAt, PayloadAt, Fits, Size, PayloadSize, parsed, setting
  <1>9. /\ buffer' = Moved /\ Len(buffer) = n
        /\ \A i \in 1 .. n : buffer[i] = i - 1
    BY <1>4, <1>7, OneMore DEF Deliver, Places
  <1>20. /\ DOMAIN Moved = 1 .. n /\ Moved[e] = Nul
         /\ \A i \in 1 .. n :
                /\ i > e => Moved[i] = buffer[i]
                /\ i < T => Moved[i] = buffer[i]
                /\ T <= i /\ i < e => Moved[i] = buffer[i + 1]
    <2>1. n \in Nat /\ T \in Nat /\ e \in 1 .. n /\ Len(buffer) = n
          /\ packet.topic \in Nat
      BY <1>2, <1>4, <1>9
    <2>2. Moved = [i \in 1 .. n |->
                      IF i = e THEN Nul
                      ELSE IF i \in T .. e - 1 THEN buffer[i + 1]
                      ELSE buffer[i]]
      BY <2>1 DEF Moved
    <2> HIDE DEF n, T, e
    <2>3. DOMAIN Moved = 1 .. n
      BY <2>2
    <2>4. Moved[e] = Nul
      BY <2>1, <2>2
    <2>5. ASSUME NEW i \in 1 .. n
          PROVE  /\ i > e => Moved[i] = buffer[i]
                 /\ i < T => Moved[i] = buffer[i]
                 /\ T <= i /\ i < e => Moved[i] = buffer[i + 1]
      <3>1. Moved[i] = IF i = e THEN Nul
                       ELSE IF i \in T .. e - 1 THEN buffer[i + 1]
                       ELSE buffer[i]
        BY <2>2
      <3>2. T <= e
        BY <1>4
      <3>3. i > e => i # e /\ i \notin T .. e - 1
        BY <2>1
      <3>4. i < T => i # e /\ i \notin T .. e - 1
        BY <2>1, <3>2
      <3>5. T <= i /\ i < e => i # e /\ i \in T .. e - 1
        BY <2>1
      <3> QED BY <3>1, <3>3, <3>4, <3>5
    <2> QED BY <2>3, <2>4, <2>5
  <1>10. /\ given' = [topic   |-> Bytes(buffer', T - 1, packet.topic + 1),
                      payload |-> Bytes(buffer', PayloadAt,
                                        Len(buffer') - PayloadAt)]
         /\ msgId' = IF packet.qos = 1 THEN Bytes(buffer', e, 2) ELSE <<>>
    BY DEF Deliver
  <1>11. packet.topic = e - T /\ packet.topic \in Nat
    BY <1>2, <1>4
  <1> HIDE DEF n, T, e
  <1>21. /\ \A i \in 1 .. n : i > e => buffer'[i] = i - 1
         /\ \A i \in 1 .. n : i < T => buffer'[i] = i - 1
         /\ \A i \in 1 .. n : T <= i /\ i < e => buffer'[i] = i
         /\ buffer'[e] = Nul
    <2>1. \A i \in 1 .. n : T <= i /\ i < e => buffer[i + 1] = i
      <3> TAKE i \in 1 .. n
      <3> HAVE T <= i /\ i < e
      <3> DEFINE j == i + 1
      <3>1. j \in 1 .. n /\ j - 1 = i
        BY <1>4
      <3> HIDE DEF j
      <3>2. buffer[j] = j - 1
        BY <1>9, <3>1
      <3> QED BY <3>1, <3>2 DEF j
    <2> QED BY <1>9, <1>20, <2>1
  <1>22. buffer' \in Seq(Int) /\ Len(buffer') = n
    <2>1. \A i \in 1 .. n : Moved[i] \in Int
      <3> TAKE i \in 1 .. n
      <3>1. i > e \/ i < T \/ (T <= i /\ i < e) \/ i = e
        BY <1>4
      <3> QED BY <1>9, <1>21, <3>1 DEF Nul
    <2>2. Moved = [i \in 1 .. n |-> Moved[i]]
      BY <1>20 DEF Moved
    <2> QED BY <1>4, <1>9, <2>1, <2>2
  <1>12. /\ Bytes(buffer', T - 1, packet.topic + 1)
                = Append(Places(T, packet.topic), Nul)
         /\ Bytes(buffer', PayloadAt, Len(buffer') - PayloadAt)
                = Places(PayloadAt, n - PayloadAt)
         /\ packet.qos = 1 => Bytes(buffer', e, 2) = Places(e, 2)
    <2> DEFINE f == T - 1
               k == packet.topic
               t == k + 1
               r == n - PayloadAt
    <2>1. /\ f \in Nat /\ k \in Nat /\ t \in Nat /\ r \in Nat
          /\ T = f + 1 /\ f + t = e /\ e <= n /\ PayloadAt + r = n
      BY <1>4, <1>11
    <2>2. t = k + 1 /\ n - PayloadAt = r /\ T - 1 = f /\ packet.topic = k
      OBVIOUS
    <2> HIDE DEF f, k, t, r
    <2>3. \A i \in 1 .. k : buffer'[f + i] = f + i
      <3> TAKE i \in 1 .. k
      <3> DEFINE j == f + i
      <3>1. j \in 1 .. n /\ T <= j /\ j < e
        BY <1>4, <2>1, <2>2
      <3> HIDE DEF j
      <3>2. buffer'[j] = j
        BY <1>21, <3>1
      <3> QED BY <3>2 DEF j
    <2>4. Bytes(buffer', f, t) = Append(Places(T, k), Nul)
      <3>1. f + t <= Len(buffer') /\ buffer'[f + t] = Nul
        BY <1>21, <1>22, <2>1
      <3>2. /\ T \in Nat /\ f \in Nat /\ k \in Nat /\ t \in Nat /\ T = f + 1
            /\ t = k + 1
        BY <1>4, <2>1, <2>2
      <3>3. buffer' \in Seq(Int)
        BY <1>22
      <3>4. TopicInFront(buffer', f, k, t, T)
        BY <2>3, <3>1, <3>2, <3>3 DEF TopicInFront
      <3> QED BY <3>4, TopicMoved
    <2>5. \A i \in 1 .. r : buffer'[PayloadAt + i] = PayloadAt + i - 1
      <3> TAKE i \in 1 .. r
      <3> DEFINE j == PayloadAt + i
      <3>1. j \in 1 .. n /\ j > e
        BY <1>4, <2>1
      <3> HIDE DEF j
      <3>2. buffer'[j] = j - 1
        BY <1>21, <3>1
      <3> QED BY <1>4, <3>1, <3>2 DEF j
    <2>6. Bytes(buffer', PayloadAt, r) = Places(PayloadAt, r)
      <3>1. PayloadAt + r <= Len(buffer')
        BY <1>22, <2>1
      <3> QED BY <1>4, <1>22, <2>1, <2>5, <3>1, BytesInPlace
    <2>7. ASSUME packet.qos = 1
          PROVE  Bytes(buffer', e, 2) = Places(e, 2)
      <3>1. e + 2 <= n
        BY <1>5, <2>7
      <3> DEFINE two == 2
      <3>4. two \in Nat /\ two = 2
        OBVIOUS
      <3> HIDE DEF two
      <3>2. \A i \in 1 .. two : buffer'[e + i] = e + i - 1
        <4> TAKE i \in 1 .. two
        <4> DEFINE j == e + i
        <4>1. j \in 1 .. n /\ j > e
          BY <1>4, <3>1, <3>4
        <4> HIDE DEF j
        <4>2. buffer'[j] = j - 1
          BY <1>21, <4>1
        <4> QED BY <1>4, <4>1, <4>2 DEF j
      <3>3. e + two <= Len(buffer')
        BY <1>22, <3>1, <3>4
      <3>5. Bytes(buffer', e, two) = Places(e, two)
        BY <1>4, <1>22, <3>2, <3>3, <3>4, BytesInPlace
      <3> QED BY <3>4, <3>5
    <2> QED BY <1>22, <2>1, <2>2, <2>4, <2>6, <2>7
  <1>13. /\ given'.topic = Append(Places(T, packet.topic), Nul)
         /\ given'.payload = Places(PayloadAt, n - PayloadAt)
         /\ given' = [topic   |-> Append(Places(T, packet.topic), Nul),
                      payload |-> Places(PayloadAt, n - PayloadAt)]
    BY <1>10, <1>12
  <1>14. packet.qos = 1 => msgId' = Places(e, 2)
    BY <1>10, <1>12
  <1>15. DeliveredAsSent'
    <2>1. bufferSize' = bufferSize /\ pc' # "outside"
      BY <1>1 DEF Deliver, setting
    <2> QED BY <1>6, <1>8, <1>13, <2>1 DEF DeliveredAsSent, T
  <1>16. HandedOK'
    <2>1. Append(Places(T, packet.topic), Nul) \in Seq(Int)
      <3>1. Nul \in Int /\ Places(T, packet.topic) \in Seq(Int)
        BY <1>4, <1>11, OneMore DEF Nul
      <3> QED BY <3>1
    <2>2. Places(PayloadAt, n - PayloadAt) \in Seq(Int)
      BY <1>4, OneMore
    <2>3. given' \in [topic : Seq(Int), payload : Seq(Int)]
      BY <1>13, <2>1, <2>2
    <2>4. msgId' \in Seq(Int)
      <3>1. CASE packet.qos = 1
        BY <1>4, <1>14, <3>1, OneMore
      <3>2. CASE packet.qos # 1
        BY <1>10, <3>2
      <3> QED BY <3>1, <3>2
    <2>5. Len(buffer') <= bufferSize /\ buffer' \in Seq(Int)
      BY <1>4, <1>22
    <2> QED BY <2>3, <2>4, <2>5 DEF IInv, HandedOK, Deliver, setting
  <1>17. Stored'
    BY <1>1 DEF Stored, Reading
  <1>18. Progress'
    BY <1>1, <1>8, <1>14 DEF IInv, Progress, Deliver, setting, Through, e, T
  <1>19. AckedAsSent'
    BY <1>1 DEF AckedAsSent
  <1> QED BY <1>3, <1>15, <1>16, <1>17, <1>18, <1>19 DEF IInv

LEMMA CallbackReturnsKeeps == IInv /\ CallbackReturns => IInv'
  <1> SUFFICES ASSUME IInv, CallbackReturns
               PROVE  IInv'
    OBVIOUS
  <1>1. /\ pc = "callback" /\ pc \in Through /\ pc' \in Through
        /\ pc' = IF packet.qos = 1 THEN "ack" ELSE "done"
    BY DEF CallbackReturns, Through
  <1>2. idx = Size
    BY <1>1 DEF IInv, Position
  <1>3. PacketOK' /\ NumbersOK' /\ Decoded' /\ Position' /\ StreamedSoFar'
    BY <1>1, <1>2, AfterwardsKeeps DEF CallbackReturns
  <1>4. HandedOK'
    <2>1. buffer' = buffer \/ buffer' = <<>>
      BY DEF CallbackReturns
    <2>3. Len(<<>>) <= bufferSize /\ <<>> \in Seq(Int)
      BY SizeOfBuffer
    <2>2. Len(buffer') <= bufferSize /\ buffer' \in Seq(Int)
      BY <2>1, <2>3 DEF IInv, HandedOK
    <2> QED BY <2>2 DEF IInv, HandedOK, CallbackReturns, handed, setting
  <1>5. Stored'
    BY <1>1 DEF Stored, Reading
  <1>6. UNCHANGED <<TopicAt, PayloadAt, Fits, PayloadSize>>
    BY DEF CallbackReturns, parsed, setting, TopicAt, PayloadAt, Fits, Size,
           PayloadSize
  <1>7. Progress'
    BY <1>1, <1>6
    DEF IInv, Progress, CallbackReturns, handed, setting, Through
  <1>8. DeliveredAsSent'
    BY <1>1, <1>6
    DEF IInv, DeliveredAsSent, CallbackReturns, handed, setting
  <1>9. AckedAsSent'
    BY <1>1 DEF AckedAsSent, CallbackReturns
  <1> QED BY <1>3, <1>4, <1>5, <1>7, <1>8, <1>9 DEF IInv

LEMMA AcknowledgeKeeps == IInv /\ Acknowledge => IInv'
  <1> SUFFICES ASSUME IInv, Acknowledge
               PROVE  IInv'
    OBVIOUS
  <1>1. pc = "ack" /\ pc' = "done" /\ pc \in Through /\ pc' \in Through
    BY DEF Acknowledge, Through
  <1>2. idx = Size
    BY <1>1 DEF IInv, Position
  <1>3. PacketOK' /\ NumbersOK' /\ Decoded' /\ Position' /\ StreamedSoFar'
    BY <1>1, <1>2, AfterwardsKeeps DEF Acknowledge
  <1>4. HandedOK'
    BY DEF IInv, HandedOK, Acknowledge, IdToAck, setting
  <1>5. Stored'
    BY <1>1 DEF Stored, Reading
  <1>6. UNCHANGED <<TopicAt, Fits>>
    BY DEF Acknowledge, parsed, setting, TopicAt, Fits, Size
  <1>7. Progress'
    BY <1>1, <1>6 DEF IInv, Progress, Acknowledge, setting, Through
  <1>8. DeliveredAsSent'
    BY <1>1 DEF DeliveredAsSent
  <1>9. AckedAsSent'
    BY <1>1, <1>6
    DEF IInv, Progress, AckedAsSent, Acknowledge, IdToAck, setting
  <1> QED BY <1>3, <1>4, <1>5, <1>7, <1>8, <1>9 DEF IInv

LEMMA StutterKeeps == IInv /\ UNCHANGED vars => IInv'
  <1> SUFFICES ASSUME IInv, UNCHANGED vars
               PROVE  IInv'
    OBVIOUS
  <1> USE DEF vars, setting, parsed, handed
  <1>1. UNCHANGED <<Size, TopicAt, PayloadAt, Fits, PayloadSize>>
    BY DEF Size, TopicAt, PayloadAt, Fits, PayloadSize
  <1>2. PacketOK' /\ NumbersOK' /\ Decoded' /\ HandedOK'
    BY DEF IInv, PacketOK, NumbersOK, Decoded, HandedOK
  <1>3. Position' /\ Stored' /\ StreamedSoFar'
    BY <1>1 DEF IInv, Position, Stored, StreamedSoFar
  <1>4. Progress' /\ DeliveredAsSent' /\ AckedAsSent'
    BY <1>1 DEF IInv, Progress, DeliveredAsSent, AckedAsSent
  <1> QED BY <1>2, <1>3, <1>4 DEF IInv
-----------------------------------------------------------------------------
\* The invariant that the other theorems follow from: readPacket() and the
\* delivery in loop() keep the buffer, the Stream and their own counts in step
\* with the packet.
THEOREM Invariance == Spec => []IInv
  <1>1. IInv /\ [Next]_vars => IInv'
    BY ReadFirstKeeps, ReadDigitKeeps, BadLengthKeeps, ReadTopicLengthKeeps,
       ReadBodyKeeps, StorePastBufferKeeps, GiveUpKeeps, FinishKeeps,
       DeliverKeeps, DeliverPastBufferKeeps, CallbackReturnsKeeps,
       AcknowledgeKeeps, StutterKeeps
    DEF Next
  <1> QED BY Startup, <1>1, PTL DEF Spec

\* The variables of the reader keep to their types.
THEOREM TypeCorrect == Spec => []TypeOK
  <1>1. IInv => TypeOK
    BY DEF IInv, NumbersOK, PacketOK, HandedOK, TypeOK
  <1> QED BY Invariance, <1>1, PTL

\* readPacket() takes the packet, no byte less and no byte more, whatever the
\* encoding of its length.
THEOREM StaysInStep == Spec => []TakesThePacket
  <1>1. IInv => TakesThePacket
    BY DEF IInv, Position, TakesThePacket
  <1> QED BY Invariance, <1>1, PTL

\* The callback gets the message as it was sent, and loop() goes past the end
\* of the buffer in no other cases than the two DeliveredAsSent names.
THEOREM DeliversAsSent == Spec => []DeliveredAsSent
  <1> QED BY Invariance, PTL DEF IInv

\* Without a Stream, loop() sees whole packets only.
THEOREM WholePackets == Spec => []WholeOrIgnored
  <1>1. IInv => WholeOrIgnored
    BY DEF IInv, Progress, WholeOrIgnored
  <1> QED BY Invariance, <1>1, PTL

\* The Stream gets the payload of every message, and nothing else.
THEOREM StreamsAsSent == Spec => []StreamedAsSent
  <1>1. IInv => StreamedAsSent
    <2> SUFFICES ASSUME IInv, stream, pc \in Through
                 PROVE  streamed = IF packet.publish
                                   THEN Places(PayloadAt, PayloadSize)
                                   ELSE <<>>
      BY DEF StreamedAsSent
    <2>1. streamed = IF packet.publish /\ idx > PayloadAt
                     THEN Places(PayloadAt, idx - PayloadAt) ELSE <<>>
      BY DEF IInv, StreamedSoFar
    <2>2. CASE ~packet.publish
      BY <2>1, <2>2
    <2>3. CASE packet.publish
      <3>1. /\ idx = Size /\ llen \in Nat /\ packet.topic \in Nat
            /\ packet.remaining \in Nat /\ packet.qos \in {0, 1}
            /\ packet.remaining >= 2 + packet.topic + 2 * packet.qos
        BY <2>3 DEF IInv, Position, NumbersOK, PacketOK
      <3>2. /\ idx - PayloadAt = PayloadSize /\ PayloadSize \in Nat
            /\ PayloadAt \in Nat /\ idx = PayloadAt + PayloadSize
        BY <3>1 DEF Size, PayloadAt, TopicAt, PayloadSize
      <3>3. CASE PayloadSize = 0
        BY <2>1, <2>3, <3>2, <3>3, NoPlaces
      <3>4. CASE PayloadSize > 0
        BY <2>1, <2>3, <3>2, <3>4
      <3> QED BY <3>2, <3>3, <3>4
    <2> QED BY <2>2, <2>3
  <1> QED BY Invariance, <1>1, PTL

\* A QoS 1 message that was delivered is acknowledged with its identifier, for
\* topics and payloads of any length.
THEOREM AcksAsSent == Spec => []AckedAsSent
  <1> QED BY Invariance, PTL DEF IInv
=============================================================================
