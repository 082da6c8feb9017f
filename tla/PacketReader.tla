---------------------------- MODULE PacketReader ----------------------------
(***************************************************************************)
(* How PubSubClient takes one packet off the socket, readPacket(), and     *)
(* hands it over, the middle of loop().  The broker sends a well formed    *)
(* packet of any size; each of its bytes may fail to come in time.         *)
(*                                                                         *)
(* A byte is its place in the packet, counted from 0: the buffer, the      *)
(* stream and the arguments of the callback are sequences of such places,  *)
(* so that a byte lost, doubled or misplaced shows.  The two numbers the   *)
(* code does take from the bytes are the remaining length, which comes     *)
(* least digit first, and the length of the topic.                         *)
(***************************************************************************)
EXTENDS Integers, Sequences

CONSTANTS
    BufferSizes,     \* what setBufferSize() was called with
    Radix,           \* what one byte of a remaining length counts to (128)
    Topics,          \* lengths of topics
    Payloads,        \* lengths of payloads
    Others           \* remaining lengths of packets other than PUBLISH

Word == 65536        \* what a uint16_t counts to

ASSUME ReaderAssumption ==
    /\ BufferSizes \subseteq Nat \ {0}          \* setBufferSize() refuses 0
    /\ Radix \in Nat /\ Radix > 1
    /\ Topics \subseteq Nat /\ Payloads \subseteq Nat /\ Others \subseteq Nat
    /\ \A t \in Topics : t + 2 < Word         \* skip, which starts anew at Word

VARIABLES
    bufferSize,
    stream,          \* a Stream is set
    callback,        \* a callback is set
    packet,          \* the packet being read
    left,            \* of its remaining length, what is not encoded yet
    pc,              \* where in readPacket() or loop()
    idx,             \* bytes of the packet read
    llen,            \* *lengthLength: bytes of the remaining length read
    length,          \* the remaining length, as far as it is read
    multiplier,
    skip,            \* bytes between the topic's length and the payload
    buffer,          \* the bytes stored; len is its length
    streamed,        \* the bytes given to the Stream
    msgId,           \* loop()'s local
    given,           \* the arguments of the callback
    acked            \* the identifier in the PUBACK

parsed  == <<llen, length, multiplier, left>>
handed  == <<msgId, given, acked>>
setting == <<bufferSize, stream, callback>>
vars == <<setting, packet, pc, idx, parsed, skip, buffer, streamed, handed>>

\* What the broker sends.  A message of QoS 1 carries an identifier, two bytes
\* between topic and payload.
Publish(t, p, q) == [publish |-> TRUE, qos |-> q, topic |-> t,
                     remaining |-> 2 + t + 2 * q + p]
Other(n) == [publish |-> FALSE, qos |-> 0, topic |-> 0, remaining |-> n]

Messages == {Publish(t, p, q) : t \in Topics, p \in Payloads, q \in {0, 1}}
Packets  == Messages \cup {Other(n) : n \in Others}

Nothing == [topic |-> <<>>, payload |-> <<>>]

Init ==
    /\ bufferSize \in BufferSizes
    /\ stream \in BOOLEAN /\ callback \in BOOLEAN
    /\ packet \in Packets /\ left = packet.remaining
    /\ pc = "first" /\ idx = 0 /\ llen = 0 /\ length = 0 /\ multiplier = 1
    /\ skip = 0 /\ buffer = <<>> /\ streamed = <<>>
    /\ msgId = <<>> /\ given = Nothing /\ acked = <<>>
-----------------------------------------------------------------------------
(* readPacket() *)

Room == Len(buffer) < bufferSize

\* readByte() into the buffer, of which nobody asks how large it is.
Store == Room /\ buffer' = Append(buffer, idx) /\ idx' = idx + 1

ReadFirst ==
    /\ pc = "first"
    /\ Store
    /\ pc' = "length"
    /\ UNCHANGED <<setting, packet, parsed, skip, streamed, handed>>

\* Bug: the multiplier stays behind.
SameMultiplier == multiplier

NextMultiplier == multiplier * Radix

\* The broker may use more digits than it has to; only the last one does not
\* have its top bit set.
ReadDigit ==
    /\ pc = "length" /\ Len(buffer) < 5
    /\ Store
    /\ length' = length + (left % Radix) * multiplier
    /\ multiplier' = NextMultiplier
    /\ left' = left \div Radix
    /\ llen' = Len(buffer)
    /\ \/ pc' = "length"
       \/ left' = 0 /\ pc' = IF packet.publish THEN "topic" ELSE "body"
    /\ UNCHANGED <<setting, packet, skip, streamed, handed>>

\* Four digits and another one announced: the connection is closed.
BadLength ==
    /\ pc = "length" /\ Len(buffer) = 5
    /\ pc' = "closed"
    /\ UNCHANGED <<setting, packet, idx, parsed, skip, buffer, streamed,
                   handed>>

\* Bug: the identifier counts as payload.
SkipTopicOnly == packet.topic

SkipToPayload == packet.topic + 2 * packet.qos

\* The buffer is too small for the first bytes of a packet: they are written
\* behind it, and what becomes of the program is not modelled any further.
StorePastBuffer ==
    /\ pc \in {"length", "topic"} /\ ~Room
    /\ pc = "length" => Len(buffer) < 5
    /\ pc' = "outside"
    /\ UNCHANGED <<setting, packet, idx, parsed, skip, buffer, streamed,
                   handed>>

ReadTopicLength ==
    /\ pc = "topic"
    /\ Store
    /\ IF idx' = llen + 3 THEN pc' = "body" /\ skip' = SkipToPayload
                          ELSE UNCHANGED <<pc, skip>>
    /\ UNCHANGED <<setting, packet, parsed, streamed, handed>>

More == idx < 1 + llen + length

\* The byte about to be read belongs to the payload.
InPayload == packet.publish /\ idx - llen - 2 > skip

\* Bug: one byte too many is stored.
RoomForOne == Len(buffer) <= bufferSize

RoomForBody == Len(buffer) < bufferSize

ReadBody ==
    /\ pc = "body" /\ More
    /\ idx' = idx + 1
    /\ streamed' = IF stream /\ InPayload THEN Append(streamed, idx)
                                           ELSE streamed
    /\ buffer' = IF RoomForBody THEN Append(buffer, idx) ELSE buffer
    /\ UNCHANGED <<setting, packet, pc, parsed, skip, handed>>

\* readByte() waited socketTimeout: readPacket() returns 0 at once.
GiveUp ==
    /\ pc \in {"first", "length", "topic", "body"}
    /\ pc = "length" => Len(buffer) < 5
    /\ pc = "body" => More
    /\ pc' = "gaveUp"
    /\ UNCHANGED <<setting, packet, idx, parsed, skip, buffer, streamed,
                   handed>>

\* Bug: what only just overruns the buffer is delivered without its last byte.
OverrunByTwo == ~stream /\ idx > bufferSize + 1

\* Without a Stream a packet larger than the buffer is as good as none.
Overrun == ~stream /\ idx > bufferSize

\* readPacket() is through; loop() looks at what it got.
Finish ==
    /\ pc = "body" /\ ~More
    /\ pc' = IF Overrun THEN "ignored"
             ELSE IF packet.publish /\ callback THEN "arrived" ELSE "done"
    /\ UNCHANGED <<setting, packet, idx, parsed, skip, buffer, streamed,
                   handed>>
-----------------------------------------------------------------------------
(* loop() *)

Nul == -1

TopicAt   == llen + 3
PayloadAt == TopicAt + packet.topic + 2 * packet.qos

\* n bytes of b from place `from' on, counted from 0 as in the code.
Bytes(b, from, n) == SubSeq(b, from + 1, from + n)

\* Bug: the zero that ends the topic is put behind the place it moved from.
NulAfterTopic ==
    [i \in 1 .. Len(buffer) |->
        IF i = TopicAt + packet.topic + 1 THEN Nul
        ELSE IF i \in TopicAt .. TopicAt + packet.topic - 1 THEN buffer[i + 1]
        ELSE buffer[i]]

\* The topic moves one byte to the front, over its own length, and the zero
\* that ends it goes where its last byte was.
Moved ==
    [i \in 1 .. Len(buffer) |->
        IF i = TopicAt + packet.topic THEN Nul
        ELSE IF i \in TopicAt .. TopicAt + packet.topic - 1 THEN buffer[i + 1]
        ELSE buffer[i]]

\* The topic, the identifier and the zero are inside the buffer.  Of a message
\* that overran it, which a Stream is no obstacle to, they need not be.
Inside == PayloadAt <= bufferSize

\* loop() moves the topic, writes the zero or reads the identifier without a
\* look at the size of the buffer.
DeliverPastBuffer ==
    /\ pc = "arrived" /\ ~Inside
    /\ pc' = "outside"
    /\ UNCHANGED <<setting, packet, idx, parsed, skip, buffer, streamed,
                   handed>>

Deliver ==
    /\ pc = "arrived" /\ Inside
    /\ buffer' = Moved
    /\ msgId' = IF packet.qos = 1
                THEN Bytes(buffer', TopicAt + packet.topic, 2) ELSE <<>>
    /\ given' = [topic   |-> Bytes(buffer', TopicAt - 1, packet.topic + 1),
                 payload |-> Bytes(buffer', PayloadAt,
                                   Len(buffer') - PayloadAt)]
    /\ pc' = "callback"
    /\ UNCHANGED <<setting, packet, idx, parsed, skip, streamed, acked>>

\* The callback may publish, which lays out its packet in the same buffer.
CallbackReturns ==
    /\ pc = "callback"
    /\ buffer' \in {buffer, <<>>}
    /\ pc' = IF packet.qos = 1 THEN "ack" ELSE "done"
    /\ UNCHANGED <<setting, packet, idx, parsed, skip, streamed, handed>>

\* Bug: the identifier is taken from the buffer after the callback.
IdInBuffer == IF buffer = <<>> THEN <<>>
              ELSE Bytes(buffer, TopicAt + packet.topic, 2)

IdToAck == msgId

Acknowledge ==
    /\ pc = "ack"
    /\ acked' = IdToAck
    /\ pc' = "done"
    /\ UNCHANGED <<setting, packet, idx, parsed, skip, buffer, streamed,
                   msgId, given>>

Next == \/ ReadFirst \/ ReadDigit \/ BadLength \/ ReadTopicLength \/ ReadBody
        \/ StorePastBuffer \/ GiveUp \/ Finish
        \/ Deliver \/ DeliverPastBuffer \/ CallbackReturns \/ Acknowledge

Spec == Init /\ [][Next]_vars
-----------------------------------------------------------------------------
Reading == {"first", "length", "topic", "body"}
Over    == {"closed", "gaveUp", "ignored", "done", "outside"}

\* Every variable keeps to its type.
TypeOK ==
    /\ bufferSize \in BufferSizes
    /\ stream \in BOOLEAN /\ callback \in BOOLEAN
    /\ packet \in [publish : BOOLEAN, qos : {0, 1}, topic : Nat,
                   remaining : Nat]
    /\ pc \in Reading \cup Over \cup {"arrived", "callback", "ack"}
    /\ idx \in Nat /\ llen \in 0 .. 4 /\ length \in Nat /\ multiplier \in Nat
    /\ left \in Nat /\ skip \in Nat
    /\ buffer \in Seq(Int) /\ Len(buffer) <= bufferSize
    /\ streamed \in Seq(Nat)
    /\ msgId \in Seq(Int) /\ acked \in Seq(Int)
    /\ given \in [topic : Seq(Int), payload : Seq(Int)]

\* n places from `from' on.
Places(from, n) == [i \in 1 .. n |-> from + i - 1]

Size        == 1 + llen + packet.remaining
PayloadSize == packet.remaining - 2 - packet.topic - 2 * packet.qos
Through     == {"ignored", "arrived", "callback", "ack", "done"}

\* readPacket() that reports no failure took exactly the packet from the
\* socket, whatever its length and however that was encoded.
TakesThePacket == pc \in Through => idx = Size

Fits == Size <= bufferSize

\* What a packet has before its topic: a byte, the remaining length in four
\* digits at most, and the length of the topic.
HeaderSize == 7

\* The callback is given the topic and the payload the broker sent, or, with a
\* Stream, as much of the payload as the buffer holds.  The program writes or
\* reads outside the buffer in two cases only: with a buffer too small for the
\* beginning of a packet, and with a Stream, when a topic and its identifier
\* end behind the buffer.
DeliveredAsSent ==
    /\ pc \in {"callback", "ack"} =>
           /\ given.topic = Append(Places(TopicAt, packet.topic), Nul)
           /\ given.payload = Places(PayloadAt, IF Fits THEN PayloadSize
                                                ELSE bufferSize - PayloadAt)
    /\ pc = "outside" => \/ bufferSize < HeaderSize
                         \/ stream /\ ~Fits /\ PayloadAt > bufferSize

\* Without a Stream a packet reaches loop() as a whole or, too large for the
\* buffer, not at all.
WholeOrIgnored ==
    ~stream /\ pc \in Through =>
        IF Fits THEN pc # "ignored" ELSE pc = "ignored"

\* The Stream gets the payload of a message, and nothing else of any packet,
\* whether it fits the buffer or not.
StreamedAsSent ==
    stream /\ pc \in Through =>
        streamed = IF packet.publish THEN Places(PayloadAt, PayloadSize)
                                     ELSE <<>>

\* A message of QoS 1 that was delivered is acknowledged with its identifier,
\* whatever its callback did to the buffer and whether it fits it or not.
AckedAsSent ==
    pc = "done" /\ packet.qos = 1 /\ callback =>
        acked = Places(TopicAt + packet.topic, 2)
=============================================================================
