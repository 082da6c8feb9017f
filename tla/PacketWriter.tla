---------------------------- MODULE PacketWriter ----------------------------
(***************************************************************************)
(* How PubSubClient lays out the packets it sends.  Strings and payloads   *)
(* are their lengths; the buffer is the position reached in it.  connect(),*)
(* publish(), subscribe(), unsubscribe() and beginPublish() leave          *)
(* HeaderRoom bytes free, write the rest of the packet after them, and     *)
(* buildHeader() then puts the fixed header right before it: the packet's  *)
(* kind and its remaining length, seven bits to a byte.  publish_P() lays  *)
(* its packet out from the front.  It and beginPublish() hand the payload  *)
(* straight to the socket.  What becomes of the program once a call has    *)
(* written behind the buffer is not modelled any further.                  *)
(***************************************************************************)
EXTENDS Integers, Sequences

CONSTANTS
    BufferSizes,     \* what setBufferSize() may be called with
    Strings,         \* lengths of topics, identifiers and credentials
    Payloads         \* lengths of payloads

HeaderRoom == 5      \* MQTT_MAX_HEADER_SIZE
ConnectFixed == 10   \* protocol name and version, flags, keep alive
Radix == 128         \* what one byte of a remaining length counts to
Word == 65536        \* a uint16_t wraps there
SevenBits == 0 .. Radix - 1

ASSUME SizesAssumption ==
    /\ \A size \in BufferSizes : size \in Nat /\ 0 < size /\ size < Word
    /\ Strings \subseteq Nat /\ Payloads \subseteq Nat

\* A payload is far smaller than what an unsigned int holds: no sum of sizes
\* wraps.
ASSUME PayloadAssumption == \A size \in Payloads : size < Word * 16384

Calls == {"connect", "publish", "publish_P", "beginPublish", "subscribe",
          "unsubscribe"}

VARIABLES
    bufferSize,
    pc,              \* "idle", "strings", "header", "sent", "refused" or
                     \* "overrun"
    op,              \* the call
    todo,            \* strings still to write
    length,          \* position reached in the buffer
    streamed,        \* payload bytes that go to the socket directly
    rest,            \* len in the loop over the remaining length
    digits           \* lenBuf: the remaining length, least digit first

vars == <<bufferSize, pc, op, todo, length, streamed, rest, digits>>

\* strnlen(s, bufferSize)
Measured(s) == IF s < bufferSize THEN s ELSE bufferSize

Init ==
    /\ bufferSize \in BufferSizes
    /\ pc = "idle" /\ op = "none"
    /\ todo = <<>> /\ length = 0 /\ streamed = 0 /\ rest = 0 /\ digits = <<>>
-----------------------------------------------------------------------------
\* What connect() writes after the identifier: a sketch may leave out the will,
\* the password, or both user and password.
Wills  == {<<>>} \cup {<<topic, message>> : topic, message \in Strings}
Logins == {<<>>} \cup {<<user>> : user \in Strings}
          \cup {<<user, password>> : user, password \in Strings}

\* The call wrote up to `position', which is behind the buffer.
Overrun(call, position) ==
    /\ op' = call /\ length' = position /\ pc' = "overrun"
    /\ todo' = <<>> /\ streamed' = 0 /\ rest' = 0 /\ digits' = <<>>
    /\ UNCHANGED bufferSize

Begin(call, position, payload, remaining) ==
    IF position > bufferSize
    THEN Overrun(call, position)
    ELSE /\ op' = call /\ length' = position /\ streamed' = payload
         /\ rest' = remaining
         /\ pc' = "header" /\ todo' = <<>> /\ digits' = <<>>
         /\ UNCHANGED bufferSize

Refuse(call) ==
    /\ op' = call /\ pc' = "refused"
    /\ todo' = <<>> /\ length' = 0 /\ streamed' = 0 /\ rest' = 0
    /\ digits' = <<>>
    /\ UNCHANGED bufferSize

\* The first bytes are written without a look at the buffer's size.
FixedEnd == HeaderRoom + ConnectFixed

Connect ==
    /\ pc = "idle"
    /\ IF FixedEnd > bufferSize
       THEN Overrun("connect", FixedEnd)
       ELSE /\ \E id \in Strings, will \in Wills, login \in Logins :
                todo' = <<id>> \o will \o login
            /\ op' = "connect" /\ pc' = "strings"
            /\ length' = FixedEnd
            /\ streamed' = 0 /\ rest' = 0 /\ digits' = <<>>
            /\ UNCHANGED bufferSize

\* Bug: the two bytes of the string's own length are forgotten.
NoPrefix(s) == length + Measured(s) > bufferSize

\* CHECK_STRING_LENGTH
Overruns(s) == length + 2 + Measured(s) > bufferSize

\* writeString() puts the next string, a length of two bytes before it.
StringEnd == length + 2 + Head(todo)

PutString ==
    /\ pc = "strings" /\ op = "connect" /\ todo # <<>>
    /\ \/ /\ Overruns(Head(todo))
          /\ Refuse("connect")
       \/ /\ ~Overruns(Head(todo))
          /\ IF StringEnd > bufferSize
             THEN Overrun("connect", StringEnd)
             ELSE /\ length' = StringEnd
                  /\ todo' = Tail(todo)
                  /\ UNCHANGED <<bufferSize, pc, op, streamed, rest, digits>>

ConnectComplete ==
    /\ pc = "strings" /\ op = "connect" /\ todo = <<>>
    /\ Begin("connect", length, 0, length - HeaderRoom)

Publish ==
    /\ pc = "idle"
    /\ \E topic \in Strings, payload \in Payloads :
        IF bufferSize < HeaderRoom + 2 + Measured(topic) + payload
        THEN Refuse("publish")
        ELSE Begin("publish", HeaderRoom + 2 + topic + payload, 0,
                   2 + topic + payload)

\* The payload of publish_P() lies in flash memory, which is far smaller than
\* what four bytes of remaining length count to.
InFlash(payload) == payload < Word * 256

\* publish_P() writes the packet's kind and its remaining length, an unsigned
\* int, first; PutDigitP and PutTopic are the rest of it.
PublishP ==
    /\ pc = "idle"
    /\ \E topic \in Strings, payload \in Payloads :
        /\ InFlash(payload)
        /\ todo' = <<topic>> /\ streamed' = payload
        /\ rest' = payload + 2 + Measured(topic)
    /\ op' = "publish_P" /\ pc' = "header" /\ length' = 1 /\ digits' = <<>>
    /\ UNCHANGED bufferSize

\* Bug: a remaining length of any size is let through.
AnyLength(n) == n

\* buildHeader() takes the remaining length as a uint16_t.
AsWord(n) == n % Word

\* beginPublish() does not ask whether its topic fits the buffer.
BeginPublish ==
    /\ pc = "idle"
    /\ \E topic \in Strings, payload \in Payloads :
        Begin("beginPublish", HeaderRoom + 2 + topic, payload,
              AsWord(payload + 2 + topic))

\* The room subscribe() and unsubscribe() ask for: the header, an identifier,
\* and the topic with its length.
TooLong(topic) == bufferSize < 9 + Measured(topic)

\* subscribe() appends the requested quality of service.
Subscribe ==
    /\ pc = "idle"
    /\ \E topic \in Strings :
        IF TooLong(topic)
        THEN Refuse("subscribe")
        ELSE Begin("subscribe", HeaderRoom + 2 + 2 + topic + 1, 0,
                   2 + 2 + topic + 1)

Unsubscribe ==
    /\ pc = "idle"
    /\ \E topic \in Strings :
        IF TooLong(topic)
        THEN Refuse("unsubscribe")
        ELSE Begin("unsubscribe", HeaderRoom + 2 + 2 + topic, 0,
                   2 + 2 + topic)

\* Bugs: the loop takes digits of one bit less than it removes; it does not
\* mask them.
ShortDigit(n) == n % (Radix \div 2)
WholeDigit(n) == n

LowDigit(n) == n % Radix

\* The digit written and the number without it.
Encode == digits' = Append(digits, LowDigit(rest)) /\ rest' = rest \div Radix

\* One turn of the loop in buildHeader().
PutDigit ==
    /\ pc = "header" /\ op # "publish_P"
    /\ Encode
    /\ pc' = IF rest' > 0 THEN "header" ELSE "sent"
    /\ UNCHANGED <<bufferSize, op, todo, length, streamed>>

\* One turn of the loop in publish_P(), which writes to the buffer directly.
PutDigitP ==
    /\ pc = "header" /\ op = "publish_P"
    /\ \/ /\ length + 1 > bufferSize
          /\ Overrun("publish_P", length + 1)
       \/ /\ length + 1 <= bufferSize
          /\ Encode
          /\ length' = length + 1
          /\ pc' = IF rest' > 0 THEN "header" ELSE "strings"
          /\ UNCHANGED <<bufferSize, op, todo, streamed>>

\* publish_P() does not ask whether its topic fits the buffer either.
PutTopic ==
    /\ pc = "strings" /\ op = "publish_P"
    /\ \/ /\ StringEnd > bufferSize
          /\ Overrun("publish_P", StringEnd)
       \/ /\ StringEnd <= bufferSize
          /\ length' = StringEnd
          /\ todo' = <<>> /\ pc' = "sent"
          /\ UNCHANGED <<bufferSize, op, streamed, rest, digits>>

Done ==
    /\ pc \in {"sent", "refused"}
    /\ pc' = "idle" /\ op' = "none"
    /\ todo' = <<>> /\ length' = 0 /\ streamed' = 0 /\ rest' = 0
    /\ digits' = <<>>
    /\ UNCHANGED bufferSize

\* setBufferSize(), between two calls.
SetBufferSize ==
    /\ pc = "idle"
    /\ bufferSize' \in BufferSizes
    /\ UNCHANGED <<pc, op, todo, length, streamed, rest, digits>>

Next == \/ Connect \/ PutString \/ ConnectComplete
        \/ Publish \/ PublishP \/ BeginPublish \/ Subscribe \/ Unsubscribe
        \/ PutDigit \/ PutDigitP \/ PutTopic \/ Done \/ SetBufferSize

Spec == Init /\ [][Next]_vars
-----------------------------------------------------------------------------
\* Every variable keeps to its type; a position stays within its uint16_t, and
\* a byte of the remaining length within seven bits.
TypeOK ==
    /\ bufferSize \in BufferSizes
    /\ pc \in {"idle", "strings", "header", "sent", "refused", "overrun"}
    /\ op \in Calls \cup {"none"}
    /\ todo \in Seq(Nat)
    /\ length \in Nat /\ streamed \in Nat /\ rest \in Nat
    /\ pc # "overrun" => length < Word
    /\ digits \in Seq(SevenBits)

\* The calls that compare their lengths with the buffer's size keep within it,
\* whatever the size: publish() and unsubscribe() always, connect() once its
\* first bytes have found room, subscribe() but for the one byte it appends.
\* publish_P() and beginPublish() compare nothing and may write past the end.
FitsBuffer ==
    length > bufferSize =>
        \/ op \in {"publish_P", "beginPublish"}
        \/ op = "subscribe" /\ length = bufferSize + 1
        \/ op = "connect" /\ length = FixedEnd

\* The remaining length never takes more bytes than HeaderRoom leaves it, so
\* that buildHeader() does not write before the start of the buffer.
HeaderFits == Len(digits) < HeaderRoom

\* A packet sent announces exactly the bytes that follow its header, so that
\* the broker finds the next packet where it begins. beginPublish() announces
\* them modulo 2^16: truly for payloads of less than 64 KiB; of a longer one
\* the broker takes the end for packets.
Digit(i) == IF i <= Len(digits) THEN digits[i] ELSE 0

Announced == Digit(1) + Radix * Digit(2) + Radix * Radix * Digit(3)
             + Radix * Radix * Radix * Digit(4)

\* What the header takes in the buffer.
Header == IF op = "publish_P" THEN 1 + Len(digits) ELSE HeaderRoom

Body == length - Header + streamed

LengthAnnounced ==
    pc = "sent" =>
        Announced = (IF op = "beginPublish" THEN Body % Word ELSE Body)

\* beginPublish() "Allows for arbitrarily large payloads" (PubSubClient.h:162).
LargePayloads == pc = "sent" /\ op = "beginPublish" => Announced = Body

\* subscribe() refuses a topic that is "Too long" for the buffer
\* (PubSubClient.cpp:618).
SubscribeFits == op = "subscribe" => length <= bufferSize
=============================================================================
