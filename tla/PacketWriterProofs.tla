------------------------- MODULE PacketWriterProofs -------------------------
(***************************************************************************)
(* Whatever the buffer's size and the strings' and payloads' lengths, the  *)
(* packets PacketWriter sends announce their length, and the calls that    *)
(* compare lengths with the buffer's size stay in the buffer.              *)
(***************************************************************************)
EXTENDS PacketWriter, TLAPS

\* While buildHeader() runs, the digits written and the rest they leave make
\* up the remaining length, and the rest shrinks by Radix with every digit.
Power(k) == CASE k = 0 -> 1 [] k = 1 -> 128 [] k = 2 -> 16384
              [] k = 3 -> 2097152 [] k = 4 -> 268435456

Encoding == Len(digits) <= 4 /\ rest < Power(4 - Len(digits))

Written ==
    /\ pc = "header" /\ digits # <<>> => rest > 0
    /\ pc \in {"strings", "sent"} => rest = 0

\* What the header is to announce; publish_P() does so before its topic is in
\* the buffer.
Promised == IF op = "beginPublish" THEN AsWord(Body)
            ELSE IF op = "publish_P" /\ pc # "sent"
            THEN 2 + Measured(Head(todo)) + streamed ELSE Body

InHeader == \/ pc \in {"header", "sent"}
            \/ pc = "strings" /\ op = "publish_P"

Sum == InHeader => Announced + rest * Power(Len(digits)) = Promised

\* What else of a packet is in the buffer while it is laid out.
Laying ==
    /\ ~InHeader => digits = <<>> /\ rest = 0
    /\ pc = "strings" => op \in {"connect", "publish_P"}
    /\ pc = "strings" /\ op = "connect" => streamed = 0 /\ length >= HeaderRoom
    /\ op = "publish_P" /\ pc \in {"header", "strings"} =>
           length = 1 + Len(digits) /\ Len(todo) = 1
    /\ pc = "idle" => length = 0
    /\ pc # "overrun" => length <= bufferSize

IInv == /\ TypeOK /\ FitsBuffer
        /\ Encoding /\ Written /\ Sum /\ Laying
-----------------------------------------------------------------------------
\* Taking the low digit off a number: what is left and what was taken make up
\* the number again, and the bounds shrink by Radix (the loop of buildHeader()).
LEMMA DigitOff ==
    ASSUME NEW n \in Nat
    PROVE  /\ LowDigit(n) \in SevenBits
           /\ n \div Radix \in Nat
           /\ n = LowDigit(n) + Radix * (n \div Radix)
           /\ \A j \in 1 .. 4 :
                  n < Power(j) => n \div Radix < Power(j - 1)
  <1> DEFINE d == n % 128
             q == n \div 128
  <1>1. d \in 0 .. 127 /\ q \in Nat /\ n = d + 128 * q
    BY SMT
  <1> HIDE DEF d, q
  <1>2. /\ n < 268435456 => q < 2097152
        /\ n < 2097152 => q < 16384
        /\ n < 16384 => q < 128
        /\ n < 128 => q < 1
    BY <1>1, SMT
  <1>3. \A j \in 1 .. 4 : n < Power(j) => q < Power(j - 1)
    BY <1>2, SMT DEF Power
  <1> QED BY <1>1, <1>3, SMT DEF d, q, LowDigit, Radix, SevenBits

LEMMA Powers ==
    /\ Power(0) = 1 /\ Power(1) = Radix /\ Power(2) = Radix * Radix
    /\ Power(3) = Radix * Radix * Radix
    /\ Power(4) = Radix * Radix * Radix * Radix
    /\ Power(4) \in Nat /\ Word * 256 + Word < Power(4)
  BY SMT DEF Power, Radix, Word

\* A header that has no digit yet leaves room for four.
LEMMA NoDigitYet ==
    ASSUME digits' = <<>>, rest' < Power(4)
    PROVE  Encoding'
  <1>1. Len(digits') = 0 /\ 4 - Len(digits') = 4
    OBVIOUS
  <1> QED BY <1>1 DEF Encoding

\* A call that wrote no header yet has nothing to announce.
LEMMA Headerless ==
    ASSUME digits' = <<>>, rest' = 0, ~InHeader'
    PROVE  Encoding' /\ Written' /\ Sum'
  <1>1. rest' < Power(4)
    BY SMT DEF Power
  <1>2. Written' /\ Sum'
    BY DEF Written, Sum, InHeader
  <1> QED BY <1>1, <1>2, NoDigitYet

LEMMA Sizes ==
    /\ \A size \in BufferSizes : size \in Nat /\ 0 < size /\ size < Word
    /\ Word \in Nat
    /\ \A s \in Strings : s \in Nat
    /\ \A s \in Payloads : s \in Nat
  <1>1. Word \in Nat
    BY DEF Word
  <1> QED BY <1>1, SizesAssumption

LEMMA SizeOfBuffer ==
    ASSUME IInv
    PROVE  /\ bufferSize \in BufferSizes /\ bufferSize \in Nat
           /\ 0 < bufferSize /\ bufferSize < Word /\ Word \in Nat
  BY Sizes DEF IInv, TypeOK

LEMMA Elements ==
    ASSUME NEW S, NEW q \in Seq(S)
    PROVE  Len(q) \in Nat /\ \A i \in 1 .. Len(q) : q[i] \in S
  OBVIOUS

LEMMA Appended ==
    ASSUME NEW S, NEW q \in Seq(S), NEW x \in S
    PROVE  /\ Append(q, x) \in Seq(S)
           /\ Len(Append(q, x)) = Len(q) + 1
           /\ Append(q, x)[Len(q) + 1] = x
           /\ \A i \in 1 .. Len(q) : Append(q, x)[i] = q[i]
  OBVIOUS

LEMMA UpToThree ==
    \A n \in Nat : n <= 3 => n = 0 \/ n = 1 \/ n = 2 \/ n = 3
  OBVIOUS

\* The truncation to uint16_t.
LEMMA Truncated ==
    ASSUME NEW n \in Nat
    PROVE  AsWord(n) \in Nat /\ AsWord(n) < Word
  <1>1. n % Word \in Nat /\ n % Word < Word
    <2>1. Word \in Nat /\ Word > 0
      BY DEF Word
    <2> QED BY <2>1
  <1> QED BY <1>1 DEF AsWord

\* strnlen() never says more than the string's length, and says it exactly
\* when the string is shorter than the buffer.
LEMMA MeasuredString ==
    ASSUME NEW s \in Nat, bufferSize \in Nat
    PROVE  /\ Measured(s) \in Nat
           /\ Measured(s) <= s
           /\ s < bufferSize => Measured(s) = s
           /\ ~(s < bufferSize) => Measured(s) = bufferSize
  BY DEF Measured

LEMMA Startup == Init => IInv
  <1> SUFFICES ASSUME Init
               PROVE  IInv
    OBVIOUS
  <1>5. bufferSize \in BufferSizes /\ bufferSize \in Nat /\ 0 < bufferSize
    BY Sizes DEF Init
  <1>1. TypeOK /\ FitsBuffer /\ Laying
    BY <1>5 DEF Init, TypeOK, FitsBuffer, Laying, InHeader, Word
  <1>2. Len(digits) = 0 /\ 4 - Len(digits) = 4 /\ rest = 0 /\ pc = "idle"
    BY DEF Init
  <1>3. rest < Power(4)
    BY <1>2, SMT DEF Power
  <1>4. Encoding /\ Written /\ Sum
    BY <1>2, <1>3 DEF Encoding, Written, Sum, InHeader
  <1> QED BY <1>1, <1>4 DEF IInv

\* A call that wrote past the buffer is one of those that may.
LEMMA OverrunKeeps ==
    ASSUME IInv, NEW call \in Calls, NEW position \in Nat,
           Overrun(call, position),
           \/ call \in {"publish_P", "beginPublish"}
           \/ call = "subscribe" /\ position = bufferSize + 1
           \/ call = "connect" /\ position = FixedEnd
    PROVE  IInv'
  <1>1. /\ op' = call /\ length' = position /\ pc' = "overrun"
        /\ todo' = <<>> /\ streamed' = 0 /\ rest' = 0 /\ digits' = <<>>
        /\ bufferSize' = bufferSize /\ bufferSize \in BufferSizes
    BY SizeOfBuffer DEF Overrun
  <1>2. todo' \in Seq(Nat) /\ digits' \in Seq(SevenBits)
    BY <1>1
  <1>3. TypeOK'
    BY <1>1, <1>2 DEF TypeOK
  <1>4. FitsBuffer'
    BY <1>1 DEF FitsBuffer, FixedEnd
  <1>5. ~InHeader'
    BY <1>1 DEF InHeader
  <1>6. Encoding' /\ Written' /\ Sum'
    BY <1>1, <1>5, Headerless
  <1>7. Laying'
    BY <1>1, <1>5 DEF Laying
  <1> QED BY <1>3, <1>4, <1>6, <1>7 DEF IInv

\* Begin() starts the header of a packet whose remaining length is announced
\* truly, unless the call is beginPublish().
LEMMA BeginKeeps ==
    ASSUME IInv,
           NEW call \in Calls \ {"publish_P"}, NEW position \in Nat,
           NEW payload \in Nat, NEW remaining \in Nat,
           Begin(call, position, payload, remaining),
           remaining < Power(4),
           position > bufferSize =>
               \/ call = "beginPublish"
               \/ call = "subscribe" /\ position = bufferSize + 1,
           call # "beginPublish" =>
               remaining = position - HeaderRoom + payload,
           call = "beginPublish" =>
               remaining = AsWord(position - HeaderRoom + payload)
    PROVE  IInv'
  <1>1. CASE position > bufferSize
    BY <1>1, OverrunKeeps DEF Begin
  <1>2. CASE ~(position > bufferSize)
    <2>1. /\ digits' = <<>> /\ Len(digits') = 0 /\ todo' = <<>>
          /\ rest' = remaining /\ op' = call /\ length' = position
          /\ streamed' = payload /\ pc' = "header"
          /\ bufferSize' = bufferSize
      BY <1>2 DEF Begin
    <2>2. /\ bufferSize \in BufferSizes /\ position <= bufferSize
          /\ position < Word
      BY <1>2, SizeOfBuffer
    <2>3. todo' \in Seq(Nat) /\ digits' \in Seq(SevenBits)
      BY <2>1
    <2>4. TypeOK'
      BY <2>1, <2>2, <2>3 DEF TypeOK
    <2>5. bufferSize \in Nat
      BY SizeOfBuffer
    <2>6. FitsBuffer'
      BY <2>1, <2>2, <2>5 DEF FitsBuffer
    <2>7. Encoding' /\ Written'
      BY <2>1, NoDigitYet DEF Written
    <2>8. Announced' = 0 /\ Power(Len(digits')) = 1
      BY <2>1, Powers DEF Announced, Digit, Radix
    <2>9. Sum'
      <3>1. Header' = HeaderRoom
        BY <2>1 DEF Header
      <3>2. Body' = position - HeaderRoom + payload
        BY <2>1, <3>1 DEF Body
      <3>3. Promised' = remaining
        BY <2>1, <3>2 DEF Promised
      <3> QED BY <2>1, <2>8, <3>3 DEF Sum
    <2>10. Laying'
      BY <2>1, <2>2 DEF Laying, InHeader
    <2> QED BY <2>4, <2>6, <2>7, <2>9, <2>10 DEF IInv
  <1> QED BY <1>1, <1>2

\* A refused call leaves nothing behind.
LEMMA RefuseKeeps ==
    ASSUME IInv, NEW call \in Calls, Refuse(call)
    PROVE  IInv'
  <1>1. /\ digits' = <<>> /\ rest' = 0 /\ length' = 0 /\ op' = call
        /\ pc' = "refused" /\ todo' = <<>> /\ streamed' = 0
        /\ bufferSize' = bufferSize /\ bufferSize \in BufferSizes
        /\ bufferSize \in Nat
    BY SizeOfBuffer DEF Refuse
  <1>2. todo' \in Seq(Nat) /\ digits' \in Seq(SevenBits)
    BY <1>1
  <1>3. TypeOK' /\ FitsBuffer'
    BY <1>1, <1>2 DEF TypeOK, FitsBuffer, Word
  <1>4. ~InHeader'
    BY <1>1 DEF InHeader
  <1>5. Encoding' /\ Written' /\ Sum'
    BY <1>1, <1>4, Headerless
  <1>6. Laying'
    BY <1>1, <1>4 DEF Laying
  <1> QED BY <1>3, <1>5, <1>6 DEF IInv

\* One turn of the loop that encodes the remaining length keeps the digits and
\* the rest together.
LEMMA EncodeKeeps ==
    ASSUME IInv, pc = "header", Encode
    PROVE  /\ digits' \in Seq(SevenBits) /\ rest' \in Nat
           /\ Len(digits') = Len(digits) + 1 /\ digits' # <<>>
           /\ Encoding'
           /\ Announced' + rest' * Power(Len(digits')) = Promised
  <1> DEFINE d == LowDigit(rest)
             k == Len(digits)
  <1>1. /\ rest \in Nat /\ digits \in Seq(SevenBits) /\ k \in Nat
        /\ length \in Nat /\ streamed \in Nat
    BY DEF IInv, TypeOK
  <1>2. /\ d \in SevenBits /\ rest' \in Nat
        /\ rest = d + Radix * rest'
        /\ \A j \in 1 .. 4 : rest < Power(j) => rest' < Power(j - 1)
    BY <1>1, DigitOff DEF Encode
  <1>3. digits' = Append(digits, d)
    BY DEF Encode
  <1>4. /\ digits' \in Seq(SevenBits)
        /\ Len(digits') = k + 1
        /\ digits'[k + 1] = d
        /\ \A i \in 1 .. k : digits'[i] = digits[i]
    BY <1>1, <1>2, <1>3, Appended
  <1>5. k <= 3
    <2>1. k > 0 => rest > 0
      BY <1>1 DEF IInv, Written
    <2>2. k <= 4 /\ rest < Power(4 - k)
      BY DEF IInv, Encoding
    <2>3. k = 4 => rest < Power(0)
      BY <2>2
    <2> QED BY <1>1, <2>1, <2>2, <2>3, Powers
  <1>8. Encoding'
    <2>1. rest < Power(4 - k)
      BY DEF IInv, Encoding
    <2>2. rest' < Power(4 - (k + 1))
      <3> DEFINE j == 4 - k
      <3>1. j \in 1 .. 4 /\ j - 1 = 4 - (k + 1)
        BY <1>1, <1>5
      <3>2. rest < Power(j)
        BY <2>1
      <3> HIDE DEF j
      <3>3. rest' < Power(j - 1)
        BY <1>2, <3>1, <3>2
      <3> QED BY <3>1, <3>3 DEF j
    <2> QED BY <1>1, <1>4, <1>5, <2>2 DEF Encoding
  <1>10. Announced' + rest' * Power(Len(digits')) = Promised
    <2>1. Announced + rest * Power(k) = Promised
      BY DEF IInv, Sum, InHeader
    <2>2. \A i \in 1 .. k : digits[i] \in Nat
      <3>1. \A i \in 1 .. Len(digits) : digits[i] \in SevenBits
        BY <1>1, Elements
      <3> QED BY <3>1 DEF SevenBits
    <2>3. Announced' + rest' * Power(k + 1) = Announced + rest * Power(k)
      <3>0. d \in Nat /\ rest' \in Nat /\ rest = d + 128 * rest'
        BY <1>2 DEF Radix, SevenBits
      <3>1. CASE k = 0
        <4>1. /\ Len(digits) = 0 /\ Len(digits') = 1
              /\ digits'[1] = d
          BY <3>1, <1>4, <2>2
        <4>2. /\ Announced = 0
              /\ Announced' = d
          BY <4>1, <3>0, SMT DEF Announced, Digit, Radix
        <4>3. Power(k) = 1 /\ Power(k + 1) = 128
          BY <3>1, SMT DEF Power
        <4> QED BY <4>1, <4>2, <4>3, <3>0, SMT
      <3>2. CASE k = 1
        <4>1. /\ Len(digits) = 1 /\ Len(digits') = 2 /\ digits[1] \in Nat
              /\ digits'[2] = d
              /\ digits'[1] = digits[1]
          BY <3>2, <1>4, <2>2
        <4>2. /\ Announced = digits[1]
              /\ Announced' = digits[1] + 128 * d
          BY <4>1, <3>0, SMT DEF Announced, Digit, Radix
        <4>3. Power(k) = 128 /\ Power(k + 1) = 16384
          BY <3>2, SMT DEF Power
        <4> QED BY <4>1, <4>2, <4>3, <3>0, SMT
      <3>3. CASE k = 2
        <4>1. /\ Len(digits) = 2 /\ Len(digits') = 3
              /\ digits[1] \in Nat /\ digits[2] \in Nat
              /\ digits'[3] = d
              /\ digits'[1] = digits[1]
              /\ digits'[2] = digits[2]
          BY <3>3, <1>4, <2>2
        <4>2. /\ Announced = digits[1] + 128 * digits[2]
              /\ Announced' = digits[1] + 128 * digits[2] + 16384 * d
          BY <4>1, <3>0, SMT DEF Announced, Digit, Radix
        <4>3. Power(k) = 16384 /\ Power(k + 1) = 2097152
          BY <3>3, SMT DEF Power
        <4> QED BY <4>1, <4>2, <4>3, <3>0, SMT
      <3>4. CASE k = 3
        <4>1. /\ Len(digits) = 3 /\ Len(digits') = 4
              /\ digits[1] \in Nat /\ digits[2] \in Nat /\ digits[3] \in Nat
              /\ digits'[4] = d
              /\ digits'[1] = digits[1]
              /\ digits'[2] = digits[2]
              /\ digits'[3] = digits[3]
          BY <3>4, <1>4, <2>2
        <4>2. /\ Announced = digits[1] + 128 * digits[2] + 16384 * digits[3]
              /\ Announced' = digits[1] + 128 * digits[2] + 16384 * digits[3]
                              + 2097152 * d
          BY <4>1, <3>0, SMT DEF Announced, Digit, Radix
        <4>3. Power(k) = 2097152 /\ Power(k + 1) = 268435456
          BY <3>4, SMT DEF Power
        <4> QED BY <4>1, <4>2, <4>3, <3>0, SMT
      <3>5. k = 0 \/ k = 1 \/ k = 2 \/ k = 3
        BY <1>1, <1>5, UpToThree, Zenon
      <3> QED BY <3>1, <3>2, <3>3, <3>4, <3>5, Zenon
    <2> QED BY <1>4, <2>1, <2>3
  <1> QED BY <1>1, <1>2, <1>4, <1>8, <1>10

LEMMA PutDigitKeeps ==
    ASSUME IInv, PutDigit
    PROVE  IInv'
  <1>1. /\ UNCHANGED <<bufferSize, op, todo, length, streamed>>
        /\ pc = "header" /\ op # "publish_P"
        /\ pc' = IF rest' > 0 THEN "header" ELSE "sent"
    BY DEF PutDigit
  <1>2. /\ digits' \in Seq(SevenBits) /\ rest' \in Nat /\ Encoding'
        /\ Announced' + rest' * Power(Len(digits')) = Promised
    BY <1>1, EncodeKeeps DEF PutDigit
  <1>3. TypeOK'
    BY <1>1, <1>2 DEF IInv, TypeOK
  <1>4. FitsBuffer' /\ Laying' /\ Written'
    BY <1>1, <1>2 DEF IInv, FitsBuffer, Laying, Written, InHeader
  <1>5. Promised' = Promised
    BY <1>1 DEF Promised, Body, Header
  <1>6. Sum'
    BY <1>2, <1>5 DEF Sum
  <1> QED BY <1>2, <1>3, <1>4, <1>6 DEF IInv

\* publish_P() puts a byte into the buffer with every digit, and the topic
\* last.
LEMMA PutDigitPKeeps ==
    ASSUME IInv, PutDigitP
    PROVE  IInv'
  <1>1. length \in Nat /\ length + 1 \in Nat /\ bufferSize \in Nat
    BY SizeOfBuffer DEF IInv, TypeOK
  <1>2. CASE Overrun("publish_P", length + 1)
    BY <1>1, <1>2, OverrunKeeps DEF Calls
  <1>3. CASE ~Overrun("publish_P", length + 1)
    <2>1. /\ UNCHANGED <<bufferSize, op, todo, streamed>>
          /\ length' = length + 1 /\ length + 1 <= bufferSize
          /\ pc = "header" /\ op = "publish_P" /\ Encode
          /\ pc' = IF rest' > 0 THEN "header" ELSE "strings"
      BY <1>3 DEF PutDigitP
    <2>2. /\ digits' \in Seq(SevenBits) /\ rest' \in Nat /\ Encoding'
          /\ Len(digits') = Len(digits) + 1
          /\ Announced' + rest' * Power(Len(digits')) = Promised
      BY <2>1, EncodeKeeps
    <2>3. length' < Word
      BY <1>1, <2>1, SizeOfBuffer
    <2>4. TypeOK'
      BY <1>1, <2>1, <2>2, <2>3 DEF IInv, TypeOK
    <2>5. Len(digits) \in Nat /\ length = 1 + Len(digits) /\ Len(todo) = 1
      BY <2>1 DEF IInv, Laying, TypeOK
    <2>6. FitsBuffer' /\ Written' /\ Laying'
      BY <1>1, <2>1, <2>2, <2>5 DEF FitsBuffer, Laying, Written, InHeader
    <2>7. Promised' = Promised
      BY <2>1 DEF Promised, Measured
    <2>8. Sum'
      BY <2>2, <2>7 DEF Sum
    <2> QED BY <2>2, <2>4, <2>6, <2>8 DEF IInv
  <1> QED BY <1>2, <1>3

LEMMA PutTopicKeeps ==
    ASSUME IInv, PutTopic
    PROVE  IInv'
  <1> DEFINE h == Head(todo)
  <1>1. /\ pc = "strings" /\ op = "publish_P" /\ Len(todo) = 1
        /\ length = 1 + Len(digits) /\ rest = 0
    BY DEF PutTopic, IInv, Laying, Written
  <1>7. h \in Nat
    <2>1. todo \in Seq(Nat) /\ Len(todo) = 1
      BY <1>1 DEF IInv, TypeOK
    <2>2. todo # <<>>
      BY <2>1
    <2> QED BY <2>1, <2>2
  <1>2. /\ h \in Nat /\ length \in Nat /\ bufferSize \in Nat
        /\ digits \in Seq(SevenBits) /\ Len(digits) \in Nat
        /\ streamed \in Nat
    <2>1. digits \in Seq(SevenBits) /\ length \in Nat /\ streamed \in Nat
      BY DEF IInv, TypeOK
    <2> QED BY <1>7, <2>1, SizeOfBuffer
  <1>3. StringEnd = length + 2 + h
    BY DEF StringEnd
  <1> HIDE DEF h
  <1>4. StringEnd \in Nat
    BY <1>2, <1>3
  <1>5. CASE Overrun("publish_P", StringEnd)
    BY <1>4, <1>5, OverrunKeeps DEF Calls
  <1>6. CASE ~Overrun("publish_P", StringEnd)
    <2>1. /\ UNCHANGED <<bufferSize, op, streamed, rest, digits>>
          /\ length' = StringEnd /\ StringEnd <= bufferSize
          /\ todo' = <<>> /\ pc' = "sent"
      BY <1>6 DEF PutTopic
    <2>2. StringEnd < Word
      BY <1>2, <1>4, <2>1, SizeOfBuffer
    <2>3. todo' \in Seq(Nat)
      BY <2>1
    <2>4. TypeOK'
      BY <1>1, <1>4, <2>1, <2>2, <2>3 DEF IInv, TypeOK
    <2>5. Encoding'
      BY <2>1 DEF IInv, Encoding
    <2>6. FitsBuffer' /\ Written' /\ Laying'
      BY <1>1, <1>2, <1>4, <2>1 DEF FitsBuffer, Laying, Written, InHeader
    <2>7. Measured(h) = h
      BY <1>2, <1>3, <2>1, MeasuredString
    <2>8. Promised = 2 + h + streamed
      BY <1>1, <2>7 DEF Promised, h
    <2>9. Promised' = 2 + h + streamed
      <3>1. Header' = 1 + Len(digits)
        BY <1>1, <2>1 DEF Header
      <3>2. Body' = length + 2 + h - (1 + Len(digits)) + streamed
        <4>1. length' = length + 2 + h /\ streamed' = streamed
          BY <1>3, <2>1
        <4>2. Body' = length' - Header' + streamed'
          BY DEF Body
        <4> QED BY <1>2, <3>1, <4>1, <4>2
      <3>3. Body' = 2 + h + streamed
        BY <1>1, <1>2, <3>2
      <3> QED BY <1>1, <2>1, <3>3 DEF Promised
    <2>10. UNCHANGED Announced
      BY <2>1 DEF Announced, Digit
    <2>11. Announced + rest * Power(Len(digits)) = Promised
      BY <1>1 DEF IInv, Sum, InHeader
    <2>12. Sum'
      BY <2>1, <2>8, <2>9, <2>10, <2>11 DEF Sum
    <2> QED BY <2>4, <2>5, <2>6, <2>12 DEF IInv
  <1> QED BY <1>5, <1>6

\* connect() checks every string before it writes it (CHECK_STRING_LENGTH).
LEMMA ConnectKeeps ==
    ASSUME IInv, Connect \/ PutString \/ ConnectComplete
    PROVE  IInv'
  <1> "connect" \in Calls \ {"publish_P"}
    BY DEF Calls
  <1>1. CASE Connect
    <2>1. FixedEnd = 15 /\ FixedEnd \in Nat
      BY DEF FixedEnd, HeaderRoom, ConnectFixed
    <2>2. CASE FixedEnd > bufferSize
      BY <1>1, <2>1, <2>2, OverrunKeeps DEF Connect
    <2>3. CASE ~(FixedEnd > bufferSize)
      <3>1. /\ \E id \in Strings, will \in Wills, login \in Logins :
                   todo' = <<id>> \o will \o login
            /\ pc' = "strings" /\ op' = "connect" /\ digits' = <<>>
            /\ length' = 15 /\ streamed' = 0 /\ rest' = 0
            /\ bufferSize' = bufferSize
        BY <1>1, <2>1, <2>3 DEF Connect
      <3>2. PICK id \in Strings, will \in Wills, login \in Logins :
                todo' = <<id>> \o will \o login
        BY <3>1
      <3>3. id \in Nat /\ will \in Seq(Nat) /\ login \in Seq(Nat)
        <4>1. \A t \in Strings : t \in Nat
          BY Sizes
        <4>2. \A a, b \in Nat : <<a>> \in Seq(Nat) /\ <<a, b>> \in Seq(Nat)
          OBVIOUS
        <4>3. <<>> \in Seq(Nat)
          OBVIOUS
        <4>4. will \in Seq(Nat)
          <5>1. \/ will = <<>>
                \/ \E topic, message \in Strings : will = <<topic, message>>
            BY SMT DEF Wills
          <5> QED BY <5>1, <4>1, <4>2, <4>3, Zenon
        <4>5. login \in Seq(Nat)
          <5>1. \/ login = <<>>
                \/ \E user \in Strings : login = <<user>>
                \/ \E user, password \in Strings : login = <<user, password>>
            BY SMT DEF Logins
          <5> QED BY <5>1, <4>1, <4>2, <4>3, Zenon
        <4> QED BY <4>1, <4>4, <4>5
      <3>4. todo' \in Seq(Nat)
        BY <3>2, <3>3
      <3>5. bufferSize \in BufferSizes /\ bufferSize \in Nat
            /\ 15 <= bufferSize
        BY <2>1, <2>3, SizeOfBuffer
      <3>6. digits' \in Seq(SevenBits)
        BY <3>1
      <3>7. TypeOK'
        BY <3>1, <3>4, <3>5, <3>6 DEF TypeOK, Calls, Word
      <3>8. ~InHeader'
        BY <3>1 DEF InHeader
      <3>9. FitsBuffer' /\ Laying'
        BY <3>1, <3>5, <3>8 DEF FitsBuffer, Laying, HeaderRoom
      <3>10. Encoding' /\ Written' /\ Sum'
        BY <3>1, <3>8, Headerless
      <3> QED BY <3>7, <3>9, <3>10 DEF IInv
    <2> QED BY <2>2, <2>3
  <1>2. CASE PutString
    <2>1. CASE Refuse("connect")
      BY <2>1, RefuseKeeps
    <2>2. CASE ~Refuse("connect")
      <3> DEFINE h == Head(todo)
      <3>1. /\ pc = "strings" /\ op = "connect" /\ todo # <<>>
            /\ ~Overruns(h) /\ StringEnd = length + 2 + h
        BY <1>2, <2>2 DEF PutString, StringEnd
      <3>2. /\ h \in Nat /\ Tail(todo) \in Seq(Nat) /\ length \in Nat
            /\ bufferSize \in Nat
        BY <3>1, SizeOfBuffer DEF IInv, TypeOK
      <3>3. ~(length + 2 + Measured(h) > bufferSize)
        BY <3>1 DEF Overruns
      <3> HIDE DEF h
      <3>4. length + 2 + h <= bufferSize
        <4>1. /\ Measured(h) \in Nat
              /\ h < bufferSize => Measured(h) = h
              /\ ~(h < bufferSize) => Measured(h) = bufferSize
          BY <3>2, MeasuredString
        <4> QED BY <3>2, <3>3, <4>1
      <3>5. StringEnd <= bufferSize /\ StringEnd >= length
            /\ StringEnd \in Nat
        BY <3>1, <3>2, <3>4
      <3>6. /\ length' = StringEnd /\ todo' = Tail(todo)
            /\ UNCHANGED <<bufferSize, pc, op, streamed, rest, digits>>
        <4>1. ~(StringEnd > bufferSize)
          BY <3>2, <3>5
        <4> QED BY <1>2, <2>2, <4>1 DEF PutString
      <3>7. StringEnd < Word
        BY <3>2, <3>5, SizeOfBuffer
      <3>8. TypeOK'
        BY <3>2, <3>5, <3>6, <3>7 DEF IInv, TypeOK
      <3>9. ~InHeader /\ ~InHeader'
        BY <3>1, <3>6 DEF InHeader
      <3>10. digits' = <<>> /\ rest' = 0 /\ streamed' = 0
             /\ length >= HeaderRoom /\ HeaderRoom \in Nat
        BY <3>1, <3>6, <3>9 DEF IInv, Laying, HeaderRoom
      <3>11. Encoding' /\ Written' /\ Sum'
        BY <3>9, <3>10, Headerless
      <3>12. FitsBuffer' /\ Laying'
        BY <3>1, <3>2, <3>5, <3>6, <3>9, <3>10 DEF FitsBuffer, Laying
      <3> QED BY <3>8, <3>11, <3>12 DEF IInv
    <2> QED BY <2>1, <2>2
  <1>3. CASE ConnectComplete
    <2>1. pc = "strings" /\ op = "connect"
      BY <1>3 DEF ConnectComplete
    <2>2. /\ length \in Nat /\ length >= 5 /\ length <= bufferSize
          /\ bufferSize \in Nat /\ length < Word
      BY <2>1, SizeOfBuffer DEF IInv, TypeOK, Laying, HeaderRoom
    <2>3. Begin("connect", length, 0, length - 5)
      BY <1>3 DEF ConnectComplete, HeaderRoom
    <2>4. /\ length - 5 \in Nat /\ length - 5 < Power(4)
          /\ length - 5 = length - HeaderRoom + 0
      BY <2>2, Powers DEF Word, HeaderRoom
    <2>5. ~(length > bufferSize)
      BY <2>2
    <2> QED BY <2>2, <2>3, <2>4, <2>5, BeginKeeps
  <1> QED BY <1>1, <1>2, <1>3

\* publish_P() begins its header with nothing of the rest in the buffer.
LEMMA PublishPKeeps ==
    ASSUME IInv, PublishP
    PROVE  IInv'
  <1>1. PICK topic \in Strings, payload \in Payloads :
            /\ InFlash(payload)
            /\ todo' = <<topic>> /\ streamed' = payload
            /\ rest' = payload + 2 + Measured(topic)
    BY DEF PublishP
  <1>2. /\ op' = "publish_P" /\ pc' = "header" /\ length' = 1
        /\ digits' = <<>> /\ bufferSize' = bufferSize
        /\ bufferSize \in BufferSizes /\ bufferSize \in Nat
        /\ 0 < bufferSize /\ bufferSize < Word
    BY SizeOfBuffer DEF PublishP
  <1>3. topic \in Nat /\ payload \in Nat /\ payload < Word * 256
    BY <1>1, Sizes DEF InFlash
  <1>4. /\ Measured(topic) \in Nat
        /\ Measured(topic) <= topic
        /\ topic < bufferSize => Measured(topic) = topic
        /\ ~(topic < bufferSize) => Measured(topic) = bufferSize
    BY <1>2, <1>3, MeasuredString
  <1>5. Measured(topic) <= bufferSize
    BY <1>2, <1>3, <1>4
  <1>6. payload + 2 + Measured(topic) \in Nat
        /\ payload + 2 + Measured(topic) < Power(4)
    BY <1>2, <1>3, <1>4, <1>5, Powers, SMT DEF Word, Power
  <1>7. /\ todo' \in Seq(Nat) /\ Len(todo') = 1 /\ Head(todo') = topic
        /\ digits' \in Seq(SevenBits) /\ Len(digits') = 0
    BY <1>1, <1>2, <1>3
  <1>8. TypeOK'
    BY <1>1, <1>2, <1>3, <1>6, <1>7 DEF TypeOK, Calls, Word
  <1>9. FitsBuffer' /\ Laying' /\ Written'
    BY <1>2, <1>7 DEF FitsBuffer, Laying, Written, InHeader
  <1>10. Encoding'
    BY <1>1, <1>2, <1>6, NoDigitYet
  <1>11. Sum'
    <2>1. Announced' = 0 /\ Power(Len(digits')) = 1
      BY <1>2, <1>7, Powers DEF Announced, Digit, Radix
    <2>2. Measured(topic)' = Measured(topic)
      BY <1>2 DEF Measured
    <2>3. Measured(Head(todo))' = Measured(topic)
      BY <1>2, <1>7 DEF Measured
    <2>4. Promised' = 2 + Measured(topic) + payload
      BY <1>1, <1>2, <2>3 DEF Promised
    <2> QED BY <1>1, <1>3, <1>4, <1>6, <2>1, <2>4 DEF Sum
  <1> QED BY <1>8, <1>9, <1>10, <1>11 DEF IInv

\* The publishing calls.  Once publish() has found room for the packet, the
\* topic is shorter than the buffer and strnlen() gave its length.
LEMMA PublishKeeps ==
    ASSUME IInv, Publish \/ BeginPublish
    PROVE  IInv'
  <1> USE Sizes DEF HeaderRoom
  <1> bufferSize \in Nat /\ bufferSize < Word
    BY SizeOfBuffer
  <1>1. CASE Publish
    <2>1. PICK topic \in Strings, payload \in Payloads :
              IF bufferSize < HeaderRoom + 2 + Measured(topic) + payload
              THEN Refuse("publish")
              ELSE Begin("publish", HeaderRoom + 2 + topic + payload, 0,
                         2 + topic + payload)
      BY <1>1 DEF Publish
    <2>2. topic \in Nat /\ payload \in Nat
      OBVIOUS
    <2>3. CASE bufferSize < HeaderRoom + 2 + Measured(topic) + payload
      BY <2>1, <2>3, RefuseKeeps DEF Calls
    <2>4. CASE ~(bufferSize < HeaderRoom + 2 + Measured(topic) + payload)
      <3>1. 5 + 2 + topic + payload <= bufferSize
        BY <2>2, <2>4, MeasuredString
      <3>2. Begin("publish", 5 + 2 + topic + payload, 0,
                  2 + topic + payload)
        BY <2>1, <2>4
      <3>4. /\ 5 + 2 + topic + payload \in Nat
            /\ 2 + topic + payload \in Nat
            /\ 2 + topic + payload < Power(4)
            /\ 2 + topic + payload = 5 + 2 + topic + payload - 5 + 0
            /\ ~(5 + 2 + topic + payload > bufferSize)
        BY <2>2, <3>1, Powers, SMT DEF Word
      <3> QED BY <3>1, <3>2, <3>4, BeginKeeps DEF Calls
    <2> QED BY <2>3, <2>4
  <1>3. CASE BeginPublish
    <2>1. PICK topic \in Strings, payload \in Payloads :
              Begin("beginPublish", HeaderRoom + 2 + topic, payload,
                    AsWord(payload + 2 + topic))
      BY <1>3 DEF BeginPublish
    <2>2. topic \in Nat /\ payload \in Nat
      OBVIOUS
    <2>3. /\ AsWord(payload + 2 + topic) \in Nat
          /\ AsWord(payload + 2 + topic) < Word
      <3>1. payload + 2 + topic \in Nat
        BY <2>2
      <3> QED BY <3>1, Truncated
    <2>4. Begin("beginPublish", 7 + topic, payload,
                AsWord(payload + 2 + topic))
      BY <2>1, <2>2
    <2>5. /\ 7 + topic \in Nat
          /\ 7 + topic - 5 + payload = payload + 2 + topic
          /\ AsWord(payload + 2 + topic) \in Nat
          /\ AsWord(payload + 2 + topic) < Power(4)
      <3> DEFINE w == AsWord(payload + 2 + topic)
      <3>1. w \in Nat /\ w < Word
        BY <2>3, Zenon
      <3> HIDE DEF w
      <3>2. w < Power(4)
        BY <3>1, Powers, SMT DEF Word
      <3>3. 7 + topic \in Nat /\ 7 + topic - 5 + payload = payload + 2 + topic
        BY <2>2
      <3> QED BY <3>1, <3>2, <3>3 DEF w
    <2> QED BY <2>2, <2>4, <2>5, BeginKeeps DEF Calls
  <1> QED BY <1>1, <1>3

\* subscribe() and unsubscribe(): the nine bytes they ask for are one less than
\* what subscribe() writes.
LEMMA SubscribeKeeps ==
    ASSUME IInv, Subscribe \/ Unsubscribe
    PROVE  IInv'
  <1> USE Sizes DEF HeaderRoom
  <1> bufferSize \in Nat /\ bufferSize < Word
    BY SizeOfBuffer
  <1>1. CASE Subscribe
    <2>1. PICK topic \in Strings :
              IF TooLong(topic)
              THEN Refuse("subscribe")
              ELSE Begin("subscribe", HeaderRoom + 2 + 2 + topic + 1, 0,
                         2 + 2 + topic + 1)
      BY <1>1 DEF Subscribe
    <2>2. CASE TooLong(topic)
      BY <2>1, <2>2, RefuseKeeps DEF Calls
    <2>3. CASE ~TooLong(topic)
      <3>1. topic \in Nat /\ 9 + topic <= bufferSize
        BY <2>3, MeasuredString DEF TooLong
      <3>2. Begin("subscribe", 10 + topic, 0, 5 + topic)
        BY <2>1, <2>3, <3>1
      <3>3. /\ 10 + topic \in Nat /\ 5 + topic \in Nat
            /\ 5 + topic < Power(4)
            /\ 5 + topic = 10 + topic - 5 + 0
            /\ 10 + topic > bufferSize => 10 + topic = bufferSize + 1
        BY <3>1, Powers, SMT DEF Word
      <3> QED BY <3>1, <3>2, <3>3, BeginKeeps DEF Calls
    <2> QED BY <2>2, <2>3
  <1>2. CASE Unsubscribe
    <2>1. PICK topic \in Strings :
              IF TooLong(topic)
              THEN Refuse("unsubscribe")
              ELSE Begin("unsubscribe", HeaderRoom + 2 + 2 + topic, 0,
                         2 + 2 + topic)
      BY <1>2 DEF Unsubscribe
    <2>2. CASE TooLong(topic)
      BY <2>1, <2>2, RefuseKeeps DEF Calls
    <2>3. CASE ~TooLong(topic)
      <3>1. topic \in Nat /\ 9 + topic <= bufferSize
        BY <2>3, MeasuredString DEF TooLong
      <3>2. Begin("unsubscribe", 9 + topic, 0, 4 + topic)
        BY <2>1, <2>3, <3>1
      <3>3. /\ 9 + topic \in Nat /\ 4 + topic \in Nat
            /\ 4 + topic < Power(4)
            /\ 4 + topic = 9 + topic - 5 + 0
            /\ ~(9 + topic > bufferSize)
        BY <3>1, Powers, SMT DEF Word
      <3> QED BY <3>1, <3>2, <3>3, BeginKeeps DEF Calls
    <2> QED BY <2>2, <2>3
  <1> QED BY <1>1, <1>2

LEMMA DoneKeeps ==
    ASSUME IInv, Done
    PROVE  IInv'
  <1>1. /\ pc' = "idle" /\ op' = "none" /\ todo' = <<>> /\ length' = 0
        /\ streamed' = 0 /\ rest' = 0 /\ digits' = <<>>
        /\ bufferSize' = bufferSize /\ bufferSize \in BufferSizes
        /\ bufferSize \in Nat
    BY SizeOfBuffer DEF Done
  <1>2. todo' \in Seq(Nat) /\ digits' \in Seq(SevenBits)
    BY <1>1
  <1>3. TypeOK'
    BY <1>1, <1>2 DEF TypeOK, Word
  <1>4. ~InHeader'
    BY <1>1 DEF InHeader
  <1>5. FitsBuffer' /\ Laying'
    BY <1>1, <1>4 DEF FitsBuffer, Laying
  <1>6. Encoding' /\ Written' /\ Sum'
    BY <1>1, <1>4, Headerless
  <1> QED BY <1>3, <1>5, <1>6 DEF IInv

\* No call is under way while the buffer changes its size.
LEMMA SetBufferSizeKeeps ==
    ASSUME IInv, SetBufferSize
    PROVE  IInv'
  <1>1. /\ pc = "idle" /\ bufferSize' \in BufferSizes
        /\ UNCHANGED <<pc, op, todo, length, streamed, rest, digits>>
    BY DEF SetBufferSize
  <1>2. ~InHeader /\ ~InHeader' /\ bufferSize' \in Nat
    BY <1>1, Sizes DEF InHeader
  <1>3. length = 0
    BY <1>1 DEF IInv, Laying
  <1>4. TypeOK'
    BY <1>1 DEF IInv, TypeOK
  <1>8. length' = 0 /\ ~(length' > bufferSize') /\ length' <= bufferSize'
    BY <1>1, <1>2, <1>3
  <1>9. digits = <<>> /\ rest = 0
    BY <1>2 DEF IInv, Laying
  <1>5. FitsBuffer' /\ Laying'
    BY <1>1, <1>8, <1>9 DEF FitsBuffer, Laying
  <1>6. Encoding' /\ Written'
    BY <1>1 DEF IInv, Encoding, Written
  <1>7. Sum'
    BY <1>2 DEF Sum
  <1> QED BY <1>4, <1>5, <1>6, <1>7 DEF IInv

LEMMA Unchanged ==
    ASSUME IInv, UNCHANGED vars
    PROVE  IInv'
  <1>1. UNCHANGED <<Announced, Promised, InHeader>>
    BY Zenon DEF vars, Announced, Digit, Promised, Body, Header, Measured,
                 InHeader
  <1>2. TypeOK' /\ FitsBuffer' /\ Laying'
    BY <1>1, Zenon DEF vars, IInv, TypeOK, FitsBuffer, Laying
  <1>3. Encoding' /\ Written' /\ Sum'
    BY <1>1, Zenon DEF vars, IInv, Encoding, Written, Sum
  <1> QED BY <1>2, <1>3, Zenon DEF IInv

LEMMA StepKeeps ==
    ASSUME IInv, [Next]_vars
    PROVE  IInv'
  BY PutDigitKeeps, PutDigitPKeeps, PutTopicKeeps, ConnectKeeps, PublishKeeps,
     PublishPKeeps, SubscribeKeeps, DoneKeeps, SetBufferSizeKeeps, Unchanged
  DEF Next

\* The inductive invariant: positions in the buffer, and what the digits of
\* the remaining length stand for (all the calls that write a packet).
THEOREM Invariance == Spec => []IInv
  BY Startup, StepKeeps, PTL DEF Spec
-----------------------------------------------------------------------------
\* Positions keep within uint16_t and digits within seven bits, in every call.
THEOREM TypeCorrect == Spec => []TypeOK
  <1>1. IInv => TypeOK
    BY DEF IInv
  <1> QED BY <1>1, Invariance, PTL

\* publish() and unsubscribe() never write past the buffer, connect() only with
\* the fifteen bytes that come before its strings, and subscribe() by one byte
\* at most, for any bufferSize and any strings (the checks at
\* PubSubClient.cpp:235, 450, 617, 642; publish_P() and beginPublish() have
\* none).
THEOREM StaysInBuffer == Spec => []FitsBuffer
  <1>1. IInv => FitsBuffer
    BY DEF IInv
  <1> QED BY <1>1, Invariance, PTL

\* buildHeader() never needs more room than MQTT_MAX_HEADER_SIZE.
THEOREM HeaderHasRoom == Spec => []HeaderFits
  <1>1. IInv => HeaderFits
    BY DEF IInv, TypeOK, Encoding, HeaderFits, HeaderRoom
  <1> QED BY <1>1, Invariance, PTL

\* With no rest to encode, the digits are the sum.
LEMMA WholeSum ==
    ASSUME IInv, rest = 0
    PROVE  Announced + rest * Power(Len(digits)) = Announced
  <1>1. digits \in Seq(SevenBits) /\ Len(digits) <= 4
    BY DEF IInv, TypeOK, Encoding
  <1>2. /\ Len(digits) \in 0 .. 4
        /\ \A i \in 1 .. Len(digits) : digits[i] \in SevenBits
    <2>1. /\ Len(digits) \in Nat
          /\ \A i \in 1 .. Len(digits) : digits[i] \in SevenBits
      BY <1>1, Elements, Zenon
    <2>2. \A n \in Nat : n <= 4 => n \in 0 .. 4
      OBVIOUS
    <2> QED BY <1>1, <2>1, <2>2, Zenon
  <1>3. \A n \in 0 .. 4 : 0 * Power(n) = 0
    BY SMT DEF Power
  <1>4. rest * Power(Len(digits)) = 0
    BY <1>2, <1>3
  <1>5. \A i \in 1 .. Len(digits) : digits[i] \in Nat
    BY <1>2 DEF SevenBits
  <1>6. \A i \in 1 .. 4 : Digit(i) \in Nat
    BY <1>2, <1>5 DEF Digit
  <1>7. Announced \in Nat
    BY <1>6, SMT DEF Announced, Radix
  <1> QED BY <1>4, <1>7

\* Every packet announces exactly the bytes that follow, a streamed one modulo
\* 2^16 whatever its payload (buildHeader() at PubSubClient.cpp:557).
THEOREM TrueLength == Spec => []LengthAnnounced
  <1>1. ASSUME IInv, pc = "sent"
        PROVE  Announced = Promised
    <2>1. rest = 0 /\ Announced + rest * Power(Len(digits)) = Promised
      BY <1>1 DEF IInv, Written, Sum, InHeader
    <2> QED BY <1>1, <2>1, WholeSum
  <1>2. IInv => LengthAnnounced
    BY <1>1 DEF LengthAnnounced, Promised, AsWord
  <1> QED BY <1>2, Invariance, PTL
=============================================================================
