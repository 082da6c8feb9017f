---------------------------- MODULE PubSubClient ----------------------------
(***************************************************************************)
(* The MQTT client library (PubSubClient 2.8) that every MQTT sketch links.*)
(*                                                                         *)
(* The sketch is single threaded: it is either outside the library         *)
(* (pc = "idle"), inside connect(), inside loop(), or in the callback that *)
(* loop() invokes.  connect() and loop() block while they wait for bytes,  *)
(* and meanwhile the clock ticks, the broker sends and the socket may die. *)
(*                                                                         *)
(* A packet travels as two cells, its first byte (the packet's kind) and   *)
(* the rest of it, so that a packet can be half arrived and a reader can   *)
(* lose its place in the byte stream.                                      *)
(***************************************************************************)
EXTENDS Millis, Sequences

CONSTANTS
    KeepAlive,       \* ticks of silence after which loop() pings (keepAlive)
    SocketTimeout,   \* ticks readByte() and connect() wait for a byte
    MaxGap,          \* ticks from the start of one connect()/loop() to the next
    IdSize,          \* message identifiers wrap at IdSize (65536)
    Inbound,         \* the kinds of packet the broker sends once it accepted
    MaxRx            \* bound: cells waiting in the socket

Kinds == {"QOS0", "QOS1",   \* PUBLISH that fits the buffer
          "OVERSIZE",       \* PUBLISH larger than the buffer
          "PINGREQ", "PINGRESP",
          "ACK",            \* SUBACK, UNSUBACK, anything loop() ignores
          "BADLEN"}         \* a remaining length of more than four bytes

\* What the broker may send in answer to a CONNECT.
Greetings == {"CONNACK", "REFUSAL", "OVERSIZE", "BADLEN"}

ASSUME ConfigAssumption ==
    /\ KeepAlive \in Nat \ {0}
    /\ SocketTimeout \in Nat \ {0}
    /\ MaxGap \in Nat /\ 2 * SocketTimeout <= MaxGap
    /\ KeepAlive + MaxGap < ClockSize
    /\ IdSize \in Nat /\ IdSize > 2
    /\ Inbound \subseteq Kinds
    /\ MaxRx \in Nat

VARIABLES
    now,             \* the reading of millis()
    state,           \* _state
    sock,            \* the socket: "open" | "closed"
    rx,              \* cells that arrived and are not read yet
    owed,            \* the broker still owes the rest of its last packet
    lastIn,          \* lastInActivity
    lastOut,         \* lastOutActivity
    pingOutstanding,
    nextMsgId,
    callback,        \* a callback is set
    pc,              \* where the sketch is in the library
    t,               \* loop()'s local t
    waitFrom,        \* readByte()'s previousMillis
    msg              \* the kind of the packet being read or delivered

\* History: what the broker saw, and ages the code's clocks approximate.
VARIABLES
    hello,           \* the broker's answer on this socket
    connects,        \* CONNECT packets written to this socket
    unanswered,      \* the broker has a PINGREQ to answer
    stalled,         \* a read on this socket gave up halfway
    sinceCall,       \* ticks since connect()/loop() last started
    quiet,           \* ticks since loop() last accepted a packet
    silence,         \* ticks since the client last wrote
    pingAge          \* ticks since the outstanding PINGREQ, up to KeepAlive+1

client  == <<state, lastIn, lastOut, pingOutstanding, nextMsgId,
             callback>>
calls   == <<pc, t, waitFrom, msg>>
wire    == <<sock, rx, owed>>
broker  == <<hello, connects, unanswered, stalled>>
ages    == <<sinceCall, quiet, silence, pingAge>>
vars    == <<now, client, calls, wire, broker, ages>>

Disconnected == {"DISCONNECTED", "CONNECTION_LOST", "CONNECTION_TIMEOUT",
                 "CONNECT_FAILED", "REFUSED"}
ReadingLoop    == {"body", "junk"}
ReadingConnect == {"connack", "connbody"}

\* What connected() answers.
Online == sock = "open" /\ state = "CONNECTED"

\* connected() also records that it found the socket dead.
Noticed == IF sock = "closed" /\ state = "CONNECTED" THEN "CONNECTION_LOST"
                                                     ELSE state
-----------------------------------------------------------------------------
Init ==
    /\ now \in Time
    /\ state = "DISCONNECTED" /\ sock = "closed" /\ rx = <<>> /\ owed = FALSE
    /\ lastIn = 0 /\ lastOut = 0 /\ pingOutstanding = FALSE /\ nextMsgId = 0
    /\ callback \in BOOLEAN
    /\ pc = "idle" /\ t = 0 /\ waitFrom = 0 /\ msg = "none"
    /\ hello = "none" /\ connects = 0 /\ unanswered = FALSE /\ stalled = FALSE
    /\ sinceCall = 0 /\ quiet = 0 /\ silence = 0 /\ pingAge = 0

\* _client->stop(): the socket is gone, with everything in it.
Stop ==
    /\ sock' = "closed" /\ rx' = <<>> /\ owed' = FALSE
    /\ hello' = "none" /\ connects' = 0 /\ unanswered' = FALSE
    /\ stalled' = FALSE

\* Back in the sketch; the library's locals are dead.
Return == pc' = "idle" /\ t' = 0 /\ waitFrom' = 0 /\ msg' = "none"

\* A packet written now: the broker hears from the client.
Heard == silence' = 0

\* Bug: a PINGREQ does not restart the inbound period.
StampOut == lastOut' = now /\ UNCHANGED lastIn

\* lastInActivity = lastOutActivity = millis()
StampBoth == lastIn' = now /\ lastOut' = now
-----------------------------------------------------------------------------
(* connect() *)

ConnectBegins ==
    /\ pc = "idle"
    /\ ~Online

TcpFails ==
    /\ ConnectBegins
    /\ sock = "closed"
    /\ state' = "CONNECT_FAILED"
    /\ UNCHANGED <<now, callback, lastIn, lastOut, pingOutstanding, nextMsgId,
                   calls, wire, broker, ages>>

\* Bug: the attempt is abandoned and its socket stays open.
TooLongKeepsSocket ==
    /\ ConnectBegins
    /\ state' = Noticed /\ nextMsgId' = 1 /\ sock' = "open"
    /\ UNCHANGED <<now, callback, lastIn, lastOut, pingOutstanding, calls, rx,
                   owed, broker, ages>>

\* CHECK_STRING_LENGTH: an identifier or credential overruns the buffer.
CredentialsTooLong ==
    /\ ConnectBegins
    /\ state' = Noticed
    /\ nextMsgId' = 1
    /\ Stop
    /\ UNCHANGED <<now, callback, lastIn, lastOut, pingOutstanding, calls,
                   ages>>

\* CONNECT is written, on the socket at hand if it is still open.
ConnectWritten ==
    /\ ConnectBegins
    /\ state' = Noticed
    /\ nextMsgId' = 1
    /\ StampBoth
    /\ sock' = "open" /\ connects' = connects + 1
    /\ pc' = "connack" /\ Heard /\ sinceCall' = 0
    /\ UNCHANGED <<now, callback, pingOutstanding, rx, owed, t, waitFrom, msg,
                   hello, unanswered, stalled, quiet, pingAge>>

\* Bug: only the loss of the socket ends the wait.
ConnackWaitsForLoss ==
    sock = "closed" /\ Elapsed(now, lastIn) >= SocketTimeout

ConnackWaited == Elapsed(now, lastIn) >= SocketTimeout

\* The wait for the first byte of the answer looks at available() only: it
\* does not notice that the socket died.
ConnackTimeout ==
    /\ pc = "connack"
    /\ rx = <<>>
    /\ ConnackWaited
    /\ state' = "CONNECTION_TIMEOUT"
    /\ Stop /\ Return
    /\ UNCHANGED <<now, callback, lastIn, lastOut, pingOutstanding, nextMsgId,
                   ages>>

ConnackHeader ==
    /\ pc = "connack"
    /\ rx # <<>>
    /\ pc' = "connbody" /\ msg' = Head(rx) /\ rx' = Tail(rx)
    /\ waitFrom' = now
    /\ UNCHANGED <<now, client, t, sock, owed, broker, ages>>

\* Bugs: the return code is not looked at; the last connection's PINGREQ stays
\* outstanding.
AnyReturnCode == msg \in {"CONNACK", "REFUSAL"}
OldSession == lastIn' = now /\ UNCHANGED pingOutstanding

ReturnCodeOK == msg = "CONNACK"
NewSession   == lastIn' = now /\ pingOutstanding' = FALSE

Accepted ==
    /\ ReturnCodeOK
    /\ state' = "CONNECTED"
    /\ NewSession
    /\ rx' = Tail(rx)
    /\ quiet' = 0 /\ pingAge' = 0
    /\ UNCHANGED <<sock, owed, broker>>

NotAccepted ==
    /\ ~ReturnCodeOK
    /\ state' = CASE msg = "REFUSAL" -> "REFUSED"
                  [] msg = "BADLEN"  -> "DISCONNECTED"
                  [] OTHER           -> state
    /\ Stop
    /\ UNCHANGED <<lastIn, pingOutstanding, quiet, pingAge>>

ConnackRead ==
    /\ pc = "connbody"
    /\ rx # <<>>
    /\ Accepted \/ NotAccepted
    /\ Return
    /\ UNCHANGED <<now, callback, lastOut, nextMsgId, sinceCall, silence>>

ConnackStalls ==
    /\ pc = "connbody"
    /\ rx = <<>>
    /\ Elapsed(now, waitFrom) >= SocketTimeout
    /\ Stop /\ Return
    /\ UNCHANGED <<now, client, ages>>
-----------------------------------------------------------------------------
(* loop() *)

\* Bugs: the times are compared, not their difference; only the outbound (the
\* inbound) period counts.
OverdueUnwrapped ==
    \/ now > lastIn + KeepAlive
    \/ now > lastOut + KeepAlive
OverdueOut == Elapsed(now, lastOut) > KeepAlive
OverdueIn  == Elapsed(now, lastIn) > KeepAlive

Overdue ==
    \/ Elapsed(now, lastIn) > KeepAlive
    \/ Elapsed(now, lastOut) > KeepAlive

\* connected(), which every call of the interface begins with, when it finds
\* the socket dead.  loop(), publish() and subscribe() then return false.
NoticeLoss ==
    /\ pc \in {"idle", "callback"}
    /\ sock = "closed" /\ state = "CONNECTED"
    /\ state' = Noticed
    /\ UNCHANGED <<now, callback, lastIn, lastOut, pingOutstanding, nextMsgId,
                   calls, wire, broker, ages>>

KeepAliveTimeout ==
    /\ pc = "idle" /\ Online
    /\ Overdue /\ pingOutstanding
    /\ state' = "CONNECTION_TIMEOUT"
    /\ Stop
    /\ UNCHANGED <<now, callback, lastIn, lastOut, pingOutstanding, nextMsgId,
                   calls, ages>>

Ping ==
    /\ Overdue
    /\ ~pingOutstanding
    /\ StampBoth /\ pingOutstanding' = TRUE
    /\ unanswered' = TRUE /\ pingAge' = 0 /\ Heard

NoPing ==
    /\ ~Overdue
    /\ UNCHANGED <<lastIn, lastOut, pingOutstanding, unanswered, pingAge,
                   silence>>

\* readPacket() takes the first byte as a packet's kind.  Out of step with the
\* stream, that byte is a stray one and may look like any packet.
NextHeader ==
    \/ /\ rx = <<>>
       /\ UNCHANGED <<calls, rx>>
    \/ /\ rx # <<>>
       /\ t' = now /\ waitFrom' = now /\ rx' = Tail(rx)
       /\ \/ Head(rx) # "REST" /\ pc' = "body" /\ msg' = Head(rx)
          \/ Head(rx) = "REST" /\ pc' = "junk" /\ msg' \in Kinds

Loop ==
    /\ pc = "idle" /\ Online
    /\ Ping \/ NoPing
    /\ NextHeader
    /\ sinceCall' = 0
    /\ UNCHANGED <<now, callback, state, nextMsgId, sock, owed, hello,
                   connects, stalled, quiet>>

\* Bug: what does not fit the buffer is left in the stream.
RestUnread ==
    /\ pc \in ReadingLoop /\ rx # <<>>
    /\ rx' = IF msg = "OVERSIZE" THEN rx ELSE Tail(rx)

\* The remaining bytes: a junk packet may need none, or swallow the next ones.
RestRead ==
    \/ pc \in ReadingLoop /\ rx # <<>> /\ rx' = Tail(rx)
    \/ pc = "junk" /\ UNCHANGED rx

BadLength ==
    /\ pc \in ReadingLoop
    /\ pc = "junk" \/ rx # <<>>
    /\ msg = "BADLEN"
    /\ state' = "DISCONNECTED"
    /\ Stop /\ Return
    /\ UNCHANGED <<now, callback, lastIn, lastOut, pingOutstanding, nextMsgId,
                   ages>>

\* A packet that overran the buffer is dropped and is no sign of life.
Oversized ==
    /\ RestRead
    /\ msg = "OVERSIZE"
    /\ state' = Noticed
    /\ Return
    /\ UNCHANGED <<now, callback, lastIn, lastOut, pingOutstanding, nextMsgId,
                   sock, owed, broker, ages>>

\* A PUBLISH with nobody to give it to, or a packet loop() has no use for.
Ignored ==
    /\ \/ msg \in {"QOS0", "QOS1"} /\ ~callback
       \/ msg \in {"ACK", "CONNACK", "REFUSAL"}
    /\ Return
    /\ UNCHANGED <<pingOutstanding, silence>>

Deliver ==
    /\ msg \in {"QOS0", "QOS1"} /\ callback
    /\ pc' = "callback"
    /\ UNCHANGED <<t, waitFrom, msg, pingOutstanding, silence>>

\* PINGRESP is written without touching lastOutActivity.
AnswerPing ==
    /\ msg = "PINGREQ"
    /\ silence' = IF sock = "open" THEN 0 ELSE silence
    /\ Return
    /\ UNCHANGED pingOutstanding

PingAnswered ==
    /\ msg = "PINGRESP"
    /\ pingOutstanding' = FALSE
    /\ Return
    /\ UNCHANGED silence

Received ==
    /\ RestRead
    /\ lastIn' = t
    /\ Ignored \/ Deliver \/ AnswerPing \/ PingAnswered
    /\ quiet' = 0
    /\ UNCHANGED <<now, callback, state, lastOut, nextMsgId, sock, owed,
                   broker, sinceCall, pingAge>>

\* readByte() gives up: readPacket() returns 0 and loop() stays connected,
\* with part of a packet gone from the stream.
ReadTimeout ==
    /\ pc \in ReadingLoop
    /\ rx = <<>>
    /\ Elapsed(now, waitFrom) >= SocketTimeout
    /\ state' = Noticed
    /\ stalled' = (sock = "open")
    /\ Return
    /\ UNCHANGED <<now, callback, lastIn, lastOut, pingOutstanding, nextMsgId,
                   wire, hello, connects, unanswered, ages>>

\* The callback returned.  A QoS 1 message is acknowledged, and the time noted
\* for that write is the time loop() began.
CallbackReturns ==
    /\ pc = "callback"
    /\ \/ /\ msg = "QOS1"
          /\ lastOut' = t
          /\ silence' = IF sock = "open" THEN 0 ELSE silence
       \/ /\ msg # "QOS1"
          /\ UNCHANGED <<lastOut, silence>>
    /\ Return
    /\ UNCHANGED <<now, callback, state, lastIn, pingOutstanding, nextMsgId,
                   wire, broker, sinceCall, quiet, pingAge>>
-----------------------------------------------------------------------------
(* The rest of the interface, callable from the sketch or its callback. *)

InSketch == pc \in {"idle", "callback"}

\* publish(), publish_P() and beginPublish() of a message that fits.
Publish ==
    /\ InSketch /\ Online
    /\ lastOut' = now /\ Heard
    /\ UNCHANGED <<now, callback, state, lastIn, pingOutstanding, nextMsgId,
                   calls, wire, broker, sinceCall, quiet, pingAge>>

\* Bugs: the identifier wraps to zero; it leaves its range.
IdAfterZero(n) == (n + 1) % IdSize
IdAfterWide(n) == IF n = IdSize THEN 1 ELSE n + 1

\* The identifier after n: zero is not a valid one.
IdAfter(n) == IF n = IdSize - 1 THEN 1 ELSE n + 1

\* subscribe() and unsubscribe() differ in the packet they write only.
Subscribe ==
    /\ InSketch /\ Online
    /\ nextMsgId' = IdAfter(nextMsgId)
    /\ lastOut' = now /\ Heard
    /\ UNCHANGED <<now, callback, state, lastIn, pingOutstanding, calls, wire,
                   broker, sinceCall, quiet, pingAge>>

SetCallback ==
    /\ pc = "idle" /\ ~callback
    /\ callback' = TRUE
    /\ UNCHANGED <<now, state, lastIn, lastOut, pingOutstanding, nextMsgId,
                   calls, wire, broker, ages>>

Disconnect ==
    /\ InSketch
    /\ state' = "DISCONNECTED"
    /\ StampBoth
    /\ Stop
    /\ UNCHANGED <<now, callback, pingOutstanding, nextMsgId, calls, ages>>
-----------------------------------------------------------------------------
(* The broker, the network and the clock. *)

MaySend(k) ==
    /\ sock = "open" /\ ~owed
    /\ \/ hello = "none" /\ connects > 0 /\ k \in Greetings
       \/ hello = "CONNACK" /\ k \in Inbound
    /\ k = "PINGRESP" => unanswered

Sends(k, cells) ==
    /\ MaySend(k)
    /\ Len(rx) + Len(cells) <= MaxRx
    /\ rx' = rx \o cells
    /\ hello' = IF hello = "none" THEN k ELSE hello
    /\ unanswered' = (unanswered /\ k # "PINGRESP")
    /\ UNCHANGED <<now, client, calls, sock, connects, stalled, ages>>

BrokerSends ==
    \E k \in Greetings \cup Inbound :
        \/ Sends(k, <<k, "REST">>) /\ UNCHANGED owed
        \/ Sends(k, <<k>>) /\ owed' = TRUE

BrokerFinishes ==
    /\ owed
    /\ Len(rx) < MaxRx
    /\ rx' = Append(rx, "REST")
    /\ owed' = FALSE
    /\ UNCHANGED <<now, client, calls, sock, broker, ages>>

\* A byte of the packet being read arrives and more are missing: the wait for
\* the next one starts over.  MaxGap leaves room for that wait.
Trickles ==
    /\ pc \in ReadingLoop \cup {"connbody"}
    /\ owed /\ rx = <<>>
    /\ waitFrom # now
    /\ sinceCall + SocketTimeout <= MaxGap
    /\ waitFrom' = now
    /\ UNCHANGED <<now, client, pc, t, msg, wire, broker, ages>>

\* The connection breaks; what was not read is lost.
SocketDies ==
    /\ sock = "open"
    /\ Stop
    /\ UNCHANGED <<now, client, calls, ages>>

\* readByte() and connect() poll: they give up as soon as the time is over.
WaitOver ==
    \/ pc = "connack" /\ ConnackWaited
    \/ /\ pc \in ReadingLoop \cup {"connbody"}
       /\ Elapsed(now, waitFrom) >= SocketTimeout

InCall == pc # "idle" \/ Online

Tick ==
    /\ ~WaitOver
    /\ InCall => sinceCall < MaxGap
    /\ now' = NextReading(now)
    /\ sinceCall' = IF InCall THEN sinceCall + 1 ELSE 0
    /\ quiet'     = IF Online THEN quiet + 1 ELSE 0
    /\ silence'   = IF InCall THEN silence + 1 ELSE 0
    /\ pingAge'   = IF Online /\ pingAge <= KeepAlive THEN pingAge + 1
                                                      ELSE pingAge
    /\ UNCHANGED <<client, calls, wire, broker>>

ConnectSteps ==
    \/ TcpFails \/ CredentialsTooLong \/ ConnectWritten
    \/ ConnackTimeout \/ ConnackHeader \/ ConnackRead \/ ConnackStalls

LoopSteps ==
    \/ KeepAliveTimeout \/ Loop \/ BadLength \/ Oversized \/ Received
    \/ ReadTimeout \/ CallbackReturns

Environment == BrokerSends \/ BrokerFinishes \/ Trickles \/ SocketDies \/ Tick

Next ==
    \/ ConnectSteps \/ LoopSteps
    \/ NoticeLoss \/ Publish \/ Subscribe \/ SetCallback \/ Disconnect
    \/ Environment

Spec == Init /\ [][Next]_vars
-----------------------------------------------------------------------------
\* Every variable keeps to the values the code can give it.
Cells == Kinds \cup Greetings \cup {"REST"}

ClocksOK ==
    /\ now \in Time /\ lastIn \in Time /\ lastOut \in Time
    /\ t \in Time /\ waitFrom \in Time

StreamOK == rx \in Seq(Cells) /\ msg \in Cells \cup {"none"}

StatusOK ==
    /\ state \in Disconnected \cup {"CONNECTED"}
    /\ sock \in {"open", "closed"}
    /\ nextMsgId \in 0 .. IdSize - 1
    /\ pc \in {"idle", "callback"} \cup ReadingLoop \cup ReadingConnect
    /\ hello \in Greetings \cup {"none"}

CountsOK ==
    /\ connects \in Nat
    /\ sinceCall \in Nat /\ quiet \in Nat /\ silence \in Nat
    /\ pingAge \in Nat

FlagsOK ==
    /\ owed \in BOOLEAN /\ pingOutstanding \in BOOLEAN
    /\ callback \in BOOLEAN
    /\ unanswered \in BOOLEAN /\ stalled \in BOOLEAN

TypeOK == ClocksOK /\ StreamOK /\ StatusOK /\ CountsOK /\ FlagsOK

\* A client takes itself for connected only on a socket where the broker
\* accepted it (connect() checks the return code in CONNACK).
ConnectedOnlyAfterConnack == Online => hello = "CONNACK"

\* Outside the library an open socket is a connected one, so that connect()
\* never sends a second CONNECT down a socket (every failure of connect()
\* closes it): a late CONNACK cannot answer the wrong attempt.
NoHalfOpenSocket ==
    /\ pc = "idle" /\ sock = "open" => state = "CONNECTED"
    /\ connects <= 1

\* While connected the broker hears from the client every KeepAlive + MaxGap
\* ticks, whatever the callback, slow reads and PUBACKs do to lastOutActivity.
BrokerNotStarved == Online => silence <= KeepAlive + MaxGap

\* A connection on which nothing usable arrives is given up in bounded time:
\* one period until the PINGREQ, one for its answer.
HungDetected == Online => quiet <= 2 * (KeepAlive + MaxGap)

\* In step with the stream, the client waits for a PINGRESP exactly while the
\* broker has a PINGREQ to answer or its answer is on the way.
AnswerOnTheWay ==
    \/ unanswered
    \/ msg = "PINGRESP"
    \/ \E i \in 1 .. Len(rx) : rx[i] = "PINGRESP"

PingAccounting == Online /\ ~stalled => (pingOutstanding <=> AnswerOnTheWay)

\* Unless a read gave up halfway, every return from readPacket() leaves the
\* stream at the first byte of a packet.
AtPacket == IF rx = <<>> THEN ~owed ELSE Head(rx) # "REST"
InStep   == InSketch /\ sock = "open" /\ ~stalled => AtPacket

\* Identifier 0, which MQTT forbids, is never the one of a request, however
\* many requests a connection makes (subscribe(), unsubscribe()).
IdsValid == Online => nextMsgId # 0

\* loop() declares a timeout only when the broker had more than KeepAlive to
\* answer the PINGREQ.
GivesUp == state = "CONNECTED" /\ state' = "CONNECTION_TIMEOUT"
PatientWithBroker == [][GivesUp => pingAge > KeepAlive]_vars

\* The client keeps the promises of MqttLink: up only when the broker accepted
\* this very link, and up only while both sides hear from each other in time.
LinkState == IF Online THEN "up"
             ELSE IF pc \in ReadingConnect THEN "dialing" ELSE "down"

Link == INSTANCE MqttLink WITH
            Contact  <- KeepAlive + MaxGap,
            Patience <- 2 * (KeepAlive + MaxGap),
            link     <- LinkState,
            agreed   <- sock = "open" /\ hello = "CONNACK",
            silence  <- IF LinkState = "down" THEN 0 ELSE silence,
            quiet    <- IF LinkState = "up" THEN quiet ELSE 0

ImplementsLink == Link!Spec

\* connect(), loop() and the callback return to the sketch: no wait for the
\* broker lasts for ever.
CallsReturn == pc # "idle" ~> pc = "idle"

\* The processor and the clock run on.  Nothing is asked of the broker, the
\* network or the sketch.
CallProgress == ConnackTimeout \/ ConnackHeader \/ ConnackRead \/ ConnackStalls
                \/ BadLength \/ Oversized \/ Received \/ ReadTimeout
                \/ CallbackReturns

FairSpec == Spec /\ WF_vars(CallProgress) /\ WF_vars(Tick)
=============================================================================
