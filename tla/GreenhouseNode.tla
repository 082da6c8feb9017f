--------------------------- MODULE GreenhouseNode ---------------------------
(***************************************************************************)
(* The greenhouse node, proyectofuncionando.ino: boards that measure with  *)
(* a DHT11 and publish to the local broker, all under the one client id    *)
(* that is written in the sketch.  The broker has one session for that id, *)
(* so a board that connects throws the others off.                         *)
(*                                                                         *)
(* The client library is taken for what MqttLink promises: connect() is    *)
(* true once the broker agreed, and a dead link does not stay up for ever. *)
(***************************************************************************)
EXTENDS DHTesp

CONSTANTS
    Boards,         \* boards with this sketch
    None,           \* no board
    Period,         \* delay(getMinimumSamplingPeriod())
    Gap,            \* bound: ticks from one getter's millis() to the next's
    Pulse,          \* pulseIn() waits at most so long for the echo
    Pause,          \* delay(5000) at the end of a turn
    Retry,          \* delay(8000) after a connect() that failed
    MaxFaults       \* bound: readings, writes and links that fail, restarts

ASSUME NodeAssumption ==
    /\ None \notin Boards
    /\ Period \in Nat /\ MinInterval <= Period
    /\ Gap \in Nat /\ Gap < MinInterval
    /\ Pulse \in Nat /\ Pause \in Nat /\ Retry \in Nat /\ MaxFaults \in Nat

VARIABLES
    now,            \* the reading of millis()
    pc,             \* "top" of loop(), "subscribe", "settle", "humid", "pulse"
    wait,           \* ticks the board still sits in a delay()
    link,           \* clientLocal.connected()
    sensor,         \* dht
    temperatura,    \* what getTemperature() returned, NaN outside its scope
    session,        \* the board whose connection the broker serves
    subscribed,     \* this session is subscribed to inTopic
    missed,         \* history: the SUBSCRIBE of this session was not written
    rest,           \* history: ticks since a bus transaction, to MinInterval
    age,            \* history: of the driver's stamp, to ClockSize
    away,           \* history: when the turn measured, age was ClockSize
    faults

broker  == <<session, subscribed, missed>>
history == <<rest, age, away>>
vars    == <<now, pc, wait, link, sensor, temperatura, broker, history, faults>>

\* Board b goes on at place p, after so many ticks.
Goto(b, p, ticks) ==
    pc' = [pc EXCEPT ![b] = p] /\ wait' = [wait EXCEPT ![b] = ticks]

At(b, p) == pc[b] = p /\ wait[b] = 0

Fault == faults < MaxFaults /\ faults' = faults + 1

Init ==
    /\ now \in Time
    /\ pc = [b \in Boards |-> "top"] /\ wait = [b \in Boards |-> 0]
    /\ link = [b \in Boards |-> FALSE]
    /\ sensor = [b \in Boards |-> Setup(now)]
    /\ temperatura = [b \in Boards |-> NaN]
    /\ session = None /\ subscribed = FALSE /\ missed = FALSE
    /\ rest = [b \in Boards |-> MinInterval]
    /\ age = [b \in Boards |-> ResetSpan]
    /\ away = [b \in Boards |-> FALSE] /\ faults = 0
-----------------------------------------------------------------------------
(* loop() of a board. *)

\* On to the first delay() of the turn.
NewTurn(b) == Goto(b, "settle", Period)

\* The client is still connected.
Turn(b) ==
    /\ At(b, "top") /\ link[b]
    /\ NewTurn(b)
    /\ UNCHANGED <<now, link, sensor, temperatura, broker, history, faults>>

\* connect() succeeds: a new session, which ends the one before.  The greeting
\* to /temperatura follows, whether it arrives or not.
Connects(b) ==
    /\ At(b, "top") /\ ~link[b]
    /\ link' = [link EXCEPT ![b] = TRUE]
    /\ session' = b /\ subscribed' = FALSE /\ missed' = FALSE
    /\ Goto(b, "subscribe", 0)
    /\ UNCHANGED <<now, sensor, temperatura, history, faults>>

ConnectFails(b) ==
    /\ At(b, "top") /\ ~link[b]
    /\ Goto(b, "top", Retry)
    /\ UNCHANGED <<now, link, sensor, temperatura, broker, history, faults>>

\* Bug: the sketch subscribes once, in setup().
KeptSubscription == subscribed

\* reconnectLocal() subscribes after each connect().
Subscription == TRUE

\* subscribe(), which may fail to write, and which nobody hears if the session
\* is gone by now.  Its result is ignored: if the client is still connected,
\* the turn goes on, and if not, reconnectLocal() tries again.
Subscribes(b) ==
    /\ At(b, "subscribe")
    /\ \/ /\ link[b] /\ session = b
          /\ subscribed' = Subscription
          /\ UNCHANGED <<missed, faults>>
       \/ /\ link[b] /\ session = b /\ Fault
          /\ missed' = TRUE
          /\ UNCHANGED subscribed
       \/ /\ ~(link[b] /\ session = b)
          /\ UNCHANGED <<subscribed, missed, faults>>
    /\ IF link[b] THEN NewTurn(b) ELSE Goto(b, "top", 0)
    /\ UNCHANGED <<now, link, sensor, temperatura, session, history>>

\* A getter of the driver, with its own reading of the clock.
Asks(b) ==
    \E s \in {Getter(sensor[b], now, tries) : tries \in Outcomes \X Outcomes} :
        /\ sensor' = [sensor EXCEPT ![b] = s]
        /\ IF s.reads > sensor[b].reads
           THEN /\ rest' = [rest EXCEPT ![b] = 0]
                /\ age' = [age EXCEPT ![b] = 0]
                /\ IF s.value = NaN THEN Fault ELSE UNCHANGED faults
           ELSE UNCHANGED <<rest, age, faults>>

GetTemperature(b) ==
    /\ At(b, "settle") /\ Asks(b)
    /\ temperatura' = [temperatura EXCEPT ![b] = sensor'[b].value]
    /\ away' = [away EXCEPT ![b] = age[b] = ClockSize]
    /\ \E gap \in 0 .. Gap : Goto(b, "humid", gap)
    /\ UNCHANGED <<now, link, broker>>

\* getHumidity(), and the start of the ultrasonic pulse.
GetHumidity(b) ==
    /\ At(b, "humid") /\ Asks(b)
    /\ \E echo \in 0 .. Pulse : Goto(b, "pulse", echo)
    /\ UNCHANGED <<now, link, temperatura, broker, away>>

Failed(b) == temperatura[b] = NaN \/ sensor[b].value = NaN

\* loop() returns, and the next turn comes after so many ticks: what this one
\* measured is old.
Returns(b, ticks) ==
    /\ Goto(b, "top", ticks)
    /\ sensor' = [sensor EXCEPT ![b].reads = 0,
                                ![b].value = IF @ = NaN THEN NaN ELSE 0]
    /\ temperatura' = [temperatura EXCEPT ![b] = NaN]
    /\ away' = [away EXCEPT ![b] = FALSE]
    /\ UNCHANGED <<now, link, broker, rest, age, faults>>

\* "Error en los sensores": the turn ends here, without its pause.
GivesUp(b) == At(b, "pulse") /\ Failed(b) /\ Returns(b, 0)

\* Bug: the turn ends without a pause.
NoPause == 0

TurnPause == Pause

\* The retained message to /temperatura, and whether it arrives or not, on.
Publishes(b) == At(b, "pulse") /\ ~Failed(b) /\ Returns(b, TurnPause)

Heard(b) == Publishes(b) /\ link[b] /\ session = b
-----------------------------------------------------------------------------
(* The network, the broker, power and time. *)

\* The client finds out that the broker does not serve it any more: the
\* socket is closed, or a PINGREQ stays unanswered.
Notices(b) ==
    /\ link[b] /\ session # b
    /\ link' = [link EXCEPT ![b] = FALSE]
    /\ UNCHANGED <<now, pc, wait, sensor, temperatura, broker, history, faults>>

\* A connection breaks, at one of its ends first; or the broker restarts.
Breaks(b) ==
    /\ link[b] /\ session = b
    /\ Fault
    /\ \/ link' = [link EXCEPT ![b] = FALSE] /\ UNCHANGED broker
       \/ /\ session' = None /\ subscribed' = FALSE /\ missed' = FALSE
          /\ UNCHANGED link
    /\ UNCHANGED <<now, pc, wait, sensor, temperatura, history>>

\* The board restarts; the broker may keep its session for a while.
Restarts(b) ==
    /\ Fault
    /\ Goto(b, "top", 0)
    /\ link' = [link EXCEPT ![b] = FALSE]
    /\ sensor' = [sensor EXCEPT ![b] = Setup(now)]
    /\ temperatura' = [temperatura EXCEPT ![b] = NaN]
    /\ age' = [age EXCEPT ![b] = ResetSpan]
    /\ away' = [away EXCEPT ![b] = FALSE]
    /\ UNCHANGED <<now, broker, rest>>

\* Setting up the WiFi and connect() may take any time, the rest of a turn
\* takes the time of its delays.
Tick ==
    /\ \A b \in Boards : wait[b] > 0 \/ (pc[b] = "top" /\ ~link[b])
    /\ now' = NextReading(now)
    /\ wait' = [b \in Boards |-> IF wait[b] > 0 THEN wait[b] - 1 ELSE 0]
    /\ rest' = [b \in Boards |->
                    IF rest[b] < MinInterval THEN rest[b] + 1 ELSE rest[b]]
    /\ age' = [b \in Boards |->
                   IF age[b] < ClockSize THEN age[b] + 1 ELSE age[b]]
    /\ UNCHANGED <<pc, link, sensor, temperatura, broker, away, faults>>

Steps(b) ==
    \/ Turn(b) \/ Subscribes(b) \/ GetTemperature(b) \/ GetHumidity(b)
    \/ GivesUp(b) \/ Publishes(b)

Next ==
    \/ Tick
    \/ \E b \in Boards :
          \/ Steps(b) \/ Connects(b) \/ ConnectFails(b)
          \/ Notices(b) \/ Breaks(b) \/ Restarts(b)

Spec == Init /\ [][Next]_vars

\* Time passes, for which every board must go on with its turn; so boards do not
\* throw each other off between connect() and subscribe() without end in no
\* time, and these connections take their round trips.  A client finds out in
\* the end (MqttLink's Patience), and the broker does not refuse for ever.
FairSpec ==
    /\ Spec /\ []<><<Tick>>_vars
    /\ \A b \in Boards : WF_vars(Notices(b)) /\ SF_vars(Connects(b))
-----------------------------------------------------------------------------
\* Every variable keeps to its type.
TypeOK ==
    /\ now \in Time
    /\ pc \in [Boards -> {"top", "subscribe", "settle", "humid", "pulse"}]
    /\ wait \in [Boards -> Nat] /\ link \in [Boards -> BOOLEAN]
    /\ sensor \in [Boards -> Sensors]
    /\ temperatura \in [Boards -> {NaN} \cup Nat]
    /\ session \in Boards \cup {None}
    /\ subscribed \in BOOLEAN /\ missed \in BOOLEAN
    /\ rest \in [Boards -> 0 .. MinInterval]
    /\ age \in [Boards -> 0 .. ClockSize] /\ away \in [Boards -> BOOLEAN]
    /\ faults \in 0 .. MaxFaults

\* The temperature and the humidity of a message are of one reading, made in
\* this turn, although two getters ask for them at two times, and also when
\* millis() wraps.  Only a board that was kept away from its loop() for as long
\* as the clock counts may publish old values, or two of different ages.
Fresh ==
    \A b \in Boards :
        pc[b] = "pulse" /\ ~Failed(b) =>
            \/ temperatura[b] = sensor[b].value /\ temperatura[b] = 1
            \/ away[b]

\* The sensor rests between two transactions, also when a reading failed and
\* the turn was cut short, and when the board restarted in between.
BusRested ==
    [][\A b \in Boards : sensor'[b].reads > sensor[b].reads =>
           /\ rest[b] = MinInterval
           /\ sensor'[b].reads = sensor[b].reads + 1]_vars

\* A board that goes on with its turn has a subscription to inTopic, wherever
\* the session was lost: before, between connect() and subscribe(), or after.
\* The one exception is the write of subscribe() that failed, unnoticed.
Resubscribed ==
    \A b \in Boards :
        link[b] /\ session = b /\ pc[b] # "subscribe" => subscribed \/ missed

\* Boards that keep throwing each other off the broker cannot do so before
\* any of them has published: readings arrive for ever.
SomeoneHeard == []<><<\E b \in Boards : Heard(b)>>_vars
=============================================================================
