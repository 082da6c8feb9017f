# TLA+ models of the UnturnedPrometeus repository

The repository collects the work of a course on web systems: sketches for
ESP32/ESP8266 boards that publish readings over MQTT or to Firebase, web pages
that show them, and the Arduino libraries they are built with, copied in. These
modules model the parts that carry the logic: the MQTT client library every MQTT
sketch links, the greenhouse node with its sensor driver, the TCP layer of the web
server, and the weather station that writes to Firebase together with its dashboard.

`src/arduino/libraries/PubSubClient` is abbreviated to *PubSubClient/* below, and
so are the other libraries; line numbers are those of the file named with them.

## 1. Inventory

### Parts, their state and how they interact

| Part | State | Operations | Talks to |
|---|---|---|---|
| **PubSubClient**, the client (*PubSubClient/*src/PubSubClient.cpp) | `_state`, the two activity stamps, `pingOutstanding`, `nextMsgId`, the callback, one buffer | `connect`, `loop`, `publish`, `publish_P`, `beginPublish`, `subscribe`, `unsubscribe`, `disconnect`, `setCallback`, `setBufferSize` | the sketch (calls and the callback, on one thread), a broker over a TCP socket, `millis()` |
| **servidorDHT11**, the station | `sendDataPrevMillis`, `contador`, the user's uid | `setup`, `loop`, `sendFloat` | Firebase database, `millis()` |
| **ServicioDht11**, the dashboard (auth.js, index.js, database.rules.json) | the session, the listeners of the page, the text of its elements | `onAuthStateChanged`, `setupUI`, the callbacks of `on('value')` | Firebase authentication and database |
| **proyectofuncionando**, the greenhouse node | two MQTT clients, the last reading | `loop`, `reconnectLocal` | DHTesp, PubSubClient, two brokers, other boards with the same client id |
| **DHTesp**, the sensor driver | last reading, its time, its error | `setup`, `resetTimer`, `readSensor`, `getTemperature`, `getHumidity` | a pin, `millis()` |
| **AsyncTCP** under **servidor** | a pcb and a closed-slot number for each client, `_closed_slots`, `_closed_index`, `_async_queue` | the callbacks of lwIP (`_tcp_accept`, `_tcp_recv`, `_tcp_poll`, `_lwip_fin`, `_error`), the task `_async_service_task` with its handlers, `_remove_events_with_arg`, calls into lwIP through `tcpip_api_call` | lwIP's thread, the web server |
| **mqtt_esp8266-file**, **sketch_may24a**, **mqtt_esp8266_temperatura** | a client, `lastMsg`, `value`, the LED | `reconnect`, `callback`, `loop` | PubSubClient |
| **ejemplo-servidordht11** | `sendDataPrevMillis`, two values | `loop` | Firebase |
| **conecta_WIFI**, **primeroAnalogReadSerial** | none | one analog read | |
| **MQTT pages** (Practica mqtt mensajes, Practica tem-mapa, Ejemplo mqtt) | the text shown | callbacks of the Paho client, `enviar` | the broker's WebSocket port |
| **TW/ejemplo fetch**, **angular-01**, **Proyecto Alexa**, **Ejemplo Leaflet** | the page shown, a list of greetings | a router, two HTTP calls, a fact skill | fetch, a Firebase database |
| Other libraries under arduino/libraries | | | copied third-party code, for the greater part used by no sketch |

A sketch has one thread. It calls into PubSubClient, which blocks while it waits
for bytes (up to `socketTimeout` for each) and calls the sketch back from
`loop()`; the callback may call `publish()` again. Meanwhile the broker sends, the
socket may die and the clock runs on. The greenhouse node asks its sensor driver for two
values of one reading in each turn and publishes them; every board with this sketch has
the same client id, so the broker, which keeps one session to an id, makes them end each
other's connections. The web server is the one part with two threads: lwIP's thread puts
what happens on the connections into a queue, and one task takes it out and calls the
server, which hands what it wants from lwIP back to the first thread and waits. Station and dashboard never meet: the board
writes two fields of the database one after the other, and the page gets an event
for each change of each field, in no fixed order with the sign-ins and sign-outs
of its users.

### What is hard here

* **Time.** `millis()` wraps after 49 days. Keep-alive, pings and the pace of the
  uploads are all decided from differences of stamps, some of which are set from a
  time that was read before a wait or a callback.
* **Partial packets.** `readByte()` gives up after `socketTimeout`, in the middle of
  a packet too, and `loop()` goes on with the connection.
* **One buffer** for what is read and what is written, used again by the callback
  before the PUBACK of its message is made.
* **Lengths at a limit**: of the buffer, of a `uint16_t`, of the four bytes of an
  MQTT remaining length.
* **Failures between two steps**: of `connect()`, which can give up at many points
  with an open socket, and of the two writes of a reading.
* **Sessions that come and go** while listeners of earlier ones are still there, or
  that one board takes from another.
* **Two threads** that share clients, slots and a queue of 32 events with next to no locks:
  what the task has read of a connection may be stale when its call is served, addresses
  and slots are used again, and the task that empties the queue also fills it.

`PROJECT.json` lists the hazards line by line with the properties that watch them.

## 2. Modules

| Module | What it is |
|---|---|
| `Millis` | The clock: readings that wrap, their unsigned difference. |
| `PubSubClient` | Client, socket and broker: connection, keep-alive and dispatch. |
| `MqttLink` | Abstract: what the client promises, with no packets, sockets or calls. |
| `MCPubSubClient` | A prompt broker, for one run and one theorem. |
| `PacketWriter` | How every packet that is sent is laid out in the buffer. |
| `PacketReader` | How one packet is taken off the socket and delivered, byte by byte. |
| `CloudStation` | The station, the database and the dashboard. |
| `DHTesp` | When the sensor driver talks to the sensor and what its getters return: operators on a record of its members. |
| `GreenhouseNode` | Boards with the greenhouse sketch, each over a `DHTesp`, and the broker they share. |
| `AsyncTcp` | lwIP's thread, the task, the queue, clients and slots of AsyncTCP. |
| `PubSubClientProofs`, `PubSubPromisesProofs`, `PacketWriterProofs`, `PacketReaderProofs`, `CloudStationProofs`, `GreenhouseProofs`, `AsyncTcpProofs`, `AsyncTcpEventProofs` | The theorems. |

The client is cut in three because its questions are. `PubSubClient` is about
*when* things happen and takes a packet for two cells, its first byte and the
rest, so that a packet can be half there. `PacketReader` and `PacketWriter` are
about *bytes*: they know no time and no connection. They meet where
`PubSubClient` names the outcome of a read: `Received` is a read that ends in
`Finish` of `PacketReader` with a packet that fits, `Oversized` one that ends
"ignored", `BadLength` "closed" and `ReadTimeout` "gaveUp". `GreenhouseNode` in its turn
knows no packets: it takes the client for what `MqttLink` says of it, and `PubSubClient`
is shown to implement that.

### PubSubClient: state and actions against the code

A variable carries the name of the member it models (`lastIn` is
`lastInActivity`, `sock` the socket behind `_client`, `t` and `msg` locals of
`loop()`). `pc` says where the thread is: in the sketch (`idle`), in `connect()`
waiting for the answer (`connack`) or in it (`connbody`), in `readPacket()` (`body`;
`junk` when the byte taken for a packet's kind was not one), or in the `callback`.
Only where the code waits does another action get in between, so a stretch of code
that does not wait is one action: `Loop` is `loop()` up to the first byte of a
packet, its keep-alive check and PINGREQ included; `Received` is the rest of the
packet and the `switch` on its kind, up to the callback; `CallbackReturns` is the
PUBACK and the return.

| Code (PubSubClient.cpp) | Actions |
|---|---|
| `connect()` 181-285 | `TcpFails`, `CredentialsTooLong`, `ConnectWritten`, `ConnackTimeout`, `ConnackHeader`, `ConnackRead` (`Accepted`, `NotAccepted`), `ConnackStalls` |
| `loop()` 370-434 | `NoticeLoss`, `KeepAliveTimeout`, `Loop` (`Ping`, `NoPing`, `NextHeader`), `Received` (`Ignored`, `Deliver`, `AnswerPing`, `PingAnswered`), `Oversized`, `CallbackReturns` |
| `readPacket()`, `readByte()` 288-368 | `BadLength`, `ReadTimeout`, `Trickles` |
| `publish…()` 436-541, `subscribe()`, `unsubscribe()` 605-658 | `Publish`, `Subscribe` |
| `disconnect()`, `setCallback()` | `Disconnect`, `SetCallback` |
| broker, network, clock | `BrokerSends`, `BrokerFinishes`, `SocketDies`, `Tick` |

The broker of the model keeps to MQTT 3.1.1 on the whole: it answers a CONNECT with
one packet (a CONNACK, a refusal, or one that is malformed or too large), sends
only once it accepted, and sends a PINGRESP only for a PINGREQ. It may be slow, send
half a packet, or vanish. `MaxGap` is the one thing asked of the sketch: from the
start of one `connect()`/`loop()` to the start of the next, the wait for bytes
included, no more than `MaxGap` ticks pass, and `MaxGap` leaves room for two waits
of `SocketTimeout`. A peer that sends a packet byte by byte, each just in time,
could hold `loop()` longer; the models leave that peer out, and the bounds hold
as long as it stays away.

Variables that are history (`hello`, `connects`, `unanswered`, `stalled` and the
true ages `quiet`, `silence`, `pingAge`, `sinceCall`) appear in no guard of the
code's actions. `sinceCall` bounds `Tick` and `Trickles`, which is how `MaxGap` is
imposed; `hello` and `unanswered` restrict the broker.

### PacketWriter and PacketReader

`PacketWriter` takes strings and payloads for their lengths and the buffer for the
position reached in it; the loop of `buildHeader()` over the remaining length is
modelled digit by digit, and so is that of `publish_P()`, which writes its header to the front of
the buffer and the topic after it. `publish()`, `subscribe()`, `unsubscribe()` and the strings of
`connect()` are compared with `bufferSize` first; the fifteen first bytes of `connect()`, and the topics of
`publish_P()` and `beginPublish()`, are not (202-233, 511, 530). A call that writes behind the
buffer ends in the place "overrun", with the position it reached, and nothing is said of what
follows: it is other memory of the program that was written. `SetBufferSize` is `setBufferSize()`
between two calls. In `PacketReader` a byte is its *place* in the packet: a
byte lost, doubled or moved shows in the sequence of places that the callback, the
`Stream` or the PUBACK gets, whatever its value. The broker may encode a length in
more digits than it needs; every read may be the one that gives up. Topics may be of any length, since
a wildcard subscription brings longer ones than `subscribe()` takes. Two stretches of code do not
look at `bufferSize`, and end in the place "outside" when they leave the buffer: the bytes up to
the topic's length (`StorePastBuffer`), which matters with a buffer of less than seven bytes, and
`loop()` with a `Stream` (`DeliverPastBuffer`). There a message larger than the buffer is delivered,
and if its topic ends behind the buffer, so do the topic that is moved, the zero written after it and
the identifier that is read (398-403).

### CloudStation

The board is `pc`, `sent` (`sendDataPrevMillis`) and `contador`. `Upload` is the
guard of `loop()` (187) with everything up to the first write; each `sendFloat()`
is `Write` or `WriteFails`. `NotReady` is `Firebase.ready()` saying no.
`Restarts` may strike anywhere, and with it goes all that the board knows. The
sketch counts instead of measuring, so a reading is its `contador`; temperature and
humidity are computed from the same one. `db` is `UsersData/<uid>/<field>`.
The page is who is signed in (`user`), what each listener was last told
(`heard`) and what the elements show, and whose it is (`shown`). `SignIn` adds
listeners as `setupUI()` does; nothing in the code takes one away, and what ends
one is the rule of database.rules.json, by which the database cancels a listener
whose reader has lost the right to read (`Permitted`). `Event` is one callback,
and with `null` it throws before it changes the page.

### DHTesp and GreenhouseNode

A sensor is the record of the driver's members: `last` (`lastReadTime`), `value` (temperature
and humidity, which are set together), `error`, and `reads`, a count of the bus
transactions of this turn, which is history and names the reading a value comes from.
`Getter` is `getTemperature()` or `getHumidity()`: `readSensor()`, and `readSensor()` again
after a timeout.

| Code (proyectofuncionando.ino) | Actions |
|---|---|
| `loop()` 85-96, with `reconnectLocal()` 192-207 | `Turn`; `Connects`, `Subscribes`, `ConnectFails` |
| the two getters, 98 and 99, and the start of the pulse, 101-109 | `GetTemperature`; `GetHumidity` |
| "Error en los sensores", 111-114 | `GivesUp` |
| the publishes 115-166 and `delay(5000)` 168 | `Publishes` |
| `setup()` 61-74 | `Restarts` |
| `PubSubClient::connected()` (PubSubClient.cpp:684-701) | `Notices` |
| broker, network, clock | `Breaks`, `Tick` |

`connect()` and `subscribe()` are two steps, between which the session can be lost or another board can
take it over. The sketch ignores what `subscribe()` returns: a write that fails (`missed`) leaves a
board that is connected and has no subscription. Each getter reads the clock for itself, up to
`Gap` ticks after the other.

The board works in no time but waits in every `delay()` (`wait`), so `Tick` needs each board to be
in one, or to be setting up its WiFi or its connection, which may take any time. The
outside broker's client never connects (91-94 are commented out), so what `loop()` does
with it changes nothing; it has no action.

### AsyncTcp

`pcb` is lwIP's side of a connection: whether it is open, which client `tcp_arg()` gave it, and
whether its callbacks are set. `client` is what lies at each address `malloc()` gives out,
`slots` and `closedIndex` are the arrays of the same names, `pc` and `hand` say where the task
is in the handling of which event.

| Code (AsyncTCP.cpp) | Actions |
|---|---|
| `_s_accept`, `_tcp_recv`, `_tcp_sent`, `_tcp_poll`, `_tcp_error` in lwIP's thread, with the queue they wait for | `Accept`, `Happens`, `Reset`, `Posts` |
| `_s_lwip_fin`, `_lwip_fin` | `Fin`, `FinOfNoClient` |
| `_async_service_task`, `_handle_async_event` | `Gets`, `Accepted`, `Polled`, `Handled`, `Discards` |
| `_tcp_output`, `_tcp_write`, `_tcp_recved`, `_tcp_close` and their `_api` halves | `ReadsPcb`, `ReadsSlot`, `Serves` |
| `_close`, `_tcp_clear_events`, `_fin` | `Unlinks`, `Unwires`, `Cleans`, `ClosedBefore` |
| the destructor, `_free_closed_slot` | `FreesSlot`, `Deletes` |
| `_remove_events_with_arg` | `Sweeps`, `PutsBack`, `SweepEnds` |

Both threads run on one core and lwIP's has the higher priority. So a callback of lwIP is one
action, unless it waits for room in the queue (`pending`), and the task has an action for each
access to what both share; `TaskAt` says that the task moves only when the other thread is
idle or waits for room. Three variables are history and appear in no guard: `raised` numbers
the events of a connection (it also bounds them, in `Happens`), `swapped` records that a sweep
ended with two events of one connection in the wrong order, and `disturbed` that an event was posted
while a sweep was going on. `NoStrayEvent` and `OnlyArrivalsSwap` are stated in them.
`FinOfNoClient` is a FIN between the two steps in which `_close()` takes
the client and the callbacks from the pcb: lwIP hands a null pointer to `_lwip_fin()`, and the
board restarts (`Restart`). The task is under the task watchdog from the event it takes to the end of its
handler (192-202; AsyncTCP.h:36 turns that on), and `WatchdogBites` is the watchdog restarting the board. Time
is not in this model, so it may do so in the middle of any event.

## 3. Runs

| Run | Question | Result |
|---|---|---|
| `client` | Does the keep-alive work, over the wrap and with stamps that lie (`BrokerNotStarved`, `HungDetected`, `PatientWithBroker`), and do connection and byte stream stay in order through refusals, broken answers and packets in halves (`ConnectedOnlyAfterConnack`, `NoHalfOpenSocket`, `PingAccounting`, `InStep`, `IdsValid`)? `TypeOK` | holds |
| `promises` | Does the client implement `MqttLink` (`ImplementsLink`), and does every call return (`CallsReturn`)? | holds |
| `backlog` | `KeptAlive`: a broker that answers at once keeps its client | **violated** |
| `writer` | Do the calls that look at the size of the buffer stay in it, all but one byte of `subscribe()` and the first bytes of `connect()` (`FitsBuffer`), does each header have its room (`HeaderFits`), and does each packet announce its length, `beginPublish()` modulo 65536 (`LengthAnnounced`)? `TypeOK` | holds |
| `largepayload` | `LargePayloads`: `beginPublish()` announces the true length of any payload | **violated** |
| `subscribe` | `SubscribeFits`: `subscribe()` writes nothing past the buffer | **violated** |
| `reader` | Is a packet taken, delivered, streamed and acknowledged byte for byte, and when does the code leave the buffer? `TakesThePacket`, `DeliveredAsSent`, `WholeOrIgnored`, `StreamedAsSent`, `AckedAsSent`, `TypeOK` | holds |
| `greenhouse` | Is a published pair one fresh reading (`Fresh`), does the sensor get its rest (`BusRested`), does a session lost anywhere get its subscription back (`Resubscribed`), and do boards that throw each other off the broker still get through (`SomeoneHeard`)? `TypeOK` | holds |
| `asynctcp` | Are slots never shared (`SlotsExclusive`), late calls held back (`CallsGuarded`), events brought to their own client (`NoStrayEvent`), and put out of order by nothing but arrivals during a sweep (`OnlyArrivalsSwap`)? Does the task come back to its queue again and again (`TaskReturns`), and is the watchdog the only way out of a full queue that waits for itself (`StuckUntilRestart`)? `TypeOK` | holds |
| `eventorder` | `KeepsOrder`: the events of a connection keep their order | **violated** |
| `cloud` | Does the board keep its pace and its pairs (`Paced`, `OnTime`, `PairTogether`), does each user see the own readings (`OwnReadings`) and in the end the last one (`CatchesUp`), and does the page change for ever (`KeepsUpdating`)? `TypeOK` | holds |
| `guest` | `PageUpdated`: the page shows nothing of an earlier user | **violated** |

### What the violations show

* **backlog.** `loop()` looks at the clock before it looks at the socket, and reads
  one packet per call (373-389). A client that only receives, and calls `loop()`
  less often than messages come, gives up a connection whose broker answered the
  PINGREQ at once: the answer lies unread behind messages. The library's test
  `keepalive_spec.cpp:85` says "keeps a connection alive that only receives qos0";
  it passes because it calls `loop()` once for every message. There is no other way to
  lose such a broker: `PromptAnswerUnread` (section 4) proves that whenever a client of one
  gives up, the answer lies in its socket.
* **largepayload.** `buildHeader()` takes the remaining length as `uint16_t` (557), so
  `beginPublish()` announces the length of a payload past 65535 bytes modulo 65536;
  PubSubClient.h:162 promises "arbitrarily large payloads". What holds
  instead is in `LengthAnnounced`.
* **subscribe.** The check (617) leaves no room for the byte of the quality of
  service that `subscribe()` appends: a topic of `bufferSize - 9` characters is
  written one byte past the buffer, and by `FitsBuffer` never further.
* **eventorder.** `_remove_events_with_arg()` takes each event out of the queue and puts it
  back at the end (AsyncTCP.cpp:126-150). An event that lwIP appends between the two
  overtakes an older one of its connection, and the sweep ends before it is set right. The
  comment at 125 says that the sweep finds out the first packet "so we can keep the order".
* **guest.** `snap.val().toFixed(2)` of a field that was never written throws
  (index.js:33, 37), and sign-out clears nothing (41-47), so a new user looks at the
  readings of the one before, under the own e-mail.

Passing runs show more in the way their properties are worded. `asynctcp` reaches `Stuck`: with a
full queue the task waits without limit (`portMAX_DELAY`) for room in `_tcp_clear_events()` or while it
puts an event back, and nobody else empties the queue; by `StuckUntilRestart` that wait ends
only when the watchdog restarts the board. `FitsBuffer` names what may write behind the buffer, and
`DeliveredAsSent` when `loop()` does. `CallsGuarded` allows for a slot that
a new connection took between the two halves of a call: the guard of `_tcp_write_api()`
compares the slot's number only. `_closed_index` is there to make that rare, by giving out the slot
freed longest ago; but the first slot that is freed gets the number 1, which the unused ones
have too (85-92, 836-841), and of equals the last is taken, so that slot is given out next.

### Bounds, and why they are enough

* `ClockSize` is the size of `millis()` in ticks. The code sees differences of
  stamps only, so what matters is that `KeepAlive + MaxGap` (or `TimerDelay`, or a turn of the
  greenhouse node) fits and that behaviours run over the wrap many times; with 4 to 7
  ticks every behaviour longer than that does, and every stamp meets every position of the
  wrap. The client's and the greenhouse node's clock start anywhere, since a sketch connects at
  any time; the station's starts at 0, as `millis()` does.
* `client`: `SocketTimeout` 1 and `MaxGap` 2 are the smallest values the assumptions allow, and
  `KeepAlive` 2 is longer than one wait for a byte; `MaxRx` 3 lets a whole packet wait behind the second half of another;
  every kind of packet is sent. `IdSize` 3 makes the identifiers 1 and 2, and wraps them.
  `promises` needs no more than that an interval can pass. `backlog` has `MaxRx` 4, which is
  two packets, so that an answer can wait behind a message.
* `writer` uses the real buffer of 256 bytes and lengths at each side of every limit:
  of the buffer for each call (231 to 249 and 300), of one and two digits (127, 128,
  16381), of the `uint16_t` (65533, 65534) and of four digits (268435456). The buffers of
  1, 4, 9, 14 and 15 bytes lie around what the calls write without a check. A behaviour ends when
  a call writes behind the buffer, so deadlock is not checked.
* `reader` scales the buffer to 18 bytes and a digit to 4 values, so that packets of
  one to three digits lie at each side of the buffer's end, and a fourth and fifth digit
  come with the encodings that waste some; topics of 9 to 20 bytes end on each side of it, with and
  without identifier. The buffers of 4, 6 and 7 bytes are too small, or just large enough, for the
  beginning of a packet. A behaviour reads one packet and ends, so deadlock is not checked there.
* `greenhouse`: two boards are what it takes to throw each other off, and one fault (a failed
  reading, a `subscribe()` that is not written, a link that dies at one end, a restart) strikes anywhere in a behaviour that
  has takeovers without bound. The delays keep the order they have in the code:
  `MinInterval <= Period` and `Pause > Period + Gap + Pulse` (5000 > 1000 + the time between the getters
  + 1000 ms), so that a board that publishes sleeps longer than the other needs to measure.
  `Gap` 1 lets the clock move on between the getters, and `ClockSize` 8 has room for a turn of 7
  ticks. A sensor that fails for ever is beyond `MaxFaults`: of it the run says nothing.
* `asynctcp`: two connections over two addresses and two slots, so that an address and a slot
  are used again while an event or a call of the connection before is under way. `MaxEvents` 2
  gives a connection two events of its own between its accept and the one that ends it, and a
  queue of three is the smallest in which a sweep meets two events of another connection and a
  third one comes in: `swapped` becomes true in this run (with a queue of two it cannot), and the queue
  still fills at every point where somebody waits for room. The system stops when all connections
  are over, so deadlock is not checked; what could block is the subject of `TaskReturns`.
  `eventorder` has a longer queue (5), with three events each.
* `cloud`: `Top` 2 instead of 20 keeps the cycle of `contador` (1, 2, 3, 2, 3, ...),
  `MaxFaults` 1 lets one write fail, or the board restart between two; the clock of 4 ticks wraps
  between uploads and during a slow write; the owner and one guest use the page.

Lengths that are constants in the code (`MQTT_MAX_HEADER_SIZE`, 128 to a digit, a
word of 65536) are not scaled in `PacketWriter`. No state constraint, view or symmetry is
used.

### Fairness

* `FairSpec` of `PubSubClient`: the processor runs on inside a call
  (`WF(CallProgress)`) and so does the clock (`WF(Tick)`). Nothing is asked of the broker,
  the network or the sketch: that is the point of `CallsReturn`.
* `PageSpec` of `CloudStation`: strong fairness of each field's events. The database
  tells a listener that stays what changed; strong, because the reloads of the page
  keep interrupting. Of the board nothing is asked: `KeepsUpdating` has uploads without end
  as its premise.
* `FairSpec` of `GreenhouseNode`: time passes (`[]<><<Tick>>`), for which every board has to go on with
  its turn; it says too that boards do not throw each other off between `connect()` and
  `subscribe()` without end in no time, which the round trips of their connections see to. A
  client finds out in the end that the broker does not serve it (`WF(Notices)`), which is the
  `Patience` of `MqttLink`; and connecting is strongly fair, since a broker may refuse at times and
  not for ever. Nothing says which board connects when, or that they take turns.
* `FairSpec` of `AsyncTcp`: both threads run, `WF(Task)` and `WF(Posts \/ Serves)`. That lwIP's
  thread has the higher priority does not starve the task, because connections raise a bounded
  number of events; the network owes nothing. The watchdog does not leave a stuck task alone
  (`WF(Stuck /\ WatchdogBites)`); nothing obliges it to end any other event.

## 4. Proofs

Each theorem holds for every value of the constants that the named assumptions
allow (`ClockAssumption`, `ConfigAssumption`, `SizesAssumption`,
`PayloadAssumption`, `ReaderAssumption`, `StationAssumption`, `SensorAssumption`,
`NodeAssumption`, `AsyncAssumption`). TLC evaluates them in
the runs. In each module the argument is the same: an invariant `IInv` that
implies the properties, a lemma that `Init` gives it, a lemma for each action that
keeps it, the theorem `Invariance`, and one short theorem for each property.

**PubSubClientProofs** proves `TypeOK`, `ConnectedOnlyAfterConnack`,
`NoHalfOpenSocket`, `BrokerNotStarved`, `HungDetected`, `IdsValid` and
`PatientWithBroker`. What is inductive, beyond the types:

* `Sockets`: an open socket carries one CONNECT, of a `connect()` that is under way or
  has succeeded; a closed one carries nothing. `NoHalfOpenSocket` by itself is not
  inductive, since it says nothing about a call under way.
* `Greeted`: as long as the broker did not accept, there is no CONNACK in the stream
  or in the hands of `connect()`.
* `StampAge` says how old the code's stamps can be at each place, `TrueAge` what they
  say of the true ages. The stamps lie in both directions: a PUBACK sets
  `lastOutActivity` back to the start of its `loop()`, and a PINGREQ moves
  `lastInActivity` though nothing was heard. `TrueAge` says by how much:
  `silence <= Elapsed(now, lastOut)` always, and `quiet` at most one period
  (`KeepAlive + MaxGap`) more than `lastIn` says, and only while a PINGREQ is
  outstanding. From these two come the bounds of `BrokerNotStarved` (one period) and
  `HungDetected` (two).
* `PingStamps`: while the PINGREQ is younger than `KeepAlive`, no stamp is older than
  it, so the next check cannot call it overdue.
* `UsedIds` for the identifiers.

**PubSubPromisesProofs** proves `InStep` and `PingAccounting`, from the invariant above and one
about the order of the cells in the stream:

* `Framed`: as long as no read gave up, first bytes and rests take turns in what waits in the
  socket, beginning with a rest just when the client holds the first byte of a packet,
  and ending with a first byte just when the broker owes the rest. `InStep` looks at the
  head of the stream only, which says nothing of the next one.
* `OnePlace`: a PINGREQ that is not answered, a PINGRESP in the stream and one in the hands of
  `loop()` exclude each other, and there are never two. `PingAccounting` alone would
  let a second PINGRESP outlive the one that clears `pingOutstanding`.
* `InHand`: there is no packet in hand between two packets, and a closed socket has no past.

It also proves `Spec => ImplementsLink`: under the refinement mapping at
the end of `PubSubClient`, the initial states map to initial states of `MqttLink`, and
each action to one of its steps (`Dial`, `Agree`, `Open`, `Traffic`, `Close`, `Orphan`, `Tick`)
or to none; the bounds in `MqttLink!Tick` come from the invariant above.

Its last theorem, `PromptAnswerUnread`, explains the `backlog` run: under `PromptSpec`, where no
time passes while the broker owes something, `loop()` declares a timeout only while the PINGRESP lies
unread in the socket, and no read ever gives up halfway. `Prompt` adds to the invariants that
an unanswered PINGREQ is of this tick, and that a read that has waited has the rest of its packet.
`AnswerUnread`, which it states, is in no run of its own; TLC finds it true on the bounds
of `backlog`, with every kind of packet sent.

**PacketWriterProofs** proves `TypeOK`, `FitsBuffer`, `HeaderFits` and
`LengthAnnounced`. The heart is the loop over the remaining length: `Sum` says that the digits written and the rest
make up what the header is to announce (`Promised`: the body, or for `beginPublish()` the body
modulo 65536), `Encoding` that each digit shrinks the rest by 128, so that four are
enough. That needs the bound on payloads, which is `PayloadAssumption`. The violations of `largepayload`
and `subscribe` have their exact extent proved beside them, in `LengthAnnounced` and `FitsBuffer`: modulo
65536, and one byte. `StaysInBuffer` holds for every size `setBufferSize()` takes and any strings: `publish()`
and `unsubscribe()` never leave the buffer, `connect()` only with its fifteen first bytes. Of
`publish_P()` and `beginPublish()` it claims nothing, since they compare nothing (`Laying` knows that what
was not an overrun is inside).

**PacketReaderProofs** proves all of `reader`'s properties for any size of the buffer,
any radix and any packet, but for topics so long (65534 bytes and more) that the `uint16_t` `skip` starts anew:
`Decoded` (what is decoded and what is left make up the
remaining length), `Position` (how far the reader is in each phase), `Stored` (the buffer is
the beginning of the packet) and `StreamedSoFar`. `Progress` says how a message that overran the buffer can
come to be delivered: only with a `Stream`. So `DeliversAsSent` also says when the code
leaves the buffer: if it has less than seven bytes, or with a `Stream` and a topic that, with its identifier,
ends behind it.

**CloudStationProofs** proves `TypeOK`, `Paced`, `OnTime`, `PairTogether` and
`OwnReadings`: `Clock` (up to the delay, the difference of readings is the true age of the
last upload), `Waiting` (the turns that waited are no more than the clock says),
`Turn` (which half of the pair is written), `Alone` (no listener outlives its
user's session; this is where the rules of the database come in).

**GreenhouseProofs** proves `TypeOK`, `Fresh`, `BusRested` and `Resubscribed` for any number of
boards and faults, and any delays with `MinInterval <= Period`. `StampAge` says that
the driver's stamp tells the true time since the last transaction, or is the one that
`setup()` made up and lies at least `ResetSpan` back; `Settling` that a board in its delay
will have waited out `Period` when it asks; `Between` that at the second getter the reading of the first is
too young to be renewed (`Gap < MinInterval`), unless the board was away for a whole clock; `Measured` that after the getters both
values are those of one transaction. `Resubscribed` is inductive by itself, since the place "subscribe" tells
a session without a subscription from one that has come past it. It also
proves `SecondTryIdle`, a fact about the driver that its comment (DHTesp.cpp:81) hopes
otherwise: within one getter the second try after a timeout never reaches the sensor, because
the sampling period has only just begun.

**AsyncTcpProofs** proves `TypeOK`, `SlotsExclusive` and `CallsGuarded` for any number of
connections, addresses and slots, and any length of the queue. `SlotsExclusive` is not inductive:
that `_lwip_fin()` gives back the slot of the right client needs to be known first. `Posted` and
`Working` say that every event on its way was raised and that the task handles one of a client
that is there; `Linked` that lwIP and the client of an open connection know each other;
`Severed` that the client the task is about to give up hears no more of lwIP, so that only
one thread can free its slot; `Owned` and `Single` that every client has a connection of its own, and
no slot once the peer closed it.

**AsyncTcpEventProofs** goes on from there to what is in the queue. It proves `NoStrayEvent`,
`OnlyArrivalsSwap` and `StuckUntilRestart`. `NoStrayEvent` looks at the head of the queue when the task
is idle; what makes it true is decided long before, when a client is given up, and survives any number of
sweeps of the queue. The invariant has two layers:

* `QInv` says what is there. `Counted`: the number an event carries is one its connection has
  given out, an accept is the first and an error so far the last; `Distinct`: no event is there
  twice, whether in the queue or in the hands of the sweep; `PendingLast`: what lwIP's thread waits to
  send is the last of its connection; `Cleared`: there is never more than one clean-up, with
  nothing but new connections before it; `Doomed`: while a client is being deleted, its clean-up
  is already in the queue, or an error was lwIP's last word on it.
* `OInv` says in which order and whose, as long as no sweep has swapped anything. `Ordered` and
  `HandFirst`: outside of a sweep the events of a connection stand as they came, all after the one
  in hand. `Kept`: every event in the queue is of a client that is there, unless a clean-up that stands before
  it, or is under way, will remove it (`Swept`): in a sweep, the events of the dead client are all
  before the first event that was put back.

`OnlyArrivalsSwap` needs to know how far a sweep has come. `Rotated` takes the queue and the
packet in the sweep's hand as one line: somewhere in it is the event the sweep
began with, and from there on the line belongs in front of the rest. When that event is at the head, nothing is left to
turn. `Distinct` is what makes the code's comparison with the first packet stop at the right one.
`StuckUntilRestart` goes through the actions: those that take from the queue are the task's, which waits;
and `Wired`, an invariant, says that a pcb without a client still has its callbacks only between two steps of
`_close()`, where nobody is stuck, so that the crash of a FIN of no client is no way out either.

**Checked by TLC only**: the liveness properties (`CallsReturn`, `CatchesUp`,
`KeepsUpdating`, `SomeoneHeard`, `TaskReturns`), which the proof system does not
treat. Every safety property of a passing run is a theorem.

## 5. Not modelled

* The greater part of the repository by size: libraries copied from elsewhere, of which the
  sketches use few and the boards link fewer (IRremoteESP8266, Adafruit_NeoPixel, ArduinoJson,
  WebSockets and others are used by no sketch, or only as a pure formatter), generated
  examples of theirs, and the Firebase library. What the station needs of Firebase is modelled
  from its use: the renewal of tokens is a guard that may be false, a write may fail.
* Parts listed in section 1 that have no module yet, see the plan below; what is pure
  layout, static or does not compile (conecta_WIFI names things that do not exist,
  mqtt_esp8266_temperatura a variable that is commented out, Proyecto Alexa two that
  nobody declares).
* In PubSubClient: `setServer()`, `setKeepAlive()`, `setSocketTimeout()`, which are constants of the
  model, `setBufferSize()` with a failing `malloc()` (no sketch calls it), writes that the
  socket refuses while it is open, and `MQTT_MAX_TRANSFER_SIZE`, off in every build here.
  What the program does after a call has written behind the buffer is outside of every model, and so is
  a topic of 65534 bytes or more, with which `skip` of `readPacket()` would start anew.
* In DHTesp: the detection of the sensor's model (the sketch names DHT11), the bits on the wire,
  which are the outcome of a transaction, and the comfort formulas, which are pure.
* In AsyncTCP: how long an event takes (the watchdog may bite in any), and two cores. The header lets the task run on any core (AsyncTCP.h:35), so on a chip
  with two the threads may overlap in every access; the model is of a chip with one, where lwIP's
  thread can interrupt the task between any two accesses but not the other way round;
  connections the board opens itself and DNS, which the server does not use; the bookkeeping of
  bytes acknowledged (`_rx_ack_len`); the wrap of `_closed_index` after 2^32 connections. After
  an error event lwIP has freed the pcb and `_error()` still writes to it: the model drops that
  write. An event whose client was deleted before it is taken from the queue is
  dropped, where the code would call into freed memory; `NoStrayEvent` says when there is none.
* The web server above AsyncTCP: parsing and responses. The two handlers of servidor have no state.
* The values of readings, the text of messages and everything that goes to the serial line.

## 6. Plan

In this order; each with its runs.

1. `LedNode`: mqtt_esp8266-file over the buffer of `PacketReader`: an empty payload
   against the comment in its lines 9-10, and its endless `reconnect()`.
2. `MikroDashNode`: sketch_may24a's credentials against the buffer, as lengths of `PacketWriter`.
3. `MqttPages`: pages that share the client id SAMUEL, none of which connects again.
4. `HashRouter`: fetches of TW/ejemplo fetch answered out of order.
5. `AsyncTcp` with two cores, where `SlotsExclusive` is not to be expected.
