------------------------------ MODULE AsyncTcp ------------------------------
(***************************************************************************)
(* AsyncTCP under the web server of servidor.ino: the TCP/IP thread of     *)
(* lwIP turns what happens on the connections into events, one task takes  *)
(* them from a queue and calls the server, and what the task wants from    *)
(* lwIP it asks the TCP/IP thread for and waits.  Slots keep a call from   *)
(* reaching a connection that was closed while the call was on its way.    *)
(*                                                                         *)
(* Both threads run on one core, and the TCP/IP thread has the higher      *)
(* priority: it can step in wherever the task is, and the task goes on     *)
(* only when the TCP/IP thread has nothing to do or waits for room in the  *)
(* queue.  A callback of lwIP is one action; the task has one for each of  *)
(* its accesses to what both share.                                        *)
(***************************************************************************)
EXTENDS Integers, Sequences

CONSTANTS
    Conns,          \* connections, each of which comes once
    Addrs,          \* addresses malloc() gives to clients, again and again
    NumSlots,       \* CONFIG_LWIP_MAX_ACTIVE_TCP
    QueueSize,      \* 32 events
    MaxEvents,      \* bound: events a connection raises before its last
    Null

ASSUME AsyncAssumption ==
    /\ NumSlots \in Nat /\ QueueSize \in Nat \ {0} /\ MaxEvents \in Nat
    /\ Null \notin Conns \cup Addrs

Slots  == 0 .. NumSlots - 1
NoSlot == -1

VARIABLES
    pcb,            \* lwIP's side: [st, arg, on], on: the callbacks are set
    client,         \* the object at an address: [conn, pcb, slot, user]
    slots,          \* _closed_slots: 0 of an open connection, else when freed
    closedIndex,    \* _closed_index
    queue,          \* _async_queue
    pending,        \* the event the TCP/IP thread waits to send
    pc,             \* where the task is
    hand,           \* the event it handles
    first, packet,  \* locals of _remove_events_with_arg()
    call,           \* the call it waits for: [op, pcb, slot]
    raised,         \* history: events a connection has raised
    swapped,        \* history: a sweep left the events of one in disorder
    disturbed       \* history: an event was posted while a sweep went on

clients == <<client, slots, closedIndex>>
locals  == <<first, packet, call>>
history == <<raised, swapped, disturbed>>
vars    == <<pcb, clients, queue, pending, pc, hand, locals, history>>

\* n is the place of an event among those of its connection.
Event(kind, arg, k, n) == [kind |-> kind, arg |-> arg, pcb |-> k, n |-> n]
NoEvent == Event("none", Null, Null, 0)
NoCall  == [op |-> "none", pcb |-> Null, slot |-> NoSlot]
Free    == [conn |-> Null, pcb |-> Null, slot |-> NoSlot, user |-> FALSE]

Full == Len(queue) >= QueueSize

\* Accepted connections and clean-ups go to the front.
Enqueue(q, e) == IF e.kind \in {"accept", "clear"} THEN <<e>> \o q
                                                   ELSE Append(q, e)

\* Two events of one connection stand in the wrong order.
Inverted(q) ==
    \E i, j \in DOMAIN q :
        /\ i < j /\ q[i].pcb = q[j].pcb /\ q[i].n > q[j].n
        /\ "clear" \notin {q[i].kind, q[j].kind}

Init ==
    /\ pcb = [k \in Conns |-> [st |-> "unborn", arg |-> Null, on |-> FALSE]]
    /\ client = [a \in Addrs |-> Free]
    /\ slots = [s \in Slots |-> 1] /\ closedIndex = 1
    /\ queue = <<>> /\ pending = NoEvent
    /\ pc = "idle" /\ hand = NoEvent /\ first = NoEvent /\ packet = NoEvent
    /\ call = NoCall
    /\ raised = [k \in Conns |-> 0] /\ swapped = FALSE /\ disturbed = FALSE
-----------------------------------------------------------------------------
(* The TCP/IP thread. *)

\* The task goes on at p, with the event it has in hand or done with it.
Goto(p) == pc' = p /\ UNCHANGED hand
Ends    == pc' = "idle" /\ hand' = NoEvent

\* The task is in _remove_events_with_arg().
Sweeping == pc \in {"seek", "put"}

Post(e) ==
    /\ queue' = Enqueue(queue, e)
    /\ disturbed' = (disturbed \/ Sweeping)

\* The thread sends an event, and waits if there is no room for it.
Send(e) ==
    /\ raised' = [raised EXCEPT ![e.pcb] = @ + 1]
    /\ IF Full THEN pending' = e /\ UNCHANGED <<queue, disturbed>>
               ELSE Post(e) /\ UNCHANGED pending

Posts ==
    /\ pending # NoEvent /\ ~Full
    /\ Post(pending) /\ pending' = NoEvent
    /\ UNCHANGED <<pcb, clients, pc, hand, locals, raised, swapped>>

\* The thread is not stuck in a callback.
TcpipRuns == pending = NoEvent

\* Bug: the slot is found and not marked.
Untaken(s) == slots

Taken(s) == IF s = NoSlot THEN slots ELSE [slots EXCEPT ![s] = 0]

\* _allocate_closed_slot(): of the free slots the one freed first, and of
\* those that were never used the last.
Allocated ==
    LET open == {s \in Slots : slots[s] # 0}
    IN  IF open = {} THEN {NoSlot}
        ELSE {s \in open : \A r \in open : \/ slots[s] < slots[r]
                                           \/ slots[s] = slots[r] /\ r <= s}

\* A connection comes in: the constructor of its client, and an event.
Accept(k) ==
    /\ TcpipRuns /\ pcb[k].st = "unborn"
    /\ \E a \in Addrs, s \in Allocated :
         /\ client[a].conn = Null
         /\ client' = [client EXCEPT ![a] = [conn |-> k, pcb |-> k,
                                             slot |-> s, user |-> FALSE]]
         /\ slots' = Taken(s)
         /\ pcb' = [pcb EXCEPT ![k] = [st |-> "open", arg |-> a, on |-> TRUE]]
         /\ Send(Event("accept", a, k, 0))
    /\ UNCHANGED <<closedIndex, pc, hand, locals, swapped>>

\* Data or an acknowledgement has come ("recv"), or half a second has gone.
Happens(k, kind) ==
    /\ TcpipRuns /\ pcb[k].st = "open" /\ pcb[k].on
    /\ raised[k] <= MaxEvents
    /\ Send(Event(kind, pcb[k].arg, k, raised[k]))
    /\ UNCHANGED <<pcb, clients, pc, hand, locals, swapped>>

\* _free_closed_slot(): what it writes into the array.
Freed(s) == IF s = NoSlot THEN slots ELSE [slots EXCEPT ![s] = closedIndex]

\* Bug: the index counts down.
CountDown(s) == IF s = NoSlot THEN closedIndex ELSE closedIndex - 1

NextIndex(s) == IF s = NoSlot THEN closedIndex ELSE closedIndex + 1

\* Bug: _lwip_fin() leaves the slot to the destructor.
FinKeeps(s) == slots

FinFrees(s) == Freed(s)

\* The peer has closed: _lwip_fin() closes here and now, then the event.
Fin(k) ==
    /\ TcpipRuns /\ pcb[k].st = "open" /\ pcb[k].on
    /\ LET a == pcb[k].arg
       IN  /\ a # Null
           /\ pcb' = [pcb EXCEPT ![k].st = "fin", ![k].arg = Null]
           /\ slots' = FinFrees(client[a].slot)
           /\ closedIndex' = NextIndex(client[a].slot)
           /\ client' = [client EXCEPT ![a].slot = NoSlot, ![a].pcb = Null]
           /\ Send(Event("fin", a, k, raised[k]))
    /\ UNCHANGED <<pc, hand, locals, swapped>>

\* The board restarts: what is connected is lost, and nothing is kept.
Restart ==
    /\ pcb' = [c \in Conns |-> IF pcb[c].st = "unborn" THEN pcb[c]
                               ELSE [st |-> "gone", arg |-> Null,
                                     on |-> FALSE]]
    /\ client' = [a \in Addrs |-> Free]
    /\ slots' = [s \in Slots |-> 1] /\ closedIndex' = 1
    /\ queue' = <<>> /\ pending' = NoEvent
    /\ pc' = "idle" /\ hand' = NoEvent /\ first' = NoEvent
    /\ packet' = NoEvent /\ call' = NoCall
    /\ UNCHANGED history

\* The peer has closed between the two steps of _close() that take the client
\* and the callbacks away: _lwip_fin() of no client is a crash.
FinOfNoClient(k) ==
    /\ TcpipRuns /\ pcb[k].st = "open" /\ pcb[k].on /\ pcb[k].arg = Null
    /\ Restart

\* lwIP gives a connection up and frees the pcb: an event, if anyone listens.
Reset(k) ==
    /\ TcpipRuns /\ pcb[k].st = "open"
    /\ pcb' = [pcb EXCEPT ![k].st = "gone"]
    /\ IF pcb[k].on THEN Send(Event("error", pcb[k].arg, k, raised[k]))
                    ELSE UNCHANGED <<queue, pending, raised, disturbed>>
    /\ UNCHANGED <<clients, pc, hand, locals, swapped>>

\* The guard of every call that a client makes.
LetThrough == call.slot = NoSlot \/ slots[call.slot] = 0

\* The thread does what the task asked for, and the task goes on.
Serves ==
    /\ TcpipRuns /\ pc = "wait"
    /\ pcb' = IF call.op = "close" /\ LetThrough /\ pcb[call.pcb].st = "open"
              THEN [pcb EXCEPT ![call.pcb].st = "closed"] ELSE pcb
    /\ IF call.op = "close" THEN Goto("discard") ELSE Ends
    /\ call' = NoCall
    /\ UNCHANGED <<clients, queue, pending, first, packet, history>>
-----------------------------------------------------------------------------
(* The task. *)

\* The task runs when the thread of higher priority cannot.
TaskAt(p) == pc = p /\ (pending = NoEvent \/ Full)

This == hand.arg        \* the client whose event is handled

\* The client that raised the event is still there.
ForClient(e) == e.arg # Null /\ client[e.arg].conn = e.pcb

\* Where the handler of an event begins.  An event of no client is dropped,
\* and so is, in this model, one whose client was deleted.
Handler(e) ==
    IF e.kind = "clear" THEN "seek" ELSE IF ForClient(e) THEN e.kind ELSE "idle"

\* From here to the end of the event the task is under the watchdog.
Gets ==
    /\ TaskAt("idle") /\ queue # <<>>
    /\ queue' = Tail(queue)
    /\ pc' = Handler(Head(queue))
    /\ hand' = IF pc' = "idle" THEN NoEvent ELSE Head(queue)
    /\ UNCHANGED <<pcb, clients, pending, locals, history>>

\* The watchdog finds an event in hand for too long.  How long an event takes
\* is not modelled: it may bite in the middle of any.
WatchdogBites == pc # "idle" /\ Restart

\* The server makes a request object, and sets the callbacks of the client.
Accepted ==
    /\ TaskAt("accept") /\ Ends
    /\ client' = [client EXCEPT ![This].user = TRUE]
    /\ UNCHANGED <<pcb, slots, closedIndex, queue, pending, locals, history>>

\* _poll(): nothing to do for this client; or all is well, and the server may
\* send more; or a time limit has passed, and the client is closed.
Polled ==
    /\ TaskAt("poll")
    /\ IF client[This].pcb # hand.pcb THEN Ends
                                      ELSE Goto("recv") \/ Goto("unlink")
    /\ UNCHANGED <<pcb, clients, queue, pending, locals, history>>

\* The server saw the data and wants nothing from lwIP.
Handled ==
    /\ TaskAt("recv") /\ Ends
    /\ UNCHANGED <<pcb, clients, queue, pending, locals, history>>

\* A call: _pcb is read, and then _closed_slot.  One call stands for the
\* several that the handling of an event may make.
ReadsPcb(from, op) ==
    /\ TaskAt(from) /\ client[This].pcb # Null
    /\ Goto("slot")
    /\ call' = [op |-> op, pcb |-> client[This].pcb, slot |-> NoSlot]
    /\ UNCHANGED <<pcb, clients, queue, pending, first, packet, history>>

ReadsSlot ==
    /\ TaskAt("slot") /\ Goto("wait")
    /\ call' = [call EXCEPT !.slot = client[This].slot]
    /\ UNCHANGED <<pcb, clients, queue, pending, first, packet, history>>

\* _close(): the pcb forgets the client (lwIP ignores a pcb that is NULL) ...
Unlinks ==
    /\ TaskAt("unlink") /\ Goto("unwire")
    /\ pcb' = IF client[This].pcb = Null THEN pcb
              ELSE [pcb EXCEPT ![client[This].pcb].arg = Null]
    /\ UNCHANGED <<clients, queue, pending, locals, history>>

\* ... and the callbacks.
Unwires ==
    /\ TaskAt("unwire") /\ Goto("clean")
    /\ pcb' = IF client[This].pcb = Null THEN pcb
              ELSE [pcb EXCEPT ![client[This].pcb].on = FALSE]
    /\ UNCHANGED <<clients, queue, pending, locals, history>>

\* Bug: the events of a client that is closed stay where they are.
NoCleanUp == queue

CleanUp == Enqueue(queue, Event("clear", This, hand.pcb, 0))

\* _tcp_clear_events(), from _close() and from _fin(), waits for room.
Cleans ==
    /\ TaskAt("clean") \/ TaskAt("fin")
    /\ ~Full
    /\ queue' = CleanUp
    /\ Goto(IF pc = "fin" THEN "discard" ELSE "close")
    /\ UNCHANGED <<pcb, clients, pending, locals, history>>

\* There is no pcb left to close.
ClosedBefore ==
    /\ TaskAt("close") /\ client[This].pcb = Null
    /\ Goto("discard")
    /\ UNCHANGED <<pcb, clients, queue, pending, locals, history>>

\* _pcb = NULL, and the callback of the server, if it has set one: it deletes
\* the client.  An event of an error comes here at once.
Discards ==
    /\ TaskAt("discard") \/ TaskAt("error")
    /\ client' = [client EXCEPT ![This].pcb = Null]
    /\ IF client[This].user THEN Goto("free") ELSE Ends
    /\ UNCHANGED <<pcb, slots, closedIndex, queue, pending, locals, history>>

\* The destructor's _free_closed_slot(): the slot, and then the rest.
FreesSlot ==
    /\ TaskAt("free") /\ Goto("delete")
    /\ slots' = Freed(client[This].slot)
    /\ UNCHANGED <<pcb, client, closedIndex, queue, pending, locals, history>>

Deletes ==
    /\ TaskAt("delete") /\ Ends
    /\ closedIndex' = NextIndex(client[This].slot)
    /\ client' = [client EXCEPT ![This] = Free]
    /\ UNCHANGED <<pcb, slots, queue, pending, locals, history>>
-----------------------------------------------------------------------------
(* _remove_events_with_arg(). *)

\* The event is to go.  The argument of an accepted connection's is the server.
Matches(e) == e.kind # "accept" /\ e.arg = This

\* Bug: the sweep goes on until the queue is empty.
UntilEmpty == queue = <<>>

\* Bug: it is over when the event it began with is back in the queue.
FirstBack == queue # <<>> => queue[Len(queue)] = first

\* The sweep has come to the event it began with.
AllSeen == queue # <<>> => Head(queue) = first

\* An event is taken: for good, or to be put back at the end.
Sweeps ==
    /\ TaskAt("seek") /\ ~AllSeen
    /\ queue' = Tail(queue)
    /\ IF Matches(Head(queue))
       THEN Goto("seek") /\ UNCHANGED <<first, packet>>
       ELSE /\ packet' = Head(queue)
            /\ first' = IF first = NoEvent THEN packet' ELSE first
            /\ Goto("put")
    /\ UNCHANGED <<pcb, clients, pending, call, history>>

\* Bug: an event for which there is no room is dropped.
PutsBackOrDrops ==
    /\ TaskAt("put")
    /\ queue' = (IF Full THEN queue ELSE Append(queue, packet))
    /\ packet' = NoEvent
    /\ Goto("seek")
    /\ UNCHANGED <<pcb, clients, pending, first, call, history>>

PutsBack ==
    /\ TaskAt("put") /\ ~Full
    /\ queue' = Append(queue, packet) /\ packet' = NoEvent
    /\ Goto("seek")
    /\ UNCHANGED <<pcb, clients, pending, first, call, history>>

SweepEnds ==
    /\ TaskAt("seek") /\ AllSeen
    /\ first' = NoEvent /\ Ends
    /\ swapped' = (swapped \/ Inverted(queue))
    /\ UNCHANGED <<pcb, clients, queue, pending, packet, call>>
    /\ UNCHANGED <<raised, disturbed>>
-----------------------------------------------------------------------------
Task ==
    \/ Gets \/ Accepted \/ Polled \/ Handled
    \/ ReadsPcb("recv", "use") \/ ReadsPcb("close", "close") \/ ReadsSlot
    \/ Unlinks \/ Unwires \/ Cleans \/ ClosedBefore
    \/ Discards \/ FreesSlot \/ Deletes
    \/ Sweeps \/ PutsBack \/ SweepEnds

Network ==
    \E k \in Conns :
        \/ Accept(k) \/ Happens(k, "recv") \/ Happens(k, "poll")
        \/ Fin(k) \/ FinOfNoClient(k) \/ Reset(k)

Next == Task \/ Posts \/ Serves \/ Network \/ WatchdogBites

Spec == Init /\ [][Next]_vars

\* Everyone waits: for room in a queue that only the waiting task empties.
Stuck ==
    /\ Full
    /\ \/ pc \in {"put", "clean", "fin"}
       \/ pc = "wait" /\ pending # NoEvent

\* Both threads run, and the watchdog does not leave a stuck task alone.
\* Nothing else is asked of it: it is not what ends a long event.
FairSpec == /\ Spec /\ WF_vars(Task) /\ WF_vars(Posts \/ Serves)
            /\ WF_vars(Stuck /\ WatchdogBites)
-----------------------------------------------------------------------------
Kinds  == {"none", "accept", "recv", "poll", "fin", "error", "clear"}
Events == [kind : Kinds, arg : Addrs \cup {Null}, pcb : Conns \cup {Null},
           n : Nat]

\* Every variable keeps to its type.
TypeOK ==
    /\ pcb \in [Conns -> [st : {"unborn", "open", "fin", "closed", "gone"},
                          arg : Addrs \cup {Null}, on : BOOLEAN]]
    /\ client \in [Addrs -> [conn : Conns \cup {Null},
                             pcb : Conns \cup {Null},
                             slot : Slots \cup {NoSlot}, user : BOOLEAN]]
    /\ slots \in [Slots -> Nat] /\ closedIndex \in Nat \ {0}
    /\ queue \in Seq(Events) /\ pending \in Events
    /\ pc \in {"idle", "accept", "recv", "poll", "fin", "error", "slot",
               "wait", "unlink", "unwire", "clean", "close", "discard",
               "free", "delete", "seek", "put"}
    /\ hand \in Events /\ first \in Events /\ packet \in Events
    /\ call \in [op : {"none", "use", "close"}, pcb : Conns \cup {Null},
                 slot : Slots \cup {NoSlot}]
    /\ raised \in [Conns -> Nat]
    /\ swapped \in BOOLEAN /\ disturbed \in BOOLEAN

\* The client at an address has a slot that is its own: not the one the task
\* is just giving back.
Holds(a) == /\ client[a].slot # NoSlot
            /\ ~(pc = "delete" /\ a = This)

\* No two clients have one slot, and a slot is marked open just as long as
\* a client has it, whichever thread gives it back.
SlotsExclusive ==
    /\ \A a, b \in Addrs : Holds(a) /\ Holds(b) /\ a # b =>
           client[a].slot # client[b].slot
    /\ \A s \in Slots : slots[s] = 0 <=>
           \E a \in Addrs : Holds(a) /\ client[a].slot = s

\* A call that was on its way when the peer closed does no harm, unless its
\* slot was given to a new client in between, or was read too late.
CallsGuarded ==
    pc = "wait" /\ pcb[call.pcb].st = "fin" /\ LetThrough =>
        \/ call.slot = NoSlot
        \/ \E a \in Addrs : /\ client[a].slot = call.slot
                            /\ client[a].conn # call.pcb

\* As long as the events of each connection keep their order, none of them
\* comes to a client that was deleted, or to another at the same address.
NoStrayEvent ==
    pc = "idle" /\ queue # <<>> /\ ~swapped =>
        LET e == Head(queue)
        IN  e.kind = "clear" \/ e.arg = Null \/ ForClient(e)

\* "figure out which is the first packet so we can keep the order"
\* (AsyncTCP.cpp:125): after a sweep the events of a connection stand in the
\* order in which they came.
KeepsOrder == ~Sweeping => ~Inverted(queue)

\* That is true of every sweep during which no event comes.
OnlyArrivalsSwap == swapped => disturbed

\* Nobody ever leaves the state in which everyone waits, but by the watchdog:
\* no event, no call and no closing of a connection makes room (the queue's
\* portMAX_DELAY, AsyncTCP.cpp:107, under the watchdog of 192-202).
StuckUntilRestart == [][Stuck => Stuck' \/ WatchdogBites]_vars

\* The task comes back to its queue again and again.  Nothing holds it for
\* ever but the full queue, and that as long as the watchdog lets it.
TaskReturns == []<>(pc = "idle")
=============================================================================
