--------------------------- MODULE AsyncTcpProofs ---------------------------
(***************************************************************************)
(* What holds of AsyncTCP for any number of connections, addresses, slots  *)
(* and places in the queue.                                                *)
(***************************************************************************)
EXTENDS AsyncTcp, SequenceTheorems, TLAPS

\* An event that was raised.  Whoever tells of an end tells the truth.
Raised ==
    {e \in Events : /\ e.kind # "none" /\ e.pcb \in Conns
                    /\ e.kind = "error" => pcb[e.pcb].st = "gone"
                    /\ e.kind = "fin" => pcb[e.pcb].st = "fin"}

\* What is in the queue, on its way there and in the task's hands was raised.
Posted ==
    /\ queue \in Seq(Raised)
    /\ pending = NoEvent \/ pending \in Raised
    /\ pc = "put" => packet \in Raised
    /\ pc # "idle" => hand \in Raised

\* The task handles an event of a client that is there.
Working ==
    pc \notin {"idle", "seek", "put"} =>
        This \in Addrs /\ client[This].conn = hand.pcb

\* lwIP has no client to tell of this connection.
Silent(k) == pcb[k].st # "open" \/ pcb[k].arg = Null

\* From here on the task is about to give the client up.
Closing ==
    \/ pc \in {"fin", "error", "unwire", "clean", "close", "discard", "free",
               "delete"}
    \/ pc \in {"slot", "wait"} /\ call.op = "close"

\* The one that is about to go hears no more of lwIP.
Severed ==
    /\ Closing => Silent(hand.pcb)
    /\ pc = "unlink" => client[This].pcb \in {Null, hand.pcb}

\* lwIP and the client of an open connection know each other.
Linked ==
    \A k \in Conns : Silent(k) \/ /\ client[pcb[k].arg].conn = k
                                  /\ client[pcb[k].arg].pcb = k

\* An address without a client is clear, and one with a client has a
\* connection of its own, and no slot of one that the peer closed.
Owned ==
    \A a \in Addrs :
        /\ client[a].conn = Null => client[a].slot = NoSlot
        /\ client[a].conn # Null =>
               /\ pcb[client[a].conn].st # "unborn"
               /\ pcb[client[a].conn].st = "fin" => client[a].slot = NoSlot

Single ==
    \A a, b \in Addrs : client[a].conn # Null /\ a # b =>
        client[a].conn # client[b].conn

IInv == /\ TypeOK /\ Posted /\ Working /\ Severed
        /\ Linked /\ Owned /\ Single /\ SlotsExclusive
-----------------------------------------------------------------------------
(* The data. *)

LEMMA NullApart == Null \notin Conns /\ Null \notin Addrs
BY AsyncAssumption

LEMMA SlotFacts ==
    /\ NumSlots \in Nat /\ NoSlot \notin Slots
    /\ \A s \in Slots : s \in Int /\ s >= 0
BY AsyncAssumption DEF Slots, NoSlot

LEMMA RaisedAreEvents == Raised \subseteq Events
BY DEF Raised

\* What was true of an end stays true as long as no ended connection changes.
LEMMA RaisedStays ==
    ASSUME \A k \in Conns : pcb[k].st \in {"fin", "gone"} =>
               pcb'[k].st = pcb[k].st
    PROVE  Raised \subseteq Raised'
BY DEF Raised

LEMMA SeqStays ==
    ASSUME NEW S, NEW T, S \subseteq T, NEW q \in Seq(S)
    PROVE  q \in Seq(T)
BY SeqMonotonic

LEMMA Queues ==
    ASSUME NEW S, NEW q \in Seq(S), NEW e \in S
    PROVE  /\ Append(q, e) \in Seq(S)
           /\ <<e>> \o q \in Seq(S)
           /\ Enqueue(q, e) \in Seq(S)
<1>1. Append(q, e) \in Seq(S)
    OBVIOUS
<1>2. <<e>> \in Seq(S)
    OBVIOUS
<1>3. <<e>> \o q \in Seq(S)
    BY <1>2
<1> QED
    BY <1>1, <1>3 DEF Enqueue

LEMMA Taking ==
    ASSUME NEW S, NEW q \in Seq(S), q # <<>>
    PROVE  Head(q) \in S /\ Tail(q) \in Seq(S)
OBVIOUS

LEMMA EventType ==
    ASSUME NEW kind \in Kinds, NEW a \in Addrs \cup {Null},
           NEW k \in Conns \cup {Null}, NEW n \in Nat
    PROVE  /\ Event(kind, a, k, n) \in Events
           /\ Event(kind, a, k, n).kind = kind
           /\ Event(kind, a, k, n).arg = a
           /\ Event(kind, a, k, n).pcb = k
BY DEF Event, Events

LEMMA NoEventType == NoEvent \in Events /\ NoEvent.kind = "none"
BY EventType DEF NoEvent, Kinds

\* The types of the parts that an action usually leaves alone.
ConnType   == pcb \in [Conns -> [st : {"unborn", "open", "fin", "closed",
                                       "gone"},
                                 arg : Addrs \cup {Null}, on : BOOLEAN]]
ClientType == client \in [Addrs -> [conn : Conns \cup {Null},
                                    pcb : Conns \cup {Null},
                                    slot : Slots \cup {NoSlot},
                                    user : BOOLEAN]]
SlotType   == slots \in [Slots -> Nat] /\ closedIndex \in Nat \ {0}
QueueType  == queue \in Seq(Events) /\ pending \in Events
PcType     == pc \in {"idle", "accept", "recv", "poll", "fin", "error", "slot",
                      "wait", "unlink", "unwire", "clean", "close", "discard",
                      "free", "delete", "seek", "put"}
LocalType  == /\ hand \in Events /\ first \in Events /\ packet \in Events
              /\ call \in [op : {"none", "use", "close"},
                           pcb : Conns \cup {Null},
                           slot : Slots \cup {NoSlot}]
PastType   == /\ raised \in [Conns -> Nat]
              /\ swapped \in BOOLEAN /\ disturbed \in BOOLEAN

LEMMA Types ==
    TypeOK <=> /\ ConnType /\ ClientType /\ SlotType /\ QueueType /\ PcType
               /\ LocalType /\ PastType
BY DEF TypeOK, ConnType, ClientType, SlotType, QueueType, PcType, LocalType,
       PastType

\* What is posted has the type of what is queued.
LEMMA PostedType == ASSUME Posted PROVE QueueType
BY RaisedAreEvents, SeqStays, NoEventType DEF Posted, QueueType

\* Slots are as they were if nobody gets, loses or gives back one.
LEMMA SlotsKept ==
    ASSUME SlotsExclusive, slots' = slots,
           \A a \in Addrs : client'[a].slot = client[a].slot,
           \/ pc # "delete" /\ pc' # "delete"
           \/ UNCHANGED <<pc, hand>>
    PROVE  SlotsExclusive'
BY DEF SlotsExclusive, Holds, This

LEMMA ClientsKept ==
    ASSUME Linked, Owned, Single,
           \A k \in Conns : pcb'[k].st = pcb[k].st /\ pcb'[k].arg = pcb[k].arg,
           ConnType,
           \A a \in Addrs : /\ client'[a].conn = client[a].conn
                            /\ client'[a].pcb = client[a].pcb
                            /\ client'[a].slot = client[a].slot,
           ClientType
    PROVE  Linked' /\ Owned' /\ Single'
<1>1. Linked'
    BY DEF Linked, Silent, ConnType
<1>2. Owned'
    BY DEF Owned, ClientType
<1>3. Single'
    BY DEF Single
<1> QED
    BY <1>1, <1>2, <1>3

\* A step that leaves the connections and the clients as they are, but for
\* what the server has set.
LEMMA QuietStep ==
    ASSUME IInv, pcb' = pcb, slots' = slots, ClientType', Posted', PcType',
           closedIndex' = closedIndex, LocalType', PastType', Working',
           Severed',
           \A a \in Addrs : /\ client'[a].conn = client[a].conn
                            /\ client'[a].pcb = client[a].pcb
                            /\ client'[a].slot = client[a].slot,
           \/ pc # "delete" /\ pc' # "delete"
           \/ UNCHANGED <<pc, hand>>
    PROVE  IInv'
<1>1. ConnType /\ ClientType /\ SlotType
    BY Types DEF IInv
<1>2. ConnType' /\ SlotType'
    BY <1>1 DEF ConnType, SlotType
<1>3. QueueType'
    <2>1. Raised' \subseteq Events
        BY DEF Raised
    <2> QED
        BY <2>1, SeqStays, NoEventType DEF Posted, QueueType
<1>4. TypeOK'
    BY <1>2, <1>3 DEF TypeOK, ConnType, ClientType, SlotType, QueueType, PcType,
                      LocalType, PastType
<1>5. Linked' /\ Owned' /\ Single'
    BY <1>1, ClientsKept DEF IInv
<1>6. SlotsExclusive'
    BY SlotsKept DEF IInv
<1> QED
    BY <1>4, <1>5, <1>6 DEF IInv
-----------------------------------------------------------------------------
(* Steps that touch the queue and the task only. *)

LEMMA PostsKeeps == ASSUME IInv, Posts PROVE IInv'
<1> USE DEF Posts, Post, IInv
<1>1. Raised' = Raised
    BY DEF Raised
<1>2. pending \in Raised
    BY DEF Posted
<1>3. Posted'
    BY <1>1, <1>2, Queues DEF Posted, locals
<1>4. Working' /\ Severed'
    BY DEF Working, Severed, Closing, Silent, This, clients, locals
<1>5. disturbed' \in BOOLEAN
    BY Types, Zenon DEF PastType
<1>6. ClientType' /\ PcType' /\ LocalType' /\ PastType'
    BY <1>5, Types DEF ClientType, PcType, LocalType, PastType, clients, locals
<1> QED
    BY <1>3, <1>4, <1>6, QuietStep DEF clients

LEMMA GetsKeeps == ASSUME IInv, Gets PROVE IInv'
<1> USE DEF Gets, IInv
<1> DEFINE e == Head(queue)
<1>1. Raised' = Raised
    BY DEF Raised
<1>2. e \in Raised /\ Tail(queue) \in Seq(Raised)
    BY Taking DEF Posted
<1>3. pc = "idle" /\ pc' = Handler(e)
      /\ hand' = IF pc' = "idle" THEN NoEvent ELSE e
    BY DEF TaskAt
<1>4. e \in Events /\ e.kind # "none" /\ e.pcb \in Conns
      /\ e.kind \in Kinds /\ e.arg \in Addrs \cup {Null}
    BY <1>2 DEF Raised, Events
<1> HIDE DEF e
<1>5. CASE pc' = "idle"
    <2>1. Posted'
        BY <1>1, <1>2, <1>5 DEF Posted, locals
    <2>2. Working' /\ Severed'
        BY <1>5 DEF Working, Severed, Closing
    <2>3. LocalType'
        BY <1>3, <1>5, NoEventType, Types DEF LocalType, locals
    <2> QED
        BY <1>3, <1>5, <2>1, <2>2, <2>3, QuietStep, Types
           DEF ClientType, PcType, PastType, clients, history
<1>6. CASE pc' # "idle"
    <2>1. hand' = e
        BY <1>3, <1>6
    <2>2. Posted'
        BY <1>1, <1>2, <1>3, <1>6, <2>1, <1>4 DEF Posted, locals, Handler, Kinds
    <2>3. CASE e.kind = "clear"
        <3>1. pc' = "seek"
            BY <1>3, <2>3 DEF Handler
        <3>2. Working' /\ Severed'
            BY <3>1 DEF Working, Severed, Closing
        <3> QED
            BY <1>3, <1>4, <2>1, <2>2, <3>1, <3>2, QuietStep, Types
               DEF ClientType, PcType, LocalType, PastType, clients, locals,
                   history
    <2>4. CASE e.kind # "clear"
        <3>1. pc' = e.kind /\ ForClient(e)
            BY <1>3, <1>6, <2>4 DEF Handler
        <3>2. pc' \in {"accept", "recv", "poll", "fin", "error"}
            BY <1>4, <2>4, <3>1 DEF Kinds
        <3>3. Working'
            BY <1>4, <2>1, <3>1 DEF Working, ForClient, This, clients
        <3>4. Silent(e.pcb) \/ pc' \notin {"fin", "error"}
            BY <1>2, <3>1 DEF Raised, Silent
        <3>5. Severed'
            BY <2>1, <3>2, <3>4 DEF Severed, Closing, Silent
        <3> QED
            BY <1>3, <1>4, <2>1, <2>2, <3>2, <3>3, <3>5, QuietStep, Types
               DEF ClientType, PcType, LocalType, PastType, clients, locals,
                   history
    <2> QED
        BY <2>3, <2>4
<1> QED
    BY <1>5, <1>6

\* The task goes from one place to another, and nothing else is posted.
LEMMA TaskMoves ==
    ASSUME IInv, UNCHANGED <<pcb, queue, pending, packet>>,
           pc' \in {"idle", "accept", "recv", "poll", "fin", "error", "slot",
                    "wait", "unlink", "unwire", "clean", "close", "discard",
                    "free", "delete", "seek"},
           pc # "idle", Goto(pc') \/ Ends
    PROVE  Posted' /\ PcType' /\ hand' \in Events
<1>1. Raised' = Raised
    BY DEF Raised
<1>2. Posted'
    BY <1>1 DEF IInv, Posted, Goto, Ends
<1>3. PcType'
    BY DEF PcType
<1>4. hand' \in Events
    BY NoEventType DEF IInv, TypeOK, Goto, Ends
<1> QED
    BY <1>2, <1>3, <1>4

LEMMA AcceptedKeeps == ASSUME IInv, Accepted PROVE IInv'
<1> USE DEF Accepted, TaskAt, Ends
<1>1. Posted' /\ PcType' /\ hand' \in Events
    BY TaskMoves DEF locals
<1>2. Working' /\ Severed'
    BY DEF Working, Severed, Closing
<1>3. ClientType
    BY Types DEF IInv
<1>4. This \in Addrs
    BY DEF IInv, Working
<1>5. /\ ClientType'
      /\ \A a \in Addrs : /\ client'[a].conn = client[a].conn
                          /\ client'[a].pcb = client[a].pcb
                          /\ client'[a].slot = client[a].slot
    BY <1>3, <1>4 DEF ClientType
<1> QED
    BY <1>1, <1>2, <1>5, QuietStep, Types
       DEF IInv, LocalType, PastType, locals, history

LEMMA PolledKeeps == ASSUME IInv, Polled PROVE IInv'
<1> USE DEF Polled, TaskAt
<1>1. pc' \in {"idle", "recv", "unlink"} /\ pc = "poll" /\ (Goto(pc') \/ Ends)
    BY DEF Goto, Ends
<1>2. Posted' /\ PcType' /\ hand' \in Events
    BY <1>1, TaskMoves DEF locals
<1>3. Working'
    BY <1>1 DEF IInv, Working, This, Goto, Ends, clients
<1>4. Severed'
    BY <1>1 DEF Severed, Closing, This, Goto, Ends, clients
<1> QED
    BY <1>1, <1>2, <1>3, <1>4, QuietStep, Types
       DEF IInv, ClientType, LocalType, PastType, clients, locals, history

LEMMA HandledKeeps == ASSUME IInv, Handled PROVE IInv'
<1> USE DEF Handled, TaskAt, Ends
<1>1. Posted' /\ PcType' /\ hand' \in Events
    BY TaskMoves DEF locals
<1>2. Working' /\ Severed'
    BY DEF Working, Severed, Closing
<1> QED
    BY <1>1, <1>2, QuietStep, Types
       DEF IInv, ClientType, LocalType, PastType, clients, locals, history

LEMMA ReadsPcbKeeps ==
    ASSUME IInv, ReadsPcb("recv", "use") \/ ReadsPcb("close", "close")
    PROVE  IInv'
<1> USE DEF ReadsPcb, TaskAt, Goto
<1>1. Posted' /\ PcType' /\ hand' \in Events
    BY TaskMoves
<1>2. Working'
    BY DEF IInv, Working, This, clients
<1>3. Severed'
    BY DEF IInv, Severed, Closing, Silent, This
<1>4. call' \in [op : {"none", "use", "close"}, pcb : Conns \cup {Null},
                 slot : Slots \cup {NoSlot}]
    BY DEF IInv, Working, TypeOK, This
<1> QED
    BY <1>1, <1>2, <1>3, <1>4, QuietStep, Types
       DEF IInv, ClientType, LocalType, PastType, clients, history

LEMMA ReadsSlotKeeps == ASSUME IInv, ReadsSlot PROVE IInv'
<1> USE DEF ReadsSlot, TaskAt, Goto
<1>1. Posted' /\ PcType' /\ hand' \in Events
    BY TaskMoves
<1>2. Working'
    BY DEF IInv, Working, This, clients
<1>3. call' \in [op : {"none", "use", "close"}, pcb : Conns \cup {Null},
                 slot : Slots \cup {NoSlot}] /\ call'.op = call.op
    BY DEF IInv, Working, TypeOK, This
<1>4. Severed'
    BY <1>3 DEF IInv, Severed, Closing, Silent, This
<1> QED
    BY <1>1, <1>2, <1>3, <1>4, QuietStep, Types
       DEF IInv, ClientType, LocalType, PastType, clients, history

LEMMA CleansKeeps == ASSUME IInv, Cleans PROVE IInv'
<1> USE DEF Cleans, TaskAt, Goto
<1> DEFINE e == Event("clear", This, hand.pcb, 0)
<1>1. pc \in {"clean", "fin"} /\ pc' \in {"discard", "close"}
    OBVIOUS
<1>2. Raised' = Raised /\ This \in Addrs /\ hand.pcb \in Conns
    BY <1>1 DEF IInv, Raised, Working, Posted
<1>3. e \in Raised
    BY <1>2, EventType DEF Raised, Kinds
<1>4. queue' = Enqueue(queue, e)
    BY DEF CleanUp
<1> HIDE DEF e
<1>5. Posted'
    BY <1>1, <1>2, <1>3, <1>4, Queues DEF IInv, Posted, locals
<1>6. Working'
    BY <1>1 DEF IInv, Working, This, clients
<1>7. Severed'
    BY <1>1 DEF IInv, Severed, Closing, Silent, This
<1>8. PcType'
    BY <1>1 DEF PcType
<1> QED
    BY <1>1, <1>5, <1>6, <1>7, <1>8, QuietStep, Types
       DEF IInv, ClientType, LocalType, PastType, clients, locals, history

LEMMA ClosedBeforeKeeps == ASSUME IInv, ClosedBefore PROVE IInv'
<1> USE DEF ClosedBefore, TaskAt, Goto
<1>1. Posted' /\ PcType' /\ hand' \in Events
    BY TaskMoves DEF locals
<1>2. Working'
    BY DEF IInv, Working, This, clients
<1>3. Severed'
    BY DEF IInv, Severed, Closing, Silent, This
<1> QED
    BY <1>1, <1>2, <1>3, QuietStep, Types
       DEF IInv, ClientType, LocalType, PastType, clients, locals, history

LEMMA SweepsKeeps == ASSUME IInv, Sweeps PROVE IInv'
<1> USE DEF Sweeps, TaskAt, Goto
<1>1. pc = "seek" /\ pc' \in {"seek", "put"} /\ hand' = hand
      /\ queue' = Tail(queue)
    OBVIOUS
<1>2. Raised' = Raised
    BY DEF Raised
<1>3. queue # <<>>
    BY DEF AllSeen
<1>4. Head(queue) \in Raised /\ Tail(queue) \in Seq(Raised)
    BY <1>3, Taking DEF IInv, Posted
<1>5. /\ packet' \in Events /\ first' \in Events
      /\ pc' = "put" => packet' \in Raised
    BY <1>4, RaisedAreEvents DEF IInv, TypeOK
<1>6. Posted'
    BY <1>1, <1>2, <1>4, <1>5 DEF IInv, Posted
<1>7. Working' /\ Severed'
    BY <1>1 DEF Working, Severed, Closing
<1>8. PcType'
    BY <1>1 DEF PcType
<1> QED
    BY <1>1, <1>5, <1>6, <1>7, <1>8, QuietStep, Types
       DEF IInv, ClientType, LocalType, PastType, clients, history

LEMMA PutsBackKeeps == ASSUME IInv, PutsBack PROVE IInv'
<1> USE DEF PutsBack, TaskAt, Goto
<1>1. Raised' = Raised
    BY DEF Raised
<1>2. Append(queue, packet) \in Seq(Raised)
    BY Queues DEF IInv, Posted
<1>3. Posted'
    BY <1>1, <1>2 DEF IInv, Posted
<1>4. Working' /\ Severed'
    BY DEF Working, Severed, Closing
<1>5. PcType'
    BY DEF PcType
<1> QED
    BY <1>3, <1>4, <1>5, NoEventType, QuietStep, Types
       DEF IInv, ClientType, LocalType, PastType, clients, history

LEMMA SweepEndsKeeps == ASSUME IInv, SweepEnds PROVE IInv'
<1> USE DEF SweepEnds, TaskAt, Ends
<1>1. Posted' /\ PcType' /\ hand' \in Events
    BY TaskMoves
<1>2. Working' /\ Severed'
    BY DEF Working, Severed, Closing
<1>3. swapped' \in BOOLEAN
    BY Zenon DEF Inverted
<1> QED
    BY <1>1, <1>2, <1>3, NoEventType, QuietStep, Types
       DEF IInv, ClientType, LocalType, PastType, clients
-----------------------------------------------------------------------------
(* Steps of lwIP, and those with which the task gives a client up. *)

LEMMA CountType ==
    ASSUME NEW f \in [Conns -> Nat], NEW k \in Conns
    PROVE  [f EXCEPT ![k] = @ + 1] \in [Conns -> Nat]
OBVIOUS

LEMMA Assemble ==
    ASSUME ConnType', ClientType', SlotType', PcType', LocalType', PastType',
           Posted', Working', Severed', Linked', Owned', Single',
           SlotsExclusive'
    PROVE  IInv'
<1>1. Raised' \subseteq Events
    BY DEF Raised
<1>2. QueueType'
    BY <1>1, SeqStays, NoEventType DEF Posted, QueueType
<1> QED
    BY <1>2 DEF IInv, TypeOK, ConnType, ClientType, SlotType, QueueType, PcType,
                LocalType, PastType

\* What the thread sends is posted, or waits to be.
LEMMA Sends ==
    ASSUME IInv, NEW e \in Raised', Send(e), Raised \subseteq Raised',
           UNCHANGED <<pc, hand, packet, swapped>>
    PROVE  Posted' /\ PastType'
<1>1. queue \in Seq(Raised')
    BY SeqStays DEF IInv, Posted
<1>2. queue' \in Seq(Raised') /\ (pending' = NoEvent \/ pending' \in Raised')
    BY <1>1, Queues DEF Send, Post, IInv, Posted
<1>3. Posted'
    BY <1>2 DEF IInv, Posted
<1>4. raised' \in [Conns -> Nat]
    <2>1. raised \in [Conns -> Nat] /\ swapped' \in BOOLEAN
        BY Types DEF IInv, PastType
    <2>2. raised' = [raised EXCEPT ![e.pcb] = @ + 1]
        BY DEF Send
    <2>3. e.pcb \in Conns
        BY DEF Raised
    <2> QED
        BY <2>1, <2>2, <2>3, CountType
<1>5. disturbed' \in BOOLEAN
    <2>1. disturbed \in BOOLEAN
        BY Types DEF IInv, PastType
    <2>2. disturbed' = disturbed \/ disturbed' = (disturbed \/ Sweeping)
        BY DEF Send, Post
    <2> QED
        BY <2>1, <2>2, Zenon
<1> QED
    BY <1>3, <1>4, <1>5, Types DEF PastType, IInv

LEMMA HappensKeeps ==
    ASSUME IInv, NEW k \in Conns, Happens(k, "recv") \/ Happens(k, "poll")
    PROVE  IInv'
<1> USE DEF Happens, IInv
<1> PICK kind \in {"recv", "poll"} : Happens(k, kind)
    OBVIOUS
<1> DEFINE e == Event(kind, pcb[k].arg, k, raised[k])
<1>1. Raised' = Raised
    BY DEF Raised
<1>2. pcb[k].arg \in Addrs \cup {Null} /\ raised[k] \in Nat /\ kind \in Kinds
    BY DEF TypeOK, Kinds
<1>3. e \in Raised'
    BY <1>1, <1>2, EventType DEF Raised
<1> HIDE DEF e
<1>4. Send(e)
    BY DEF e
<1>5. Posted' /\ PastType'
    BY <1>1, <1>3, <1>4, Sends DEF locals
<1>6. Working' /\ Severed'
    BY DEF Working, Severed, Closing, Silent, This, clients, locals
<1> QED
    BY <1>5, <1>6, QuietStep, Types
       DEF ClientType, PcType, LocalType, clients, locals

LEMMA ServesKeeps == ASSUME IInv, Serves PROVE IInv'
<1> USE DEF Serves, IInv
<1>1. pc = "wait" /\ pc' \in {"discard", "idle"}
    BY DEF Goto, Ends
<1>2. ConnType /\ ConnType'
    <2>1. ConnType
        BY Types
    <2>2. CASE pcb' = pcb
        BY <2>1, <2>2 DEF ConnType
    <2>3. CASE pcb' = [pcb EXCEPT ![call.pcb].st = "closed"]
        <3>1. CASE call.pcb \in Conns
            BY <2>1, <2>3, <3>1 DEF ConnType
        <3>2. CASE call.pcb \notin Conns
            <4>1. pcb' = pcb
                BY <2>1, <2>3, <3>2 DEF ConnType
            <4> QED
                BY <2>1, <4>1 DEF ConnType
        <3> QED
            BY <3>1, <3>2
    <2> QED
        BY <2>1, <2>2, <2>3
<1>3. \A k \in Conns : /\ pcb'[k].st = pcb[k].st \/ pcb[k].st = "open"
                       /\ pcb'[k].st # "open" \/ pcb'[k].st = pcb[k].st
                       /\ pcb'[k].arg = pcb[k].arg
                       /\ pcb'[k].st \in {pcb[k].st, "closed"}
    BY <1>2 DEF ConnType
<1>4. Raised \subseteq Raised'
    BY <1>3, RaisedStays
<1>5. Posted'
    BY <1>1, <1>4, SeqStays DEF Posted, Goto, Ends
<1>6. Working'
    BY <1>1 DEF Working, This, Goto, Ends, clients
<1>7. Severed'
    BY <1>1, <1>3, <1>6 DEF Severed, Closing, Silent, Posted, Goto, Ends
<1>8. Linked'
    BY <1>2, <1>3 DEF Linked, Silent, ConnType, clients
<1>9. Owned' /\ Single'
    BY <1>3, Types DEF Owned, Single, ClientType, clients
<1>10. SlotsExclusive'
    BY <1>1, SlotsKept DEF clients
<1>11. PcType' /\ LocalType'
    BY <1>1, Types, NoEventType, NullApart
       DEF PcType, LocalType, Goto, Ends, NoCall
<1> QED
    BY <1>2, <1>5, <1>6, <1>7, <1>8, <1>9, <1>10, <1>11, Types, Assemble
       DEF ClientType, SlotType, PastType, clients, history

LEMMA ResetKeeps == ASSUME IInv, NEW k \in Conns, Reset(k) PROVE IInv'
<1> USE DEF Reset, IInv
<1> DEFINE e == Event("error", pcb[k].arg, k, raised[k])
<1>1. ConnType /\ ConnType'
    <2>1. ConnType
        BY Types
    <2> QED
        BY <2>1 DEF ConnType
<1>2. \A c \in Conns : /\ pcb'[c].arg = pcb[c].arg
                       /\ pcb'[c].st = IF c = k THEN "gone" ELSE pcb[c].st
    BY <1>1 DEF ConnType
<1>3. Raised \subseteq Raised'
    BY <1>2, RaisedStays
<1>4. e \in Raised'
    <2>1. pcb[k].arg \in Addrs \cup {Null} /\ raised[k] \in Nat
        BY DEF TypeOK
    <2> QED
        BY <1>2, <2>1, EventType DEF Raised, Kinds
<1> HIDE DEF e
<1>5. Posted' /\ PastType'
    <2>1. CASE Send(e)
        BY <1>3, <1>4, <2>1, Sends DEF locals
    <2>2. CASE UNCHANGED <<queue, pending, raised, disturbed>>
        BY <1>3, <2>2, SeqStays, Types DEF Posted, PastType, locals
    <2> QED
        BY <2>1, <2>2 DEF e
<1>6. Working'
    BY DEF Working, This, clients
<1>7. Severed'
    BY <1>2 DEF Severed, Closing, Silent, This, Posted, clients, locals
<1>8. Linked'
    BY <1>1, <1>2 DEF Linked, Silent, ConnType, clients
<1>9. Owned' /\ Single'
    BY <1>2, Types DEF Owned, Single, ClientType, clients
<1>10. SlotsExclusive'
    BY SlotsKept DEF clients
<1> QED
    BY <1>1, <1>5, <1>6, <1>7, <1>8, <1>9, <1>10, Types, Assemble
       DEF ClientType, SlotType, PcType, LocalType, clients, locals

\* The connection of the event in hand is the only one of its client.
LEMMA MyClient ==
    ASSUME IInv, NEW k \in Conns, ~Silent(k), pcb[k].arg = This,
           pc \notin {"idle", "seek", "put"}
    PROVE  k = hand.pcb
BY DEF IInv, Linked, Working

LEMMA UnlinksKeeps == ASSUME IInv, Unlinks PROVE IInv'
<1> USE DEF Unlinks, TaskAt, Goto, IInv
<1>1. /\ This \in Addrs /\ client[This].conn = hand.pcb /\ hand.pcb \in Conns
      /\ client[This].pcb \in {Null, hand.pcb}
    BY DEF Working, Severed, Posted, Raised
<1>2. ConnType /\ ClientType
    BY Types
<1>3. \A k \in Conns : pcb[k].arg \in Addrs \cup {Null}
    BY <1>2 DEF ConnType
<1>4. client[This].pcb = Null => Silent(hand.pcb)
    <2> SUFFICES ASSUME client[This].pcb = Null, ~Silent(hand.pcb) PROVE FALSE
        OBVIOUS
    <2>1. /\ client[pcb[hand.pcb].arg].conn = hand.pcb
          /\ client[pcb[hand.pcb].arg].pcb = hand.pcb
        BY <1>1 DEF Linked
    <2>2. pcb[hand.pcb].arg \in Addrs
        BY <1>1, <1>3 DEF Silent
    <2>3. pcb[hand.pcb].arg = This
        BY <1>1, <2>1, <2>2, NullApart DEF Single
    <2> QED
        BY <1>1, <2>1, <2>3, NullApart
<1>5. ConnType'
    BY <1>1, <1>2 DEF ConnType
<1>6. \A k \in Conns : /\ pcb'[k].st = pcb[k].st
                       /\ pcb'[k].arg \in {pcb[k].arg, Null}
    BY <1>1, <1>2 DEF ConnType
<1>7. client[This].pcb # Null => pcb'[hand.pcb].arg = Null
    BY <1>1, <1>2 DEF ConnType
<1>8. Raised \subseteq Raised'
    BY <1>6, RaisedStays
<1>9. Posted'
    BY <1>8, SeqStays DEF Posted, locals
<1>10. Working'
    BY DEF Working, This, clients
<1>11. Severed'
    BY <1>1, <1>4, <1>6, <1>7 DEF Severed, Closing, Silent
<1>12. Linked'
    BY <1>6 DEF Linked, Silent, clients
<1>13. Owned' /\ Single'
    BY <1>2, <1>6 DEF Owned, Single, ClientType, clients
<1>14. SlotsExclusive'
    BY SlotsKept DEF clients
<1>15. PcType' /\ LocalType'
    BY Types DEF PcType, LocalType, locals
<1> QED
    BY <1>5, <1>9, <1>10, <1>11, <1>12, <1>13, <1>14, <1>15, Types, Assemble
       DEF ClientType, SlotType, PastType, clients, history

LEMMA UnwiresKeeps == ASSUME IInv, Unwires PROVE IInv'
<1> USE DEF Unwires, TaskAt, Goto, IInv
<1>1. ConnType /\ ClientType
    BY Types
<1>2. This \in Addrs
    BY DEF Working
<1>3. client[This].pcb \in Conns \cup {Null}
    BY <1>1, <1>2 DEF ClientType
<1>4. ConnType'
    BY <1>1, <1>3 DEF ConnType
<1>5. \A k \in Conns : pcb'[k].st = pcb[k].st /\ pcb'[k].arg = pcb[k].arg
    BY <1>1, <1>3 DEF ConnType
<1>6. Raised \subseteq Raised'
    BY <1>5, RaisedStays
<1>7. Posted'
    BY <1>6, SeqStays DEF Posted, locals
<1>8. Working'
    BY DEF Working, This, clients
<1>9. Severed'
    BY <1>5 DEF Severed, Closing, Silent, Posted, Raised
<1>10. Linked' /\ Owned' /\ Single'
    BY <1>1, <1>5, ClientsKept DEF clients
<1>11. SlotsExclusive'
    BY SlotsKept DEF clients
<1>12. PcType' /\ LocalType'
    BY Types DEF PcType, LocalType, locals
<1> QED
    BY <1>4, <1>7, <1>8, <1>9, <1>10, <1>11, <1>12, Types, Assemble
       DEF ClientType, SlotType, PastType, clients, history

LEMMA DiscardsKeeps == ASSUME IInv, Discards PROVE IInv'
<1> USE DEF Discards, TaskAt, IInv
<1>1. pc \in {"discard", "error"} /\ pc' \in {"free", "idle"}
      /\ (Goto(pc') \/ Ends)
    BY DEF Goto, Ends
<1>2. This \in Addrs /\ client[This].conn = hand.pcb /\ hand.pcb \in Conns
      /\ Silent(hand.pcb)
    BY <1>1 DEF Working, Posted, Raised, Severed, Closing
<1>3. ConnType /\ ClientType
    BY Types
<1>4. ClientType'
    BY <1>2, <1>3 DEF ClientType
<1>5. \A a \in Addrs : /\ client'[a].conn = client[a].conn
                       /\ client'[a].slot = client[a].slot
                       /\ a # This => client'[a].pcb = client[a].pcb
    BY <1>2, <1>3 DEF ClientType
<1>6. Posted' /\ PcType' /\ hand' \in Events
    BY <1>1, TaskMoves DEF locals
<1>7. Working'
    BY <1>1, <1>2, <1>5 DEF Working, This, Goto, Ends
<1>8. Severed'
    BY <1>1, <1>2 DEF Severed, Closing, Silent, Goto, Ends
<1>9. Linked'
    BY <1>1, <1>2, <1>3, <1>5, MyClient DEF Linked, Silent, ConnType
<1>10. Owned' /\ Single'
    BY <1>5 DEF Owned, Single
<1>11. SlotsExclusive'
    BY <1>1, <1>5, SlotsKept
<1> QED
    BY <1>3, <1>4, <1>6, <1>7, <1>8, <1>9, <1>10, <1>11, Types, Assemble
       DEF ConnType, SlotType, LocalType, PastType, locals, history

LEMMA FreesSlotKeeps == ASSUME IInv, FreesSlot PROVE IInv'
<1> USE DEF FreesSlot, TaskAt, Goto, IInv
<1>1. This \in Addrs
    BY DEF Working
<1>2. ConnType /\ ClientType /\ SlotType
    BY Types
<1>3. Posted' /\ PcType' /\ hand' \in Events
    BY TaskMoves DEF locals
<1>4. Working'
    BY DEF Working, This
<1>5. Severed'
    BY DEF Severed, Closing, Silent
<1>6. Linked' /\ Owned' /\ Single'
    BY <1>2, ClientsKept
<1>7. closedIndex # 0 /\ SlotType'
    BY <1>2 DEF SlotType, Freed
<1>8. SlotsExclusive'
    <2>1. \A a \in Addrs : Holds(a)' <=> Holds(a) /\ a # This
        BY DEF Holds, This
    <2>2. \A s \in Slots : slots'[s] = IF s = client[This].slot THEN closedIndex
                                                                ELSE slots[s]
        BY <1>2, SlotFacts DEF Freed, SlotType
    <2>3. client[This].slot \in Slots => Holds(This)
        BY SlotFacts DEF Holds
    <2> QED
        BY <1>1, <1>2, <1>7, <2>1, <2>2, <2>3 DEF SlotsExclusive, ClientType
<1> QED
    BY <1>2, <1>3, <1>4, <1>5, <1>6, <1>7, <1>8, Types, Assemble
       DEF ConnType, ClientType, LocalType, PastType, locals, history

LEMMA DeletesKeeps == ASSUME IInv, Deletes PROVE IInv'
<1> USE DEF Deletes, TaskAt, Ends, IInv
<1>1. This \in Addrs /\ client[This].conn = hand.pcb /\ hand.pcb \in Conns
      /\ Silent(hand.pcb)
    BY DEF Working, Posted, Raised, Severed, Closing
<1>2. ConnType /\ ClientType /\ SlotType
    BY Types
<1>3. Free.conn = Null /\ Free.slot = NoSlot
      /\ Free \in [conn : Conns \cup {Null}, pcb : Conns \cup {Null},
                   slot : Slots \cup {NoSlot}, user : BOOLEAN]
    BY DEF Free
<1>4. ClientType'
    BY <1>1, <1>2, <1>3 DEF ClientType
<1>5. \A a \in Addrs : client'[a] = IF a = This THEN Free ELSE client[a]
    BY <1>2 DEF ClientType
<1>6. Posted' /\ PcType' /\ hand' \in Events
    BY TaskMoves DEF locals
<1>7. Working' /\ Severed'
    BY DEF Working, Severed, Closing
<1>8. Linked'
    BY <1>1, <1>2, <1>5, MyClient DEF Linked, Silent, ConnType
<1>9. Owned' /\ Single'
    BY <1>3, <1>5 DEF Owned, Single
<1>10. SlotsExclusive'
    <2>1. \A a \in Addrs : Holds(a)' <=> Holds(a)
        BY <1>3, <1>5 DEF Holds
    <2>2. \A a \in Addrs : Holds(a) => client'[a].slot = client[a].slot
        BY <1>5 DEF Holds
    <2> QED
        BY <2>1, <2>2 DEF SlotsExclusive
<1>11. SlotType'
    BY <1>2 DEF SlotType, NextIndex
<1> QED
    BY <1>2, <1>4, <1>6, <1>7, <1>8, <1>9, <1>10, <1>11, Types, Assemble
       DEF ConnType, LocalType, PastType, locals, history

\* The slot a client gets is free.
LEMMA AllocatedFree ==
    ASSUME NEW s \in Allocated
    PROVE  s = NoSlot \/ (s \in Slots /\ slots[s] # 0)
BY DEF Allocated

LEMMA AcceptKeeps == ASSUME IInv, NEW k \in Conns, Accept(k) PROVE IInv'
<1> USE DEF Accept, IInv
<1>1. ConnType /\ ClientType /\ SlotType
    BY Types
<1> PICK a \in Addrs, s \in Allocated :
        /\ client[a].conn = Null
        /\ client' = [client EXCEPT ![a] = [conn |-> k, pcb |-> k,
                                            slot |-> s, user |-> FALSE]]
        /\ slots' = Taken(s)
        /\ pcb' = [pcb EXCEPT ![k] = [st |-> "open", arg |-> a, on |-> TRUE]]
        /\ Send(Event("accept", a, k, 0))
    BY Zenon
<1>2. s = NoSlot \/ (s \in Slots /\ slots[s] # 0)
    BY AllocatedFree
<1>3. \A b \in Addrs :
          /\ b # a => client'[b] = client[b]
          /\ b = a => client'[b] = [conn |-> k, pcb |-> k, slot |-> s,
                                    user |-> FALSE]
    BY <1>1 DEF ClientType
<1>4. \A c \in Conns :
          /\ c # k => pcb'[c] = pcb[c]
          /\ c = k => pcb'[c] = [st |-> "open", arg |-> a, on |-> TRUE]
    BY <1>1 DEF ConnType
<1>5. ConnType'
    BY <1>1 DEF ConnType
<1>6. ClientType'
    BY <1>1, <1>2 DEF ClientType
<1>7. /\ SlotType'
      /\ \A r \in Slots : slots'[r] = IF r = s THEN 0 ELSE slots[r]
    BY <1>1, <1>2, SlotFacts DEF SlotType, Taken
<1>8. Raised \subseteq Raised'
    BY <1>4, RaisedStays
<1>9. Event("accept", a, k, 0) \in Raised'
    BY EventType DEF Raised, Kinds
<1>10. Posted' /\ PastType'
    BY <1>8, <1>9, Sends DEF locals
<1>11. pc \notin {"idle", "seek", "put"} => This # a /\ hand.pcb # k
    BY NullApart DEF Working, Posted, Raised, Owned
<1>12. Working'
    BY <1>3, <1>11 DEF Working, This
<1>13. Severed'
    BY <1>3, <1>4, <1>11 DEF Severed, Closing, Silent, Posted, Raised, Working,
                             This, locals
<1>14. Linked'
    <2> SUFFICES ASSUME NEW c \in Conns, ~Silent(c)'
                 PROVE  /\ client'[pcb'[c].arg].conn = c
                        /\ client'[pcb'[c].arg].pcb = c
        BY DEF Linked
    <2>1. CASE c = k
        BY <1>3, <1>4, <2>1
    <2>2. CASE c # k
        <3>1. ~Silent(c) /\ pcb'[c].arg = pcb[c].arg
            BY <1>4, <2>2 DEF Silent
        <3>2. pcb[c].arg \in Addrs /\ client[pcb[c].arg].conn = c
              /\ client[pcb[c].arg].pcb = c
            BY <1>1, <3>1 DEF Linked, Silent, ConnType
        <3>3. pcb[c].arg # a
            BY <3>2, NullApart
        <3> QED
            BY <1>3, <3>1, <3>2, <3>3
    <2> QED
        BY <2>1, <2>2
<1>15. Owned'
    <2> SUFFICES ASSUME NEW b \in Addrs
                 PROVE  /\ client'[b].conn = Null => client'[b].slot = NoSlot
                        /\ client'[b].conn # Null =>
                               /\ pcb'[client'[b].conn].st # "unborn"
                               /\ pcb'[client'[b].conn].st = "fin" =>
                                      client'[b].slot = NoSlot
        BY DEF Owned
    <2>1. CASE b = a
        BY <1>3, <1>4, <2>1, NullApart
    <2>2. CASE b # a
        <3>1. client'[b] = client[b] /\ client[b].conn \in Conns \cup {Null}
            BY <1>1, <1>3, <2>2 DEF ClientType
        <3>2. client[b].conn # k
            BY NullApart DEF Owned
        <3> QED
            BY <1>4, <3>1, <3>2 DEF Owned
    <2> QED
        BY <2>1, <2>2
<1>16. Single'
    <2>1. \A b \in Addrs : client[b].conn # k
        BY NullApart DEF Owned
    <2> QED
        BY <1>3, <2>1, NullApart DEF Single
<1>17. SlotsExclusive'
    <2>1. ~Holds(a)
        BY DEF Owned, Holds
    <2>2. \A b \in Addrs :
              Holds(b)' <=> IF b = a THEN s # NoSlot ELSE Holds(b)
        BY <1>3, <1>11 DEF Holds, This
    <2>3. \A b \in Addrs : Holds(b) => client[b].slot # s
        BY <1>1, <1>2 DEF SlotsExclusive, Holds, ClientType
    <2>4. \A b, c \in Addrs : Holds(b)' /\ Holds(c)' /\ b # c =>
              client'[b].slot # client'[c].slot
        BY <1>3, <2>2, <2>3 DEF SlotsExclusive
    <2>5. ASSUME NEW r \in Slots
          PROVE  slots'[r] = 0 <=>
                     \E b \in Addrs : Holds(b)' /\ client'[b].slot = r
        <3>1. CASE r = s
            BY <1>3, <1>7, <2>2, <3>1, SlotFacts
        <3>2. CASE r # s
            <4>1. slots'[r] = slots[r]
                BY <1>7, <3>2
            <4>2. \A b \in Addrs : Holds(b)' /\ client'[b].slot = r <=>
                                       Holds(b) /\ client[b].slot = r
                BY <1>3, <2>1, <2>2, <3>2
            <4> QED
                BY <4>1, <4>2 DEF SlotsExclusive
        <3> QED
            BY <3>1, <3>2
    <2> QED
        BY <2>4, <2>5 DEF SlotsExclusive
<1>18. PcType' /\ LocalType'
    BY Types DEF PcType, LocalType, locals
<1> QED
    BY <1>5, <1>6, <1>7, <1>10, <1>12, <1>13, <1>14, <1>15, <1>16, <1>17,
       <1>18, Assemble

LEMMA FreedType ==
    ASSUME SlotType, NEW s \in Slots \cup {NoSlot}
    PROVE  Freed(s) \in [Slots -> Nat] /\ NextIndex(s) \in Nat \ {0}
<1>1. slots \in [Slots -> Nat] /\ closedIndex \in Nat \ {0}
    BY DEF SlotType
<1>2. NextIndex(s) \in Nat \ {0}
    BY <1>1 DEF NextIndex
<1>3. Freed(s) \in [Slots -> Nat]
    <2>1. CASE s = NoSlot
        BY <1>1, <2>1 DEF Freed
    <2>2. CASE s # NoSlot
        <3>1. Freed(s) = [slots EXCEPT ![s] = closedIndex]
            BY <2>2 DEF Freed
        <3> QED
            BY <1>1, <3>1
    <2> QED
        BY <2>1, <2>2
<1> QED
    BY <1>2, <1>3

LEMMA FinKeepsInv == ASSUME IInv, NEW k \in Conns, Fin(k) PROVE IInv'
<1> USE DEF Fin, IInv
<1>1. ConnType /\ ClientType /\ SlotType
    BY Types
<1> DEFINE a == pcb[k].arg
<1>2. a \in Addrs /\ client[a].conn = k /\ client[a].pcb = k
    BY <1>1 DEF Linked, Silent, ConnType
<1>3. /\ pcb' = [pcb EXCEPT ![k].st = "fin", ![k].arg = Null]
      /\ slots' = Freed(client[a].slot)
      /\ closedIndex' = NextIndex(client[a].slot)
      /\ client' = [client EXCEPT ![a].slot = NoSlot, ![a].pcb = Null]
      /\ Send(Event("fin", a, k, raised[k]))
      /\ UNCHANGED <<pc, hand, locals, swapped>>
    BY DEF FinFrees
<1>4. ~Silent(k)
    BY <1>2, NullApart DEF Silent
<1> HIDE DEF a, Fin
<1>5. \A b \in Addrs :
          /\ b # a => client'[b] = client[b]
          /\ b = a => /\ client'[b].slot = NoSlot /\ client'[b].pcb = Null
                      /\ client'[b].conn = client[b].conn
    BY <1>1, <1>3 DEF ClientType
<1>6. \A c \in Conns :
          /\ c # k => pcb'[c] = pcb[c]
          /\ c = k => pcb'[c].st = "fin" /\ pcb'[c].arg = Null
    BY <1>1, <1>3 DEF ConnType
<1>7. ConnType'
    BY <1>1, <1>3 DEF ConnType
<1>8. ClientType'
    BY <1>1, <1>2, <1>3 DEF ClientType
<1>9. closedIndex # 0 /\ SlotType'
    <2>1. client[a].slot \in Slots \cup {NoSlot}
        BY <1>1, <1>2 DEF ClientType
    <2> QED
        BY <1>1, <1>3, <2>1, FreedType DEF SlotType
<1>10. Raised \subseteq Raised'
    BY <1>4, <1>6, RaisedStays DEF Silent
<1>11. Event("fin", a, k, raised[k]) \in Raised'
    <2>1. raised[k] \in Nat
        BY DEF TypeOK
    <2> QED
        BY <1>2, <1>6, <2>1, EventType DEF Raised, Kinds
<1>12. Posted' /\ PastType'
    BY <1>3, <1>10, <1>11, Sends DEF locals
<1>13. \A b \in Addrs : client'[b].conn = client[b].conn
    BY <1>5
<1>14. Working'
    BY <1>3, <1>13 DEF Working, This
<1>15. Severed'
    <2>1. UNCHANGED <<pc, hand, call>>
        BY <1>3 DEF locals
    <2>2. (Closing => Silent(hand.pcb))'
        <3>1. Closing' => Closing /\ hand.pcb \in Conns
            BY <2>1 DEF Closing, Posted, Raised
        <3>2. Silent(hand.pcb) /\ hand.pcb \in Conns => Silent(hand.pcb)'
            BY <1>6, <2>1 DEF Silent
        <3> QED
            BY <3>1, <3>2 DEF Severed
    <2>3. (pc = "unlink" => client[This].pcb \in {Null, hand.pcb})'
        BY <1>5, <2>1 DEF Severed, Working, This
    <2> QED
        BY <2>2, <2>3 DEF Severed
<1>16. Linked'
    <2> SUFFICES ASSUME NEW c \in Conns, ~Silent(c)'
                 PROVE  /\ client'[pcb'[c].arg].conn = c
                        /\ client'[pcb'[c].arg].pcb = c
        BY DEF Linked
    <2>1. c # k /\ pcb'[c] = pcb[c] /\ ~Silent(c)
        BY <1>6 DEF Silent
    <2>2. pcb[c].arg \in Addrs /\ client[pcb[c].arg].conn = c
          /\ client[pcb[c].arg].pcb = c
        BY <1>1, <2>1 DEF Linked, Silent, ConnType
    <2>3. pcb[c].arg # a
        BY <1>2, <2>1, <2>2
    <2> QED
        BY <1>5, <2>1, <2>2, <2>3
<1>17. Owned'
    <2> SUFFICES ASSUME NEW b \in Addrs
                 PROVE  /\ client'[b].conn = Null => client'[b].slot = NoSlot
                        /\ client'[b].conn # Null =>
                               /\ pcb'[client'[b].conn].st # "unborn"
                               /\ pcb'[client'[b].conn].st = "fin" =>
                                      client'[b].slot = NoSlot
        BY DEF Owned
    <2>1. CASE b = a
        BY <1>2, <1>5, <1>6, <2>1
    <2>2. CASE b # a
        <3>1. client'[b] = client[b] /\ client[b].conn \in Conns \cup {Null}
            BY <1>1, <1>5, <2>2 DEF ClientType
        <3>2. client[b].conn # k
            BY <1>2, <2>2, NullApart DEF Single
        <3> QED
            BY <1>6, <3>1, <3>2 DEF Owned
    <2> QED
        BY <2>1, <2>2
<1>18. Single'
    BY <1>13 DEF Single
<1>19. SlotsExclusive'
    <2>1. ~(pc = "delete" /\ a = This)
        <3>1. SUFFICES ASSUME pc = "delete", a = This PROVE FALSE
            OBVIOUS
        <3>2. k = hand.pcb
            BY <1>4, <3>1, MyClient DEF a
        <3> QED
            BY <1>4, <3>1, <3>2 DEF Severed, Closing
    <2>2. \A b \in Addrs : Holds(b)' <=> Holds(b) /\ b # a
        BY <1>3, <1>5 DEF Holds, This
    <2>3. \A s \in Slots : slots'[s] = IF s = client[a].slot THEN closedIndex
                                                             ELSE slots[s]
        BY <1>1, <1>3, SlotFacts DEF Freed, SlotType
    <2>4. client[a].slot \in Slots => Holds(a)
        BY <2>1, SlotFacts DEF Holds
    <2>5. \A b, c \in Addrs : Holds(b)' /\ Holds(c)' /\ b # c =>
              client'[b].slot # client'[c].slot
        BY <1>5, <2>2 DEF SlotsExclusive
    <2>6. ASSUME NEW s \in Slots
          PROVE  slots'[s] = 0 <=>
                     \E b \in Addrs : Holds(b)' /\ client'[b].slot = s
        <3>1. CASE s = client[a].slot
            <4>1. slots'[s] # 0
                BY <1>9, <2>3, <3>1
            <4>2. \A b \in Addrs : Holds(b) /\ b # a => client[b].slot # s
                BY <1>2, <2>4, <3>1 DEF SlotsExclusive
            <4> QED
                BY <1>5, <2>2, <4>1, <4>2
        <3>2. CASE s # client[a].slot
            <4>1. slots'[s] = slots[s]
                BY <2>3, <3>2
            <4>2. \A b \in Addrs : Holds(b)' /\ client'[b].slot = s <=>
                                       Holds(b) /\ client[b].slot = s
                BY <1>5, <2>2, <3>2
            <4> QED
                BY <4>1, <4>2 DEF SlotsExclusive
        <3> QED
            BY <3>1, <3>2
    <2> QED
        BY <2>5, <2>6 DEF SlotsExclusive
<1>20. PcType' /\ LocalType'
    BY <1>3, Types DEF PcType, LocalType, locals
<1> QED
    BY <1>7, <1>8, <1>9, <1>12, <1>14, <1>15, <1>16, <1>17, <1>18, <1>19,
       <1>20, Assemble

\* An empty queue, no client, every slot free: where the board starts.
Booted ==
    /\ client = [a \in Addrs |-> Free]
    /\ slots = [s \in Slots |-> 1] /\ closedIndex = 1
    /\ queue = <<>> /\ pending = NoEvent
    /\ pc = "idle" /\ hand = NoEvent /\ first = NoEvent /\ packet = NoEvent
    /\ call = NoCall

AllSilent == \A k \in Conns : Silent(k)

LEMMA BootedInv ==
    Booted /\ ConnType /\ PastType /\ AllSilent => IInv
<1> SUFFICES ASSUME Booted, ConnType, PastType, AllSilent PROVE IInv
    OBVIOUS
<1> USE DEF Booted, AllSilent
<1>1. Free.conn = Null /\ Free.slot = NoSlot
      /\ Free \in [conn : Conns \cup {Null}, pcb : Conns \cup {Null},
                   slot : Slots \cup {NoSlot}, user : BOOLEAN]
    BY DEF Free
<1>2. ClientType /\ \A a \in Addrs : client[a] = Free
    BY <1>1 DEF ClientType
<1>3. SlotType /\ \A s \in Slots : slots[s] # 0
    BY DEF SlotType
<1>4. PcType /\ LocalType
    BY NoEventType DEF PcType, LocalType, NoCall
<1>5. Posted /\ QueueType
    BY NoEventType DEF Posted, QueueType
<1>6. Working /\ Severed
    BY DEF Working, Severed, Closing
<1>7. Linked /\ Owned /\ Single
    BY <1>1, <1>2 DEF Linked, Owned, Single
<1>8. SlotsExclusive
    BY <1>1, <1>2, <1>3 DEF SlotsExclusive, Holds
<1> QED
    BY <1>2, <1>3, <1>4, <1>5, <1>6, <1>7, <1>8, Types DEF IInv

LEMMA InitInv == Init => IInv
<1> SUFFICES ASSUME Init PROVE IInv
    OBVIOUS
<1>1. ConnType /\ PastType /\ AllSilent
    BY DEF Init, ConnType, PastType, Silent, AllSilent
<1>2. Booted
    BY DEF Init, Booted
<1> QED
    BY <1>1, <1>2, BootedInv

LEMMA RestartKeeps == ASSUME IInv, Restart PROVE IInv'
<1> USE DEF Restart
<1>1. Booted'
    BY DEF Booted
<1>2. ConnType /\ PastType
    BY Types DEF IInv
<1>3. \A c \in Conns :
          pcb'[c] = IF pcb[c].st = "unborn" THEN pcb[c]
                    ELSE [st |-> "gone", arg |-> Null, on |-> FALSE]
    OBVIOUS
<1>4. ConnType'
    BY <1>2, <1>3 DEF ConnType
<1>5. PastType'
    BY <1>2 DEF PastType, history
<1>6. AllSilent'
    BY <1>2, <1>3 DEF Silent, ConnType, AllSilent
<1>7. Booted' /\ ConnType' /\ PastType' /\ AllSilent' => IInv'
    BY BootedInv, PTL
<1> QED
    BY <1>1, <1>4, <1>5, <1>6, <1>7
-----------------------------------------------------------------------------
(* The theorems. *)

LEMMA StutterKeeps == ASSUME IInv, UNCHANGED vars PROVE IInv'
BY QuietStep, PostedType, Types
   DEF vars, clients, locals, history, IInv, ClientType, PcType, LocalType,
       PastType, Posted, Raised, Working, Severed, Closing, Silent, This

LEMMA NextKeeps == IInv /\ [Next]_vars => IInv'
<1> SUFFICES ASSUME IInv, [Next]_vars PROVE IInv'
    OBVIOUS
<1>1. CASE Task
    BY <1>1, GetsKeeps, AcceptedKeeps, PolledKeeps, HandledKeeps, ReadsPcbKeeps,
       ReadsSlotKeeps, UnlinksKeeps, UnwiresKeeps, CleansKeeps,
       ClosedBeforeKeeps, DiscardsKeeps, FreesSlotKeeps, DeletesKeeps,
       SweepsKeeps, PutsBackKeeps, SweepEndsKeeps, Zenon DEF Task
<1>2. CASE Posts
    BY <1>2, PostsKeeps
<1>3. CASE Serves
    BY <1>3, ServesKeeps
<1>4. CASE Network
    BY <1>4, AcceptKeeps, HappensKeeps, FinKeepsInv, RestartKeeps, ResetKeeps,
       Zenon DEF Network, FinOfNoClient
<1>5. CASE WatchdogBites
    BY <1>5, RestartKeeps DEF WatchdogBites
<1>6. CASE UNCHANGED vars
    BY <1>6, StutterKeeps
<1> QED
    BY <1>1, <1>2, <1>3, <1>4, <1>5, <1>6 DEF Next

\* Slots, clients, connections and events fit together, however the two
\* threads take turns.
THEOREM Invariance == Spec => []IInv
BY InitInv, NextKeeps, PTL DEF Spec

\* Every variable keeps to its type, whatever comes in and in which order.
THEOREM TypeCorrect == Spec => []TypeOK
<1>1. IInv => TypeOK
    BY DEF IInv
<1> QED
    BY <1>1, Invariance, PTL

\* A slot belongs to one client, although both threads give slots back: the
\* TCP/IP thread in _lwip_fin(), the task in the destructor, in two steps
\* between which a new connection may take the slot.
THEOREM SlotsNeverShared == Spec => []SlotsExclusive
<1>1. IInv => SlotsExclusive
    BY DEF IInv
<1> QED
    BY <1>1, Invariance, PTL

\* A call that waits while its connection is closed is let through only if
\* its slot was read too late, or has gone to another connection.
THEOREM LateCallsHeld == Spec => []CallsGuarded
<1>1. IInv => CallsGuarded
    <2> SUFFICES ASSUME IInv, pc = "wait", pcb[call.pcb].st = "fin", LetThrough,
                        call.slot # NoSlot
                 PROVE  \E a \in Addrs : /\ client[a].slot = call.slot
                                         /\ client[a].conn # call.pcb
        BY Zenon DEF CallsGuarded
    <2>1. call.slot \in Slots
        BY DEF IInv, TypeOK
    <2>2. slots[call.slot] = 0
        BY DEF LetThrough
    <2>3. PICK a \in Addrs : Holds(a) /\ client[a].slot = call.slot
        BY <2>1, <2>2 DEF IInv, SlotsExclusive
    <2>4. client[a].conn # Null
        BY <2>3 DEF IInv, Owned, Holds
    <2>5. client[a].conn # call.pcb
        BY <2>3, <2>4 DEF IInv, Owned
    <2> QED
        BY <2>3, <2>5
<1> QED
    BY <1>1, Invariance, PTL
=============================================================================
