------------------------- MODULE AsyncTcpEventProofs -------------------------
(***************************************************************************)
(* The queue of AsyncTCP.  An event finds its client as long as the events *)
(* of each connection keep their order; the sweeps keep it for what is in  *)
(* the queue when they begin; and a queue that is full while the task      *)
(* waits for room stays so.                                                *)
(*                                                                         *)
(* QInv says what is in the queue, OInv in which order and with whose      *)
(* clients, RInv how far a sweep has turned it.                            *)
(***************************************************************************)
EXTENDS AsyncTcpProofs
-----------------------------------------------------------------------------
(* The order of the events. *)

\* lwIP raised the event.
Told(e) == e.kind \notin {"none", "clear"}

Before(e, f) == Told(e) /\ Told(f) /\ e.pcb = f.pcb => e.n < f.n

Apart(e, f) == Told(e) /\ Told(f) /\ e.pcb = f.pcb => e.n # f.n

\* A connection's accept is its first event, and an error its last so far.
Sound(e) ==
    Told(e) => /\ e.n < raised[e.pcb]
               /\ e.kind = "error" => e.n = raised[e.pcb] - 1
               /\ e.kind = "accept" => e.n = 0

\* The events the task has, in the queue or out of it.
Held == {queue[i] : i \in DOMAIN queue} \cup {hand, first, packet}

Counted ==
    /\ \A k \in Conns : pcb[k].st = "unborn" => raised[k] = 0
    /\ \A e \in Held \cup {pending} : Sound(e)

\* What waits to be sent is the last word of its connection.
PendingLast == \A e \in Held : Before(e, pending)

InHand ==
    /\ pc = "idle" => hand = NoEvent
    /\ Sweeping <=> hand.kind = "clear"
    /\ pc = "error" => hand.kind = "error"
    /\ pc # "put" => packet = NoEvent
    /\ ~Sweeping => first = NoEvent
    /\ "clear" \notin {pending.kind, first.kind, packet.kind}
    /\ first = NoEvent \/ first \in Raised

Distinct ==
    /\ \A i, j \in DOMAIN queue : i < j => Apart(queue[i], queue[j])
    /\ \A i \in DOMAIN queue : Apart(queue[i], packet)

\* The task on the way to a clean-up, and in one.
Bare == pc \in {"poll", "fin", "unlink", "unwire", "clean", "seek", "put"}

\* A clean-up is alone, and only new connections come before it.
Cleared ==
    /\ \A i, j \in DOMAIN queue : queue[i].kind = "clear" /\ j < i =>
           queue[j].kind = "accept"
    /\ Bare => \A i \in DOMAIN queue : queue[i].kind # "clear"

Leaving ==
    \/ pc \in {"close", "discard", "free", "delete"}
    \/ pc \in {"slot", "wait"} /\ call.op = "close"

\* Before a client is deleted its clean-up is on the way, and lwIP has nothing
\* more to say of it; or else lwIP has said its last word.
Doomed ==
    Leaving =>
        \/ hand.kind = "error"
        \/ /\ pending.arg # This
           /\ \E i \in DOMAIN queue :
                  queue[i].kind = "clear" /\ queue[i].arg = This

QInv == Counted /\ PendingLast /\ InHand /\ Distinct /\ Cleared /\ Doomed

\* Outside of a sweep the queue is in order.
Ordered ==
    ~Sweeping => \A i, j \in DOMAIN queue : i < j => Before(queue[i], queue[j])

HandFirst == \A i \in DOMAIN queue : Before(hand, queue[i])

\* The event is of no client, or of one that is there.
Of(e) == e.arg = Null \/ ForClient(e)

\* A clean-up will take the event away before its turn comes.
Swept(i) ==
    /\ queue[i].kind # "accept"
    /\ \/ \E j \in DOMAIN queue : /\ j < i /\ queue[j].kind = "clear"
                                  /\ queue[j].arg = queue[i].arg
       \/ /\ Sweeping /\ queue[i].arg = This
          /\ \A j \in DOMAIN queue : j <= i => queue[j] # first

Kept ==
    /\ Of(pending) /\ Of(packet)
    /\ \A i \in DOMAIN queue :
           queue[i].kind = "clear" \/ Of(queue[i]) \/ Swept(i)

OInv == ~swapped => Ordered /\ HandFirst /\ Kept
-----------------------------------------------------------------------------
(* Sequences. *)

LEMMA AtFront ==
    ASSUME NEW S, NEW q \in Seq(S), NEW e \in S, NEW r, r = <<e>> \o q
    PROVE  /\ DOMAIN r = 1 .. Len(q) + 1 /\ r[1] = e
           /\ \A i \in DOMAIN q : i + 1 \in DOMAIN r /\ r[i + 1] = q[i]
           /\ \A i \in DOMAIN r : i # 1 => i - 1 \in DOMAIN q /\ r[i] = q[i - 1]
<1>1. <<e>> \in Seq(S) /\ Len(<<e>>) = 1 /\ <<e>>[1] = e
    OBVIOUS
<1>2. r \in Seq(S) /\ Len(r) = Len(q) + 1
    BY <1>1
<1>3. DOMAIN r = 1 .. Len(q) + 1 /\ DOMAIN q = 1 .. Len(q) /\ Len(q) \in Nat
    BY <1>2
<1>4. \A i \in 1 .. Len(q) + 1 : r[i] = IF i = 1 THEN e ELSE q[i - 1]
    BY <1>1
<1> QED
    BY <1>3, <1>4

LEMMA AtEnd ==
    ASSUME NEW S, NEW q \in Seq(S), NEW e \in S, NEW r, r = Append(q, e)
    PROVE  /\ DOMAIN r = 1 .. Len(q) + 1 /\ r[Len(q) + 1] = e
           /\ \A i \in DOMAIN q : i \in DOMAIN r /\ r[i] = q[i]
           /\ \A i \in DOMAIN r : i # Len(q) + 1 => i \in DOMAIN q
           /\ \A i \in DOMAIN q : i < Len(q) + 1
OBVIOUS

LEMMA EnqueuedIn ==
    ASSUME NEW S, NEW q \in Seq(S), NEW e \in S, NEW r, r = Enqueue(q, e)
    PROVE  \A i \in DOMAIN r : r[i] = e \/ \E j \in DOMAIN q : r[i] = q[j]
<1>1. CASE r = <<e>> \o q
    BY <1>1, AtFront
<1>2. CASE r = Append(q, e)
    BY <1>2, AtEnd
<1> QED
    BY <1>1, <1>2 DEF Enqueue

LEMMA OffFront ==
    ASSUME NEW S, NEW q \in Seq(S), q # <<>>
    PROVE  /\ 1 \in DOMAIN q /\ Head(q) = q[1]
           /\ \A i \in DOMAIN Tail(q) : /\ i + 1 \in DOMAIN q
                                        /\ Tail(q)[i] = q[i + 1]
           /\ \A i \in DOMAIN q : i # 1 => /\ i - 1 \in DOMAIN Tail(q)
                                           /\ q[i] = Tail(q)[i - 1]
OBVIOUS

LEMMA Places == ASSUME NEW S, NEW q \in Seq(S)
                PROVE  \A i \in DOMAIN q : i \in Nat /\ i >= 1 /\ q[i] \in S
OBVIOUS
-----------------------------------------------------------------------------
(* What steps do to the events. *)

LEMMA HeldRaised ==
    ASSUME IInv, QInv
    PROVE  \A e \in Held \cup {pending} : e \in Raised \cup {NoEvent}
<1>1. hand \in Raised \cup {NoEvent} /\ packet \in Raised \cup {NoEvent}
      /\ first \in Raised \cup {NoEvent}
    BY DEF IInv, QInv, Posted, InHand
<1>2. \A i \in DOMAIN queue : queue[i] \in Raised
    BY Places DEF IInv, Posted
<1>3. pending \in Raised \cup {NoEvent}
    BY DEF IInv, Posted
<1> QED
    BY <1>1, <1>2, <1>3 DEF Held

LEMMA Untold == ~Told(NoEvent) /\ NoEvent.arg = Null
BY NoEventType, EventType DEF Told, NoEvent, Kinds

LEMMA CountStays ==
    ASSUME QInv, raised' = raised,
           \A k \in Conns : pcb'[k].st = "unborn" => pcb[k].st = "unborn",
           \A e \in Held' \cup {pending'} :
               e \in Held \cup {pending} \/ ~Told(e)
    PROVE  Counted'
<1>1. \A e : Sound(e) => Sound(e)'
    BY DEF Sound, Told
<1>2. \A e : ~Told(e) => Sound(e)'
    BY DEF Sound, Told
<1> QED
    BY <1>1, <1>2 DEF QInv, Counted

LEMMA LastStays ==
    ASSUME QInv, pending' = pending,
           \A e \in Held' : e \in Held \/ ~Told(e)
    PROVE  PendingLast'
BY DEF QInv, PendingLast, Before, Told

LEMMA NoneLast == ASSUME pending' = NoEvent PROVE PendingLast'
BY Untold DEF PendingLast, Before, Told

\* An event is posted after all that its connection raised before.
LEMMA Inserting ==
    ASSUME IInv, QInv, NEW e \in Events, Told(e), \A x \in Held : Before(x, e),
           queue' = Enqueue(queue, e), pending' = NoEvent, Counted',
           UNCHANGED <<pc, hand, first, packet, call>>,
           Raised \subseteq Raised',
           Leaving => hand.kind = "error" \/ e.arg # This
    PROVE  QInv'
<1>1. queue \in Seq(Events)
    BY DEF IInv, TypeOK
<1>2. \A i \in DOMAIN queue : queue[i] \in Held
    BY DEF Held
<1>3. {hand, first, packet} \subseteq Held
    BY DEF Held
<1>4. \A x \in Held : Apart(x, e) /\ Apart(e, x)
    <2> SUFFICES ASSUME NEW x \in Held, Told(x), x.pcb = e.pcb
                 PROVE  x.n # e.n
        BY DEF Apart
    <2>1. x.n < e.n
        BY DEF Before
    <2>2. x \in Events
        BY HeldRaised, RaisedAreEvents, NoEventType
    <2> QED
        BY <2>1, <2>2 DEF Events
<1>5. PendingLast'
    BY NoneLast
<1>6. InHand'
    BY NoEventType DEF QInv, InHand, Sweeping
<1>7. Leaving => This # Null
    BY NullApart DEF IInv, Working, Leaving
<1>8. CASE e.kind = "accept"
    <2>1. queue' = <<e>> \o queue
        BY <1>8 DEF Enqueue
    <2>2. /\ DOMAIN queue' = 1 .. Len(queue) + 1 /\ queue'[1] = e
          /\ \A i \in DOMAIN queue : /\ i + 1 \in DOMAIN queue'
                                     /\ queue'[i + 1] = queue[i]
          /\ \A i \in DOMAIN queue' : i # 1 => /\ i - 1 \in DOMAIN queue
                                               /\ queue'[i] = queue[i - 1]
        BY <1>1, <2>1, AtFront
    <2>3. \A i \in DOMAIN queue : i \in Nat /\ i >= 1
        BY <1>1, Places
    <2>4. \A i \in DOMAIN queue' : i \in Nat /\ i >= 1
        BY <1>1, <2>2
    <2>5. Distinct'
        <3>1. ASSUME NEW i \in DOMAIN queue', NEW j \in DOMAIN queue', i < j
              PROVE  Apart(queue'[i], queue'[j])
            <4>1. j # 1 /\ j - 1 \in DOMAIN queue /\ queue'[j] = queue[j - 1]
                BY <2>2, <2>4, <3>1
            <4>2. CASE i = 1
                BY <1>2, <1>4, <2>2, <4>1, <4>2
            <4>3. CASE i # 1
                <5>1. /\ i - 1 \in DOMAIN queue /\ i - 1 < j - 1
                      /\ queue'[i] = queue[i - 1]
                    BY <2>2, <2>4, <3>1, <4>3
                <5> QED
                    BY <4>1, <5>1 DEF QInv, Distinct
            <4> QED
                BY <4>2, <4>3
        <3>2. ASSUME NEW i \in DOMAIN queue'
              PROVE  Apart(queue'[i], packet)
            BY <1>3, <1>4, <2>2 DEF QInv, Distinct
        <3> QED
            BY <3>1, <3>2 DEF Distinct, Apart, Told
    <2>6. Cleared'
        <3>1. ASSUME NEW i \in DOMAIN queue', NEW j \in DOMAIN queue',
                     queue'[i].kind = "clear", j < i
              PROVE  queue'[j].kind = "accept"
            <4>1. i # 1 /\ i - 1 \in DOMAIN queue /\ queue'[i] = queue[i - 1]
                BY <1>8, <2>2, <3>1
            <4>2. CASE j = 1
                BY <1>8, <2>2, <4>2
            <4>3. CASE j # 1
                <5>1. /\ j - 1 \in DOMAIN queue /\ j - 1 < i - 1
                      /\ queue'[j] = queue[j - 1]
                    BY <2>2, <2>4, <3>1, <4>3
                <5> QED
                    BY <3>1, <4>1, <5>1 DEF QInv, Cleared
            <4> QED
                BY <4>2, <4>3
        <3>2. ASSUME Bare, NEW i \in DOMAIN queue'
              PROVE  queue'[i].kind # "clear"
            BY <1>8, <2>2, <3>2 DEF QInv, Cleared
        <3> QED
            BY <3>1, <3>2 DEF Cleared, Bare
    <2>7. Doomed'
        BY <1>7, <2>2, Untold DEF QInv, Doomed, Leaving, This
    <2> QED
        BY <1>5, <1>6, <2>5, <2>6, <2>7 DEF QInv
<1>9. CASE e.kind # "accept"
    <2>1. queue' = Append(queue, e)
        BY <1>9 DEF Enqueue, Told
    <2> DEFINE l == Len(queue) + 1
    <2>2. /\ DOMAIN queue' = 1 .. l /\ queue'[l] = e
          /\ \A i \in DOMAIN queue : /\ i \in DOMAIN queue' /\ i < l
                                     /\ queue'[i] = queue[i]
          /\ \A i \in DOMAIN queue' : i # l => i \in DOMAIN queue
        BY <1>1, <2>1, AtEnd
    <2>3. l \in Nat /\ \A i \in DOMAIN queue' : i \in Nat /\ i <= l
        BY <1>1, <2>2
    <2> HIDE DEF l
    <2>5. Distinct'
        <3>1. ASSUME NEW i \in DOMAIN queue', NEW j \in DOMAIN queue', i < j
              PROVE  Apart(queue'[i], queue'[j])
            <4>1. i \in DOMAIN queue /\ queue'[i] = queue[i]
                BY <2>2, <2>3, <3>1
            <4> QED
                BY <1>2, <1>4, <2>2, <3>1, <4>1 DEF QInv, Distinct
        <3>2. ASSUME NEW i \in DOMAIN queue'
              PROVE  Apart(queue'[i], packet)
            BY <1>3, <1>4, <2>2 DEF QInv, Distinct
        <3> QED
            BY <3>1, <3>2 DEF Distinct, Apart, Told
    <2>6. Cleared'
        <3>1. ASSUME NEW i \in DOMAIN queue', NEW j \in DOMAIN queue',
                     queue'[i].kind = "clear", j < i
              PROVE  queue'[j].kind = "accept"
            <4>1. i # l
                BY <2>2, <3>1 DEF Told
            <4>2. j # l
                BY <2>3, <3>1
            <4> QED
                BY <2>2, <3>1, <4>1, <4>2 DEF QInv, Cleared
        <3>2. ASSUME Bare, NEW i \in DOMAIN queue'
              PROVE  queue'[i].kind # "clear"
            BY <2>2, <3>2 DEF QInv, Cleared, Told
        <3> QED
            BY <3>1, <3>2 DEF Cleared, Bare
    <2>7. Doomed'
        BY <1>7, <2>2, Untold DEF QInv, Doomed, Leaving, This
    <2> QED
        BY <1>5, <1>6, <2>5, <2>6, <2>7 DEF QInv
<1> QED
    BY <1>8, <1>9

LEMMA InsertingInOrder ==
    ASSUME IInv, QInv, OInv, NEW e \in Events, Told(e),
           \A x \in Held : Before(x, e), e.kind = "accept" => e.n = 0,
           queue' = Enqueue(queue, e), pending' = NoEvent,
           UNCHANGED <<pc, hand, first, packet, swapped>>,
           Of(e)', \A x \in Held : Of(x) => Of(x)'
    PROVE  OInv'
<1> SUFFICES ASSUME ~swapped, Ordered, HandFirst, Kept
             PROVE  Ordered' /\ HandFirst' /\ Kept'
    BY DEF OInv
<1>1. queue \in Seq(Events)
    BY DEF IInv, TypeOK
<1>2. \A i \in DOMAIN queue : queue[i] \in Held
    BY DEF Held
<1>3. {hand, first, packet} \subseteq Held
    BY DEF Held
<1>4. Held \subseteq Events
    BY HeldRaised, RaisedAreEvents, NoEventType
<1>5. \A x \in Held : x # e
    BY DEF Before, Events
<1>6. (Of(pending) /\ Of(packet))'
    BY <1>3, Untold DEF Kept, Of
<1>7. CASE e.kind = "accept"
    <2>1. queue' = <<e>> \o queue
        BY <1>7 DEF Enqueue
    <2>2. /\ DOMAIN queue' = 1 .. Len(queue) + 1 /\ queue'[1] = e
          /\ \A i \in DOMAIN queue : /\ i + 1 \in DOMAIN queue'
                                     /\ queue'[i + 1] = queue[i]
          /\ \A i \in DOMAIN queue' : i # 1 => /\ i - 1 \in DOMAIN queue
                                               /\ queue'[i] = queue[i - 1]
        BY <1>1, <2>1, AtFront
    <2>3. \A i \in DOMAIN queue : i \in Nat /\ i >= 1
        BY <1>1, Places
    <2>4. \A i \in DOMAIN queue' : i \in Nat /\ i >= 1
        BY <1>1, <2>2
    <2>5. \A x \in Held : Before(e, x)
        BY <1>4, <1>7 DEF Before, Events
    <2>6. Ordered'
        <3> SUFFICES ASSUME ~Sweeping, NEW i \in DOMAIN queue',
                            NEW j \in DOMAIN queue', i < j
                     PROVE  Before(queue'[i], queue'[j])
            BY DEF Ordered, Sweeping, Before, Told
        <3>1. j # 1 /\ j - 1 \in DOMAIN queue /\ queue'[j] = queue[j - 1]
            BY <2>2, <2>4
        <3>2. CASE i = 1
            BY <1>2, <2>2, <2>5, <3>1, <3>2
        <3>3. CASE i # 1
            <4>1. /\ i - 1 \in DOMAIN queue /\ i - 1 < j - 1
                  /\ queue'[i] = queue[i - 1]
                BY <2>2, <2>4, <3>3
            <4> QED
                BY <3>1, <4>1 DEF Ordered
        <3> QED
            BY <3>2, <3>3
    <2>7. HandFirst'
        BY <1>3, <2>2 DEF HandFirst, Before, Told
    <2>8. ASSUME NEW i \in DOMAIN queue'
          PROVE  (queue[i].kind = "clear" \/ Of(queue[i]) \/ Swept(i))'
        <3>1. CASE i = 1
            BY <2>2, <3>1 DEF Of
        <3>2. CASE i # 1
            <4> DEFINE j == i - 1
            <4>1. j \in DOMAIN queue /\ queue'[i] = queue[j] /\ i = j + 1
                  /\ i \in Nat /\ j \in Nat
                BY <2>2, <2>3, <2>4, <3>2
            <4> HIDE DEF j
            <4>2. CASE Of(queue[j])
                BY <1>2, <4>1, <4>2 DEF Of
            <4>3. CASE Swept(j)
                <5>1. queue[j].kind # "accept"
                    BY <4>3 DEF Swept
                <5>2. ASSUME NEW m \in DOMAIN queue, m < j,
                             queue[m].kind = "clear",
                             queue[m].arg = queue[j].arg
                      PROVE  Swept(i)'
                    <6>1. m + 1 \in DOMAIN queue' /\ queue'[m + 1] = queue[m]
                          /\ m + 1 < i
                        BY <2>2, <2>3, <4>1, <5>2
                    <6> QED
                        BY <4>1, <5>1, <5>2, <6>1 DEF Swept
                <5>3. ASSUME Sweeping, queue[j].arg = This,
                             \A m \in DOMAIN queue : m <= j => queue[m] # first
                      PROVE  Swept(i)'
                    <6>1. \A m \in DOMAIN queue' : m <= i => queue'[m] # first
                        <7> SUFFICES ASSUME NEW m \in DOMAIN queue', m <= i
                                     PROVE  queue'[m] # first
                            OBVIOUS
                        <7>1. CASE m = 1
                            BY <1>3, <1>5, <2>2, <7>1
                        <7>2. CASE m # 1
                            <8>1. m - 1 \in DOMAIN queue /\ m - 1 <= j
                                  /\ queue'[m] = queue[m - 1]
                                BY <2>2, <2>4, <4>1, <7>2
                            <8> QED
                                BY <5>3, <8>1
                        <7> QED
                            BY <7>1, <7>2
                    <6> QED
                        BY <4>1, <5>1, <5>3, <6>1 DEF Swept, Sweeping, This
                <5> QED
                    BY <4>3, <5>2, <5>3 DEF Swept
            <4> QED
                BY <4>1, <4>2, <4>3 DEF Kept
        <3> QED
            BY <3>1, <3>2
    <2> QED
        BY <1>6, <2>6, <2>7, <2>8 DEF Kept
<1>8. CASE e.kind # "accept"
    <2>1. queue' = Append(queue, e)
        BY <1>8 DEF Enqueue, Told
    <2> DEFINE l == Len(queue) + 1
    <2>2. /\ DOMAIN queue' = 1 .. l /\ queue'[l] = e
          /\ \A i \in DOMAIN queue : /\ i \in DOMAIN queue' /\ i < l
                                     /\ queue'[i] = queue[i]
          /\ \A i \in DOMAIN queue' : i # l => i \in DOMAIN queue
        BY <1>1, <2>1, AtEnd
    <2>3. l \in Nat /\ \A i \in DOMAIN queue' : i \in Nat /\ i <= l
        BY <1>1, <2>2
    <2> HIDE DEF l
    <2>4. Ordered'
        <3> SUFFICES ASSUME ~Sweeping, NEW i \in DOMAIN queue',
                            NEW j \in DOMAIN queue', i < j
                     PROVE  Before(queue'[i], queue'[j])
            BY DEF Ordered, Sweeping, Before, Told
        <3>1. i \in DOMAIN queue /\ queue'[i] = queue[i]
            BY <2>2, <2>3
        <3> QED
            BY <1>2, <2>2, <3>1 DEF Ordered
    <2>5. HandFirst'
        BY <1>3, <2>2 DEF HandFirst, Before, Told
    <2>6. ASSUME NEW i \in DOMAIN queue'
          PROVE  (queue[i].kind = "clear" \/ Of(queue[i]) \/ Swept(i))'
        <3>1. CASE i = l
            BY <2>2, <3>1 DEF Of
        <3>2. CASE i # l
            <4>1. i \in DOMAIN queue /\ queue'[i] = queue[i] /\ i < l
                BY <2>2, <3>2
            <4>2. CASE Of(queue[i])
                BY <1>2, <4>1, <4>2 DEF Of
            <4>3. CASE Swept(i)
                <5>1. queue[i].kind # "accept"
                    BY <4>3 DEF Swept
                <5>2. ASSUME NEW m \in DOMAIN queue, m < i,
                             queue[m].kind = "clear",
                             queue[m].arg = queue[i].arg
                      PROVE  Swept(i)'
                    BY <2>2, <4>1, <5>1, <5>2 DEF Swept
                <5>3. ASSUME Sweeping, queue[i].arg = This,
                             \A m \in DOMAIN queue : m <= i => queue[m] # first
                      PROVE  Swept(i)'
                    <6>1. \A m \in DOMAIN queue' : m <= i => queue'[m] # first
                        BY <2>2, <2>3, <4>1, <5>3
                    <6> QED
                        BY <4>1, <5>1, <5>3, <6>1 DEF Swept, Sweeping, This
                <5> QED
                    BY <4>3, <5>2, <5>3 DEF Swept
            <4> QED
                BY <4>1, <4>2, <4>3 DEF Kept
        <3> QED
            BY <3>1, <3>2
    <2> QED
        BY <1>6, <2>4, <2>5, <2>6 DEF Kept
<1> QED
    BY <1>7, <1>8

\* There is no room, and the event waits.
LEMMA Waiting ==
    ASSUME IInv, QInv, NEW e, Told(e), \A x \in Held : Before(x, e),
           queue' = queue, pending' = e, Counted',
           UNCHANGED <<pc, hand, first, packet, call>>,
           Raised \subseteq Raised',
           Leaving => hand.kind = "error" \/ e.arg # This
    PROVE  QInv'
<1>1. PendingLast'
    BY DEF PendingLast, Before, Told, Held
<1>2. InHand'
    BY NoEventType DEF QInv, InHand, Sweeping, Told
<1>3. Distinct'
    BY DEF QInv, Distinct, Apart, Told
<1>4. Cleared'
    BY DEF QInv, Cleared, Bare
<1>5. Doomed'
    BY DEF QInv, Doomed, Leaving, This
<1> QED
    BY <1>1, <1>2, <1>3, <1>4, <1>5 DEF QInv

\* A clean-up that takes an event away is still in the queue.
LEMMA SweptStays ==
    ASSUME UNCHANGED <<queue, pc, hand, first>>, NEW i, Swept(i)
    PROVE  Swept(i)'
BY DEF Swept, Sweeping, This

LEMMA WaitingInOrder ==
    ASSUME IInv, QInv, OInv, NEW e, queue' = queue, pending' = e,
           UNCHANGED <<pc, hand, first, packet, swapped>>,
           Of(e)', \A x \in Held : Of(x) => Of(x)'
    PROVE  OInv'
<1> SUFFICES ASSUME Ordered, HandFirst, Kept
             PROVE  Ordered' /\ HandFirst' /\ Kept'
    BY DEF OInv
<1>1. Ordered' /\ HandFirst'
    BY DEF Ordered, HandFirst, Sweeping, Before, Told
<1>2. packet \in Held /\ \A i \in DOMAIN queue : queue[i] \in Held
    BY DEF Held
<1>3. (Of(pending) /\ Of(packet))'
    BY <1>2 DEF Kept, Of
<1>4. ASSUME NEW i \in DOMAIN queue
      PROVE  (queue[i].kind = "clear" \/ Of(queue[i]) \/ Swept(i))'
    BY <1>2, SweptStays DEF Kept, Of
<1> QED
    BY <1>1, <1>3, <1>4 DEF Kept

\* What lwIP raises of an open connection or a new one is its last word.
LEMMA Latest ==
    ASSUME IInv, QInv, NEW e \in Events, NEW k \in Conns, Told(e), e.pcb = k,
           e.n = raised[k], e.kind = "accept" => e.n = 0,
           pcb[k].st \notin {"gone", "fin"},
           raised' = [raised EXCEPT ![k] = @ + 1],
           \A c \in Conns : pcb'[c].st = "unborn" =>
               pcb[c].st = "unborn" /\ c # k
    PROVE  /\ \A x \in Held : Before(x, e)
           /\ \A x \in Held \cup {pending} : Sound(x)'
           /\ Sound(e)'
           /\ \A c \in Conns : pcb'[c].st = "unborn" => raised'[c] = 0
<1>1. raised \in [Conns -> Nat]
    BY DEF IInv, TypeOK
<1>2. \A c \in Conns : raised'[c] = IF c = k THEN raised[c] + 1 ELSE raised[c]
    BY <1>1
<1>3. \A x \in Held : Before(x, e)
    BY DEF Before, QInv, Counted, Sound
<1>4. ASSUME NEW x \in Held \cup {pending} PROVE Sound(x)'
    <2> SUFFICES ASSUME Told(x)
                 PROVE  /\ x.n < raised'[x.pcb]
                        /\ x.kind = "error" => x.n = raised'[x.pcb] - 1
                        /\ x.kind = "accept" => x.n = 0
        BY DEF Sound, Told
    <2>1. x \in Raised
        BY HeldRaised, Untold
    <2>2. x.kind = "error" => x.pcb # k
        BY <2>1 DEF Raised
    <2>3. x.pcb \in Conns /\ x.n \in Nat
        BY <2>1 DEF Raised, Events
    <2>4. /\ x.n < raised[x.pcb]
          /\ x.kind = "error" => x.n = raised[x.pcb] - 1
          /\ x.kind = "accept" => x.n = 0
        BY DEF QInv, Counted, Sound
    <2> QED
        BY <1>1, <1>2, <2>2, <2>3, <2>4
<1>5. Sound(e)'
    <2>1. e.kind = "error" => e.n = raised'[k] - 1
        BY <1>1, <1>2
    <2>2. e.n < raised'[k]
        BY <1>1, <1>2
    <2> QED
        BY <2>1, <2>2 DEF Sound, Told
<1>6. \A c \in Conns : pcb'[c].st = "unborn" => raised'[c] = 0
    BY <1>1, <1>2 DEF QInv, Counted
<1> QED
    BY <1>3, <1>4, <1>5, <1>6

\* lwIP raises an event, and it is posted or waits.
LEMMA Sending ==
    ASSUME IInv, QInv, OInv, NEW e \in Events, NEW k \in Conns, Told(e),
           e.pcb = k, e.n = raised[k], e.kind = "accept" => e.n = 0,
           pcb[k].st \notin {"gone", "fin"}, Send(e), TcpipRuns,
           \A c \in Conns : pcb'[c].st = "unborn" =>
               pcb[c].st = "unborn" /\ c # k,
           UNCHANGED <<pc, hand, first, packet, call, swapped>>,
           Raised \subseteq Raised',
           Leaving => hand.kind = "error" \/ e.arg # This,
           Of(e)', \A x \in Held : Of(x) => Of(x)'
    PROVE  QInv' /\ OInv'
<1>1. raised' = [raised EXCEPT ![k] = @ + 1]
    BY DEF Send
<1>2. /\ \A x \in Held : Before(x, e)
      /\ \A x \in Held \cup {pending} : Sound(x)'
      /\ Sound(e)'
      /\ \A c \in Conns : pcb'[c].st = "unborn" => raised'[c] = 0
    BY <1>1, Latest
<1>3. CASE Full
    <2>1. queue' = queue /\ pending' = e
        BY <1>3 DEF Send
    <2>2. Held' = Held
        BY <2>1 DEF Held
    <2>3. Counted'
        BY <1>2, <2>1, <2>2 DEF Counted
    <2> QED
        BY <1>2, <2>1, <2>3, Waiting, WaitingInOrder
<1>4. CASE ~Full
    <2>1. queue' = Enqueue(queue, e) /\ pending' = NoEvent
        BY <1>4 DEF Send, Post, TcpipRuns
    <2>2. queue \in Seq(Events)
        BY DEF IInv, TypeOK
    <2>3. Held' \subseteq Held \cup {e}
        BY <2>1, <2>2, EnqueuedIn DEF Held
    <2>4. Counted'
        BY <1>2, <2>1, <2>3, Untold DEF Counted, Sound, Told
    <2> QED
        BY <1>2, <2>1, <2>4, Inserting, InsertingInOrder
<1> QED
    BY <1>3, <1>4
-----------------------------------------------------------------------------
(* The steps of the TCP/IP thread. *)

EInv == IInv /\ QInv /\ OInv

LEMMA PostsOrdered == ASSUME EInv, Posts PROVE QInv' /\ OInv'
<1> USE DEF Posts, Post, EInv
<1>1. pending \in Raised /\ pending \in Events /\ Told(pending)
    BY RaisedAreEvents DEF IInv, Posted, QInv, InHand, Told, Raised
<1> PICK e \in Events : e = pending
    BY <1>1
<1>2. \A x \in Held : Before(x, e)
    BY DEF QInv, PendingLast
<1>3. queue \in Seq(Events)
    BY DEF IInv, TypeOK
<1>4. UNCHANGED <<pc, hand, first, packet, call, raised, swapped, pcb, client>>
    BY DEF clients, locals, history
<1>5. Held' \subseteq Held \cup {pending}
    BY <1>1, <1>3, <1>4, EnqueuedIn DEF Held
<1>6. Counted'
    BY <1>4, <1>5, Untold, CountStays
<1>7. Raised \subseteq Raised'
    BY <1>4, RaisedStays
<1>8. Leaving => hand.kind = "error" \/ e.arg # This
    BY DEF QInv, Doomed
<1>9. \A x : Of(x) => Of(x)'
    BY <1>4 DEF Of, ForClient
<1>10. QInv'
    BY <1>1, <1>2, <1>4, <1>6, <1>7, <1>8, Inserting
<1>11. e.kind = "accept" => e.n = 0
    BY <1>1 DEF QInv, Counted, Sound
<1>12. CASE swapped
    BY <1>4, <1>10, <1>12 DEF OInv
<1>13. CASE ~swapped
    <2>1. Of(e)'
        BY <1>9, <1>13 DEF OInv, Kept
    <2> QED
        BY <1>1, <1>2, <1>4, <1>9, <1>10, <1>11, <2>1, InsertingInOrder
<1> QED
    BY <1>10, <1>12, <1>13

\* A connection that is open tells nobody who is about to go.
LEMMA NotMine ==
    ASSUME IInv, NEW k \in Conns, pcb[k].st = "open", Leaving
    PROVE  pcb[k].arg # This
<1> SUFFICES ASSUME pcb[k].arg = This PROVE FALSE
    OBVIOUS
<1>1. This \in Addrs /\ Closing
    BY DEF IInv, Working, Leaving, Closing
<1>2. ~Silent(k)
    BY <1>1, NullApart DEF Silent
<1>3. k = hand.pcb
    BY <1>2, MyClient DEF Leaving
<1> QED
    BY <1>1, <1>2, <1>3 DEF IInv, Severed

\* lwIP speaks to the client of an open connection.
LEMMA Known ==
    ASSUME IInv, NEW k \in Conns, pcb[k].st = "open"
    PROVE  pcb[k].arg = Null \/ client[pcb[k].arg].conn = k
BY DEF IInv, Linked, Silent

LEMMA HappensOrdered ==
    ASSUME EInv, NEW k \in Conns, Happens(k, "recv") \/ Happens(k, "poll")
    PROVE  QInv' /\ OInv'
<1> USE DEF Happens, EInv
<1> PICK kind \in {"recv", "poll"} : Happens(k, kind)
    OBVIOUS
<1>1. pcb[k].arg \in Addrs \cup {Null} /\ raised[k] \in Nat /\ kind \in Kinds
    BY DEF IInv, TypeOK, Kinds
<1> PICK e \in Events : e = Event(kind, pcb[k].arg, k, raised[k])
    BY <1>1, EventType
<1>2. e.kind = kind /\ e.arg = pcb[k].arg /\ e.pcb = k /\ e.n = raised[k]
    BY <1>1, EventType DEF Event
<1>3. Send(e) /\ pcb[k].st = "open" /\ TcpipRuns
    OBVIOUS
<1>4. UNCHANGED <<pc, hand, first, packet, call, swapped, pcb, client>>
    BY DEF clients, locals
<1>5. Raised \subseteq Raised'
    BY <1>4, RaisedStays
<1>6. \A x : Of(x) => Of(x)'
    BY <1>4 DEF Of, ForClient
<1>7. Of(e)'
    BY <1>2, <1>3, <1>4, Known DEF Of, ForClient
<1>8. Leaving => e.arg # This
    BY <1>2, <1>3, NotMine
<1>9. \A c \in Conns : pcb'[c].st = "unborn" => pcb[c].st = "unborn" /\ c # k
    BY <1>3, <1>4
<1> QED
    BY <1>2, <1>3, <1>4, <1>5, <1>6, <1>7, <1>8, <1>9, Sending DEF Told

LEMMA AcceptOrdered ==
    ASSUME EInv, NEW k \in Conns, Accept(k) PROVE QInv' /\ OInv'
<1> USE DEF Accept, EInv
<1>1. ConnType /\ ClientType
    BY Types DEF IInv
<1> PICK a \in Addrs, s \in Allocated :
        /\ client[a].conn = Null
        /\ client' = [client EXCEPT ![a] = [conn |-> k, pcb |-> k,
                                            slot |-> s, user |-> FALSE]]
        /\ slots' = Taken(s)
        /\ pcb' = [pcb EXCEPT ![k] = [st |-> "open", arg |-> a, on |-> TRUE]]
        /\ Send(Event("accept", a, k, 0))
    BY Zenon
<1> PICK e \in Events : e = Event("accept", a, k, 0)
    BY EventType DEF Kinds
<1>2. e.kind = "accept" /\ e.arg = a /\ e.pcb = k /\ e.n = 0
    BY EventType DEF Event, Kinds
<1>3. Send(e) /\ pcb[k].st = "unborn" /\ TcpipRuns
    OBVIOUS
<1>4. UNCHANGED <<pc, hand, first, packet, call, swapped>>
    BY DEF locals
<1>5. \A b \in Addrs : client'[b].conn = IF b = a THEN k ELSE client[b].conn
    BY <1>1 DEF ClientType
<1>6. \A c \in Conns : pcb'[c].st = IF c = k THEN "open" ELSE pcb[c].st
    BY <1>1 DEF ConnType
<1>7. Raised \subseteq Raised'
    BY <1>3, <1>6, RaisedStays
<1>8. raised[k] = 0
    BY <1>3 DEF QInv, Counted
<1>9. ASSUME NEW x \in Held, Of(x) PROVE Of(x)'
    <2>1. x \in Raised \cup {NoEvent}
        BY HeldRaised
    <2>2. x.arg = Null \/ (x.arg \in Addrs /\ x.pcb \in Conns)
        BY <2>1, Untold DEF Raised, Events
    <2>3. x.arg # a
        BY <1>9, <2>2, NullApart DEF Of, ForClient
    <2> QED
        BY <1>5, <1>9, <2>2, <2>3 DEF Of, ForClient
<1>10. Of(e)'
    BY <1>2, <1>5, NullApart DEF Of, ForClient
<1>11. Leaving => e.arg # This
    BY <1>2, NullApart DEF IInv, Working, Posted, Raised, Leaving
<1>12. \A c \in Conns : pcb'[c].st = "unborn" => pcb[c].st = "unborn" /\ c # k
    BY <1>6
<1> QED
    BY <1>2, <1>3, <1>4, <1>7, <1>8, <1>9, <1>10, <1>11, <1>12, Sending DEF Told

LEMMA FinOrdered ==
    ASSUME EInv, NEW k \in Conns, Fin(k) PROVE QInv' /\ OInv'
<1> USE DEF EInv
<1>1. ConnType /\ ClientType
    BY Types DEF IInv
<1> PICK a \in Addrs : a = pcb[k].arg
    BY <1>1 DEF Fin, ConnType
<1>2. raised[k] \in Nat
    BY DEF IInv, TypeOK
<1> PICK e \in Events : e = Event("fin", a, k, raised[k])
    BY <1>2, EventType DEF Kinds
<1>3. e.kind = "fin" /\ e.arg = a /\ e.pcb = k /\ e.n = raised[k]
    BY <1>2, EventType DEF Event, Kinds
<1>4. Send(e) /\ pcb[k].st = "open" /\ TcpipRuns
    BY DEF Fin
<1>5. UNCHANGED <<pc, hand, first, packet, call, swapped>>
    BY DEF Fin, locals
<1>6. /\ client' = [client EXCEPT ![a].slot = NoSlot, ![a].pcb = Null]
      /\ pcb' = [pcb EXCEPT ![k].st = "fin", ![k].arg = Null]
    BY DEF Fin
<1>7. client[a].conn = k /\ (Leaving => a # This)
    BY <1>4, Known, NotMine, NullApart
<1>8. \A b \in Addrs : client'[b].conn = client[b].conn
    BY <1>1, <1>6 DEF ClientType
<1>9. \A c \in Conns : pcb'[c].st = IF c = k THEN "fin" ELSE pcb[c].st
    BY <1>1, <1>6 DEF ConnType
<1>10. Raised \subseteq Raised'
    BY <1>4, <1>9, RaisedStays
<1>11. ASSUME NEW x \in Held, Of(x) PROVE Of(x)'
    <2>1. x.arg = Null \/ x.arg \in Addrs
        BY HeldRaised, Untold DEF Raised, Events
    <2> QED
        BY <1>8, <1>11, <2>1 DEF Of, ForClient
<1>12. Of(e)'
    BY <1>3, <1>7, <1>8, NullApart DEF Of, ForClient
<1>13. \A c \in Conns : pcb'[c].st = "unborn" => pcb[c].st = "unborn" /\ c # k
    BY <1>9
<1> QED
    BY <1>3, <1>4, <1>5, <1>7, <1>10, <1>11, <1>12, <1>13, Sending DEF Told

\* Nothing happens to the events, the task and the clients.
LEMMA NoEvents ==
    ASSUME IInv, QInv, OInv,
           UNCHANGED <<queue, pending, raised, pc, hand, first, packet, call,
                       swapped, client>>,
           \A k \in Conns : pcb'[k].st = "unborn" => pcb[k].st = "unborn",
           Raised \subseteq Raised'
    PROVE  QInv' /\ OInv'
<1>1. Held' = Held
    BY DEF Held
<1>2. Counted' /\ PendingLast'
    BY <1>1, CountStays, LastStays
<1>3. InHand' /\ Distinct' /\ Cleared' /\ Doomed'
    BY DEF QInv, InHand, Distinct, Apart, Told, Cleared, Doomed, Sweeping, Bare,
           Leaving, This
<1>4. QInv'
    BY <1>2, <1>3 DEF QInv
<1>5. \A x : Of(x) => Of(x)'
    BY DEF Of, ForClient
<1>6. OInv'
    BY <1>5, SweptStays
       DEF OInv, Ordered, HandFirst, Kept, Before, Told, Sweeping
<1> QED
    BY <1>4, <1>6

LEMMA ResetOrdered ==
    ASSUME EInv, NEW k \in Conns, Reset(k) PROVE QInv' /\ OInv'
<1> USE DEF EInv
<1>1. ConnType
    BY Types DEF IInv
<1>2. pcb' = [pcb EXCEPT ![k].st = "gone"] /\ pcb[k].st = "open" /\ TcpipRuns
    BY DEF Reset
<1>3. UNCHANGED <<pc, hand, first, packet, call, swapped, client>>
    BY DEF Reset, clients, locals
<1>4. \A c \in Conns : pcb'[c].st = IF c = k THEN "gone" ELSE pcb[c].st
    BY <1>1, <1>2 DEF ConnType
<1>5. Raised \subseteq Raised'
    BY <1>2, <1>4, RaisedStays
<1>6. \A c \in Conns : pcb'[c].st = "unborn" => pcb[c].st = "unborn" /\ c # k
    BY <1>4
<1>7. CASE ~pcb[k].on
    <2>1. UNCHANGED <<queue, pending, raised>>
        BY <1>7 DEF Reset
    <2> QED
        BY <1>3, <1>5, <1>6, <2>1, NoEvents
<1>8. CASE pcb[k].on
    <2>1. pcb[k].arg \in Addrs \cup {Null} /\ raised[k] \in Nat
        BY DEF IInv, TypeOK
    <2> PICK e \in Events : e = Event("error", pcb[k].arg, k, raised[k])
        BY <2>1, EventType DEF Kinds
    <2>2. /\ e.kind = "error" /\ e.arg = pcb[k].arg
          /\ e.pcb = k /\ e.n = raised[k]
        BY <2>1, EventType DEF Event, Kinds
    <2>3. Send(e)
        BY <1>8 DEF Reset
    <2>4. \A x : Of(x) => Of(x)'
        BY <1>3 DEF Of, ForClient
    <2>5. Of(e)'
        BY <1>2, <1>3, <2>2, Known DEF Of, ForClient
    <2>6. Leaving => e.arg # This
        BY <1>2, <2>2, NotMine
    <2> QED
        BY <1>2, <1>3, <1>5, <1>6, <2>2, <2>3, <2>4, <2>5, <2>6, Sending
           DEF Told
<1> QED
    BY <1>7, <1>8
-----------------------------------------------------------------------------
(* The steps of the task. *)

LEMMA Calm ==
    ASSUME IInv, QInv, UNCHANGED <<queue, pending, first, packet, raised>>,
           \A k \in Conns : pcb'[k].st = "unborn" => pcb[k].st = "unborn",
           pc \notin {"idle", "seek", "put"},
           pc' \notin {"seek", "put", "error"},
           \/ Ends
           \/ Goto(pc') /\ pc' # "idle",
           Bare' => Bare, Leaving' => Leaving \/ pc = "error"
    PROVE  QInv'
<1>1. hand' \in {hand, NoEvent} /\ (pc' # "idle" => hand' = hand)
    BY DEF Ends, Goto
<1>2. \A e \in Held' : e \in Held \/ ~Told(e)
    BY <1>1, Untold DEF Held
<1>3. Counted' /\ PendingLast'
    BY <1>2, CountStays, LastStays
<1>4. first = NoEvent /\ hand.kind # "clear"
    BY DEF QInv, InHand, Sweeping
<1>5. InHand'
    BY <1>1, <1>4, NoEventType DEF QInv, InHand, Sweeping, Ends, Goto
<1>6. Distinct' /\ Cleared'
    BY DEF QInv, Distinct, Apart, Told, Cleared, Bare
<1>7. Doomed'
    <2>1. SUFFICES ASSUME Leaving' PROVE Doomed'
        BY DEF Doomed
    <2>2. hand' = hand
        BY <1>1, <2>1 DEF Leaving
    <2>3. CASE pc = "error"
        BY <2>2, <2>3 DEF QInv, InHand, Doomed
    <2>4. CASE Leaving
        BY <2>2, <2>4 DEF QInv, Doomed, This
    <2> QED
        BY <2>1, <2>3, <2>4
<1> QED
    BY <1>3, <1>5, <1>6, <1>7 DEF QInv

LEMMA CalmInOrder ==
    ASSUME IInv, QInv, OInv,
           UNCHANGED <<queue, pending, first, packet, swapped>>,
           pc \notin {"idle", "seek", "put"}, pc' \notin {"seek", "put"},
           hand' \in {hand, NoEvent},
           \A a \in Addrs : client'[a].conn = client[a].conn
    PROVE  OInv'
<1> SUFFICES ASSUME Ordered, HandFirst, Kept
             PROVE  Ordered' /\ HandFirst' /\ Kept'
    BY DEF OInv
<1>1. ~Sweeping /\ ~Sweeping'
    BY DEF Sweeping
<1>2. Ordered'
    BY <1>1 DEF Ordered, Before, Told
<1>3. HandFirst'
    BY Untold DEF HandFirst, Before, Told
<1>4. ASSUME NEW e \in Events, Of(e) PROVE Of(e)'
    BY <1>4 DEF Of, ForClient, Events
<1>5. (Of(pending) /\ Of(packet))'
    <2>1. pending \in Events /\ packet \in Events
        BY DEF IInv, TypeOK
    <2> QED
        BY <1>4, <2>1 DEF Kept, Of, ForClient
<1>6. ASSUME NEW i \in DOMAIN queue
      PROVE  (queue[i].kind = "clear" \/ Of(queue[i]) \/ Swept(i))'
    <2>1. PICK e \in Events : e = queue[i]
        BY Places DEF IInv, TypeOK
    <2>2. Of(queue[i]) => Of(queue[i])'
        BY <1>4, <2>1 DEF Of, ForClient
    <2>3. Swept(i) => Swept(i)'
        BY <1>1 DEF Swept
    <2> QED
        BY <2>2, <2>3 DEF Kept
<1> QED
    BY <1>2, <1>3, <1>5, <1>6 DEF Kept

LEMMA AcceptedOrdered == ASSUME EInv, Accepted PROVE QInv' /\ OInv'
<1> USE DEF EInv, Accepted, TaskAt, Ends
<1>1. \A a \in Addrs : client'[a].conn = client[a].conn
    BY Types DEF IInv, ClientType
<1>2. pc = "accept" /\ pc' = "idle" /\ hand' \in {hand, NoEvent}
      /\ UNCHANGED <<pcb, queue, pending, first, packet, raised, swapped>>
    BY DEF locals, history
<1>3. Ends
    OBVIOUS
<1> QED
    BY <1>1, <1>2, <1>3, Calm, CalmInOrder DEF Bare, Leaving

LEMMA PolledOrdered == ASSUME EInv, Polled PROVE QInv' /\ OInv'
<1> USE DEF EInv
<1>1. pc = "poll" /\ pc' \in {"idle", "recv", "unlink"}
      /\ (Ends \/ (Goto(pc') /\ pc' # "idle"))
    BY DEF Polled, TaskAt, Goto, Ends
<1>2. UNCHANGED <<pcb, client, queue, pending, first, packet, raised, swapped>>
      /\ hand' \in {hand, NoEvent}
    BY <1>1 DEF Polled, clients, locals, history, Goto, Ends
<1> QED
    BY <1>1, <1>2, Calm, CalmInOrder DEF Bare, Leaving

LEMMA HandledOrdered == ASSUME EInv, Handled PROVE QInv' /\ OInv'
<1> USE DEF EInv
<1>1. pc = "recv" /\ pc' = "idle" /\ Ends
    BY DEF Handled, TaskAt, Ends
<1>2. UNCHANGED <<pcb, client, queue, pending, first, packet, raised, swapped>>
      /\ hand' \in {hand, NoEvent}
    BY <1>1 DEF Handled, clients, locals, history, Ends
<1> QED
    BY <1>1, <1>2, Calm, CalmInOrder DEF Bare, Leaving

LEMMA ReadsPcbOrdered ==
    ASSUME EInv, ReadsPcb("recv", "use") \/ ReadsPcb("close", "close")
    PROVE  QInv' /\ OInv'
<1> USE DEF EInv
<1>1. /\ pc \in {"recv", "close"} /\ pc' = "slot" /\ Goto(pc')
      /\ call'.op = "close" => pc = "close"
    BY DEF ReadsPcb, TaskAt, Goto
<1>2. UNCHANGED <<pcb, client, queue, pending, first, packet, raised, swapped>>
      /\ hand' \in {hand, NoEvent}
    BY DEF ReadsPcb, clients, history, Goto
<1> QED
    BY <1>1, <1>2, Calm, CalmInOrder DEF Bare, Leaving

LEMMA ReadsSlotOrdered == ASSUME EInv, ReadsSlot PROVE QInv' /\ OInv'
<1> USE DEF EInv
<1>1. pc = "slot" /\ pc' = "wait" /\ Goto(pc') /\ call'.op = call.op
    BY DEF ReadsSlot, TaskAt, Goto, IInv, TypeOK
<1>2. UNCHANGED <<pcb, client, queue, pending, first, packet, raised, swapped>>
      /\ hand' \in {hand, NoEvent}
    BY DEF ReadsSlot, clients, history, Goto
<1> QED
    BY <1>1, <1>2, Calm, CalmInOrder DEF Bare, Leaving

LEMMA UnlinksOrdered == ASSUME EInv, Unlinks PROVE QInv' /\ OInv'
<1> USE DEF EInv
<1>1. pc = "unlink" /\ pc' = "unwire" /\ Goto(pc')
    BY DEF Unlinks, TaskAt, Goto
<1>2. UNCHANGED <<client, queue, pending, first, packet, raised, swapped>>
      /\ hand' \in {hand, NoEvent}
    BY DEF Unlinks, clients, locals, history, Goto
<1>3. \A k \in Conns : pcb'[k].st = pcb[k].st
    BY Types DEF Unlinks, IInv, ConnType
<1> QED
    BY <1>1, <1>2, <1>3, Calm, CalmInOrder DEF Bare, Leaving

LEMMA UnwiresOrdered == ASSUME EInv, Unwires PROVE QInv' /\ OInv'
<1> USE DEF EInv
<1>1. pc = "unwire" /\ pc' = "clean" /\ Goto(pc')
    BY DEF Unwires, TaskAt, Goto
<1>2. UNCHANGED <<client, queue, pending, first, packet, raised, swapped>>
      /\ hand' \in {hand, NoEvent}
    BY DEF Unwires, clients, locals, history, Goto
<1>3. \A k \in Conns : pcb'[k].st = pcb[k].st
    BY Types DEF Unwires, IInv, ConnType
<1> QED
    BY <1>1, <1>2, <1>3, Calm, CalmInOrder DEF Bare, Leaving

LEMMA ClosedBeforeOrdered == ASSUME EInv, ClosedBefore PROVE QInv' /\ OInv'
<1> USE DEF EInv
<1>1. pc = "close" /\ pc' = "discard" /\ Goto(pc')
    BY DEF ClosedBefore, TaskAt, Goto
<1>2. UNCHANGED <<pcb, client, queue, pending, first, packet, raised, swapped>>
      /\ hand' \in {hand, NoEvent}
    BY DEF ClosedBefore, clients, locals, history, Goto
<1> QED
    BY <1>1, <1>2, Calm, CalmInOrder DEF Bare, Leaving

LEMMA DiscardsOrdered == ASSUME EInv, Discards PROVE QInv' /\ OInv'
<1> USE DEF EInv
<1>1. /\ pc \in {"discard", "error"} /\ pc' \in {"free", "idle"}
      /\ \/ Ends
         \/ Goto(pc') /\ pc' # "idle"
    BY DEF Discards, TaskAt, Goto, Ends
<1>2. UNCHANGED <<pcb, queue, pending, first, packet, raised, swapped>>
      /\ hand' \in {hand, NoEvent}
    BY <1>1 DEF Discards, locals, history, Goto, Ends
<1>3. \A a \in Addrs : client'[a].conn = client[a].conn
    BY Types DEF Discards, IInv, ClientType
<1> QED
    BY <1>1, <1>2, <1>3, Calm, CalmInOrder DEF Bare, Leaving

LEMMA FreesSlotOrdered == ASSUME EInv, FreesSlot PROVE QInv' /\ OInv'
<1> USE DEF EInv
<1>1. pc = "free" /\ pc' = "delete" /\ Goto(pc')
    BY DEF FreesSlot, TaskAt, Goto
<1>2. UNCHANGED <<pcb, client, queue, pending, first, packet, raised, swapped>>
      /\ hand' \in {hand, NoEvent}
    BY DEF FreesSlot, locals, history, Goto
<1> QED
    BY <1>1, <1>2, Calm, CalmInOrder DEF Bare, Leaving

LEMMA ServesOrdered == ASSUME EInv, Serves PROVE QInv' /\ OInv'
<1> USE DEF EInv
<1>1. /\ pc = "wait"
      /\ \/ pc' = "discard" /\ Goto(pc') /\ call.op = "close"
         \/ pc' = "idle" /\ Ends
    BY DEF Serves, Goto, Ends
<1>2. UNCHANGED <<client, queue, pending, first, packet, raised, swapped>>
      /\ hand' \in {hand, NoEvent}
    BY <1>1 DEF Serves, clients, history, Goto, Ends
<1>3. \A k \in Conns : pcb'[k].st = "unborn" => pcb[k].st = "unborn"
    BY Types DEF Serves, IInv, ConnType
<1> QED
    BY <1>1, <1>2, <1>3, Calm, CalmInOrder DEF Bare, Leaving

LEMMA GetsOrdered == ASSUME EInv, Gets PROVE QInv' /\ OInv'
<1> USE DEF EInv
<1>1. queue \in Seq(Raised) /\ queue # <<>> /\ queue' = Tail(queue)
    BY DEF IInv, Posted, Gets
<1> PICK e \in Raised : e = Head(queue)
    BY <1>1, Taking
<1>2. /\ 1 \in DOMAIN queue /\ e = queue[1]
      /\ \A i \in DOMAIN queue' : /\ i + 1 \in DOMAIN queue
                                  /\ queue'[i] = queue[i + 1]
      /\ \A i \in DOMAIN queue : i # 1 => /\ i - 1 \in DOMAIN queue'
                                          /\ queue[i] = queue'[i - 1]
    BY <1>1, OffFront
<1>3. /\ \A i \in DOMAIN queue : i \in Nat /\ i >= 1 /\ queue[i] \in Raised
      /\ \A i \in DOMAIN queue' : i \in Nat /\ i >= 1
    BY <1>1, Places, Taking
<1>4. /\ pc = "idle" /\ pc' = Handler(e)
      /\ hand' = IF pc' = "idle" THEN NoEvent ELSE e
    BY DEF Gets, TaskAt
<1>5. UNCHANGED <<pcb, client, pending, first, packet, call, raised, swapped>>
    BY DEF Gets, clients, locals, history
<1>6. e.kind \in {"accept", "recv", "poll", "fin", "error", "clear"}
    BY DEF Raised, Events, Kinds
<1>7. /\ e.kind = "clear" => pc' = "seek" /\ hand' = e
      /\ e.kind # "clear" => \/ pc' = e.kind /\ hand' = e
                             \/ pc' = "idle" /\ hand' = NoEvent
    BY <1>4, <1>6 DEF Handler
<1>8. packet = NoEvent /\ first = NoEvent /\ ~Sweeping
    BY <1>4 DEF QInv, InHand, Sweeping
<1>9. Counted' /\ PendingLast'
    <2>1. e \in Held /\ \A i \in DOMAIN queue : queue[i] \in Held
        BY <1>2 DEF Held
    <2>2. \A x \in Held' : x \in Held \/ x = NoEvent
        BY <1>2, <1>5, <1>7, <2>1 DEF Held
    <2> QED
        BY <1>5, <2>2, Untold, CountStays, LastStays
<1>10. InHand'
    BY <1>5, <1>6, <1>7, <1>8, NoEventType DEF QInv, InHand, Sweeping
<1>11. Distinct'
    BY <1>2, <1>3, <1>5 DEF QInv, Distinct, Apart, Told
<1>12. Cleared'
    <2>1. ASSUME NEW i \in DOMAIN queue', NEW j \in DOMAIN queue',
                 queue'[i].kind = "clear", j < i
          PROVE  queue'[j].kind = "accept"
        BY <1>2, <1>3, <2>1 DEF QInv, Cleared
    <2>2. ASSUME Bare', NEW i \in DOMAIN queue'
          PROVE  queue'[i].kind # "clear"
        <3>1. e.kind # "accept"
            BY <1>7, <2>2 DEF Bare
        <3>2. i + 1 \in DOMAIN queue /\ 1 < i + 1 /\ queue'[i] = queue[i + 1]
            BY <1>2, <1>3
        <3> QED
            BY <1>2, <3>1, <3>2 DEF QInv, Cleared
    <2> QED
        BY <2>1, <2>2 DEF Cleared
<1>13. Doomed'
    BY <1>6, <1>7 DEF Doomed, Leaving
<1>14. QInv'
    BY <1>9, <1>10, <1>11, <1>12, <1>13 DEF QInv
<1>15. ASSUME ~swapped PROVE Ordered' /\ HandFirst' /\ Kept'
    <2>1. \A i, j \in DOMAIN queue : i < j => Before(queue[i], queue[j])
        BY <1>8, <1>15 DEF OInv, Ordered
    <2>2. Ordered'
        BY <1>2, <1>3, <2>1 DEF Ordered, Before, Told
    <2>3. HandFirst'
        <3> SUFFICES ASSUME NEW i \in DOMAIN queue'
                     PROVE  Before(hand, queue[i])'
            BY DEF HandFirst
        <3>1. Before(e, queue'[i])
            BY <1>2, <1>3, <2>1
        <3> QED
            BY <1>7, <3>1, Untold DEF Before, Told
    <2>4. (Of(pending) /\ Of(packet))'
        BY <1>5, <1>15 DEF OInv, Kept, Of, ForClient
    <2>5. ASSUME NEW i \in DOMAIN queue'
          PROVE  (queue[i].kind = "clear" \/ Of(queue[i]) \/ Swept(i))'
        <3>1. i + 1 \in DOMAIN queue /\ queue'[i] = queue[i + 1]
            BY <1>2
        <3>2. CASE queue[i + 1].kind = "clear" \/ Of(queue[i + 1])
            BY <1>5, <3>1, <3>2 DEF Of, ForClient
        <3>3. CASE Swept(i + 1)
            <4>1. PICK j \in DOMAIN queue : /\ j < i + 1
                                            /\ queue[j].kind = "clear"
                                            /\ queue[j].arg = queue[i + 1].arg
                BY <1>8, <3>3 DEF Swept
            <4>2. CASE j = 1
                <5>1. pc' = "seek" /\ hand' = e /\ e.arg = queue'[i].arg
                    BY <1>2, <1>7, <3>1, <4>1, <4>2
                <5>2. \A m \in DOMAIN queue' : queue'[m] # first'
                    BY <1>2, <1>3, <1>5, <1>8, NoEventType DEF Raised
                <5> QED
                    BY <3>1, <3>3, <5>1, <5>2 DEF Swept, Sweeping, This
            <4>3. CASE j # 1
                <5>1. /\ j - 1 \in DOMAIN queue' /\ j - 1 < i
                      /\ queue'[j - 1] = queue[j]
                    BY <1>2, <1>3, <4>1, <4>3
                <5> QED
                    BY <3>1, <3>3, <4>1, <5>1 DEF Swept
            <4> QED
                BY <4>2, <4>3
        <3> QED
            BY <1>15, <3>1, <3>2, <3>3 DEF OInv, Kept
    <2> QED
        BY <2>2, <2>3, <2>4, <2>5 DEF Kept
<1> QED
    BY <1>5, <1>14, <1>15 DEF OInv

LEMMA CleansOrdered == ASSUME EInv, Cleans PROVE QInv' /\ OInv'
<1> USE DEF EInv
<1>1. /\ pc \in {"clean", "fin"} /\ pc' \in {"discard", "close"}
      /\ pending = NoEvent /\ hand' = hand
      /\ queue' = Enqueue(queue, Event("clear", This, hand.pcb, 0))
    BY DEF Cleans, TaskAt, Goto, CleanUp
<1>2. This \in Addrs /\ hand.pcb \in Conns /\ queue \in Seq(Events)
    BY <1>1 DEF IInv, TypeOK, Working, Posted, Raised
<1> PICK e \in Events : e = Event("clear", This, hand.pcb, 0)
    BY <1>2, EventType DEF Kinds
<1>3. e.kind = "clear" /\ e.arg = This
    BY <1>2, EventType DEF Kinds
<1>4. queue' = <<e>> \o queue
    BY <1>1, <1>3 DEF Enqueue
<1>5. /\ DOMAIN queue' = 1 .. Len(queue) + 1 /\ queue'[1] = e
      /\ \A i \in DOMAIN queue : /\ i + 1 \in DOMAIN queue'
                                 /\ queue'[i + 1] = queue[i]
      /\ \A i \in DOMAIN queue' : i # 1 => /\ i - 1 \in DOMAIN queue
                                           /\ queue'[i] = queue[i - 1]
    BY <1>2, <1>4, AtFront
<1>6. /\ \A i \in DOMAIN queue : i \in Nat /\ i >= 1
      /\ \A i \in DOMAIN queue' : i \in Nat /\ i >= 1
    BY <1>2, <1>5, Places
<1>7. UNCHANGED <<pcb, client, pending, first, packet, call, raised, swapped>>
    BY DEF Cleans, clients, locals, history
<1>8. Counted' /\ PendingLast'
    <2>1. \A x \in Held' : x \in Held \/ x = e
        BY <1>1, <1>5, <1>7 DEF Held
    <2> QED
        BY <1>3, <1>7, <2>1, CountStays, LastStays DEF Told
<1>9. InHand'
    BY <1>1, <1>7, NoEventType DEF QInv, InHand, Sweeping, Raised
<1>10. Distinct'
    <2>1. ASSUME NEW i \in DOMAIN queue', NEW j \in DOMAIN queue', i < j
          PROVE  Apart(queue'[i], queue'[j])
        <3>1. j # 1 /\ j - 1 \in DOMAIN queue /\ queue'[j] = queue[j - 1]
            BY <1>5, <1>6, <2>1
        <3>2. CASE i = 1
            BY <1>3, <1>5, <3>2 DEF Apart, Told
        <3>3. CASE i # 1
            <4>1. /\ i - 1 \in DOMAIN queue /\ i - 1 < j - 1
                  /\ queue'[i] = queue[i - 1]
                BY <1>5, <1>6, <2>1, <3>3
            <4> QED
                BY <3>1, <4>1 DEF QInv, Distinct
        <3> QED
            BY <3>2, <3>3
    <2>2. ASSUME NEW i \in DOMAIN queue'
          PROVE  Apart(queue'[i], packet)
        BY <1>3, <1>5 DEF QInv, Distinct, Apart, Told
    <2> QED
        BY <1>7, <2>1, <2>2 DEF Distinct, Apart, Told
<1>11. Cleared'
    <2>1. \A i \in DOMAIN queue : queue[i].kind # "clear"
        BY <1>1 DEF QInv, Cleared, Bare
    <2>2. \A i \in DOMAIN queue' : queue'[i].kind = "clear" => i = 1
        BY <1>5, <2>1
    <2> QED
        BY <1>1, <1>6, <2>2 DEF Cleared, Bare
<1>12. Doomed'
    <2>1. 1 \in DOMAIN queue' /\ queue'[1].kind = "clear"
          /\ queue'[1].arg = This'
        BY <1>1, <1>2, <1>3, <1>5 DEF This
    <2>2. pending'.arg # This'
        BY <1>1, <1>2, <1>7, NullApart, Untold DEF This
    <2> QED
        BY <2>1, <2>2 DEF Doomed
<1>13. QInv'
    BY <1>8, <1>9, <1>10, <1>11, <1>12 DEF QInv
<1>14. ASSUME ~swapped PROVE Ordered' /\ HandFirst' /\ Kept'
    <2>1. /\ \A i, j \in DOMAIN queue : i < j => Before(queue[i], queue[j])
          /\ ~Sweeping
        BY <1>1, <1>14 DEF OInv, Ordered, Sweeping
    <2>2. Ordered'
        <3> SUFFICES ASSUME NEW i \in DOMAIN queue', NEW j \in DOMAIN queue',
                            i < j
                     PROVE  Before(queue'[i], queue'[j])
            BY DEF Ordered, Before, Told
        <3>1. j # 1 /\ j - 1 \in DOMAIN queue /\ queue'[j] = queue[j - 1]
            BY <1>5, <1>6
        <3>2. CASE i = 1
            BY <1>3, <1>5, <3>2 DEF Before, Told
        <3>3. CASE i # 1
            <4>1. /\ i - 1 \in DOMAIN queue /\ i - 1 < j - 1
                  /\ queue'[i] = queue[i - 1]
                BY <1>5, <1>6, <3>3
            <4> QED
                BY <2>1, <3>1, <4>1
        <3> QED
            BY <3>2, <3>3
    <2>3. HandFirst'
        <3> SUFFICES ASSUME NEW i \in DOMAIN queue'
                     PROVE  Before(hand, queue'[i])
            BY <1>1 DEF HandFirst, Before, Told
        <3>1. CASE i = 1
            BY <1>3, <1>5, <3>1 DEF Before, Told
        <3>2. CASE i # 1
            BY <1>5, <1>14, <3>2 DEF OInv, HandFirst
        <3> QED
            BY <3>1, <3>2
    <2>4. (Of(pending) /\ Of(packet))'
        BY <1>7, <1>14 DEF OInv, Kept, Of, ForClient
    <2>5. ASSUME NEW i \in DOMAIN queue'
          PROVE  (queue[i].kind = "clear" \/ Of(queue[i]) \/ Swept(i))'
        <3>1. CASE i = 1
            BY <1>3, <1>5, <3>1
        <3>2. CASE i # 1
            <4>1. i - 1 \in DOMAIN queue /\ queue'[i] = queue[i - 1]
                BY <1>5, <3>2
            <4>2. ~Swept(i - 1)
                BY <1>1, <2>1 DEF Swept, QInv, Cleared, Bare
            <4> QED
                BY <1>7, <1>14, <4>1, <4>2 DEF OInv, Kept, Of, ForClient
        <3> QED
            BY <3>1, <3>2
    <2> QED
        BY <2>2, <2>3, <2>4, <2>5 DEF Kept
<1> QED
    BY <1>7, <1>13, <1>14 DEF OInv

\* Nothing is left of a client that is deleted but what a clean-up will take.
LEMMA DeletesOrdered == ASSUME EInv, Deletes PROVE QInv' /\ OInv'
<1> USE DEF EInv
<1>1. pc = "delete" /\ pc' = "idle" /\ Ends /\ hand' = NoEvent
    BY DEF Deletes, TaskAt, Ends
<1>2. UNCHANGED <<pcb, queue, pending, first, packet, raised, swapped>>
    BY DEF Deletes, locals, history
<1>3. QInv'
    BY <1>1, <1>2, Calm DEF Bare, Leaving
<1>4. /\ This \in Addrs /\ client[This].conn = hand.pcb /\ hand.pcb \in Conns
      /\ hand \in Raised
    BY <1>1 DEF IInv, Working, Posted, Raised
<1>5. \A a \in Addrs : client'[a].conn = IF a = This THEN Null
                                                     ELSE client[a].conn
    BY Types DEF Deletes, IInv, ClientType, Free
<1>6. Told(hand) /\ hand \in Held /\ hand.n \in Nat /\ ~Sweeping
    BY <1>1, <1>4
       DEF Told, Held, Raised, Events, QInv, InHand, Sweeping
<1>7. /\ \A i \in DOMAIN queue : i \in Nat /\ queue[i] \in Raised
      /\ pending \in Raised \cup {NoEvent}
    BY Places DEF IInv, Posted
\* An error is the last word, and a clean-up has left the rest behind it.
<1>8. ASSUME NEW e \in Held \cup {pending}, Told(e), e.pcb = hand.pcb,
             hand.n < e.n
      PROVE  hand.kind # "error"
    <2>1. e.n < raised[hand.pcb] /\ raised[hand.pcb] \in Nat /\ e.n \in Nat
        BY <1>4, <1>8, HeldRaised, Untold
           DEF QInv, Counted, Sound, IInv, TypeOK, Raised, Events
    <2>2. hand.kind = "error" => hand.n = raised[hand.pcb] - 1
        BY <1>6 DEF QInv, Counted, Sound
    <2> QED
        BY <1>6, <1>8, <2>1, <2>2
<1>9. ASSUME ~swapped PROVE Ordered' /\ HandFirst' /\ Kept'
    <2>1. Ordered /\ HandFirst /\ Kept
        BY <1>9 DEF OInv
    <2>2. Ordered'
        BY <1>2, <1>6, <2>1 DEF Ordered, Before, Told
    <2>3. HandFirst'
        BY <1>1, Untold DEF HandFirst, Before, Told
    <2>4. ASSUME NEW e \in Events, Of(e), e.arg # This PROVE Of(e)'
        BY <1>5, <2>4 DEF Of, ForClient, Events
    <2>5. Of(pending)'
        <3>1. pending.arg # This
            <4> SUFFICES ASSUME pending.arg = This PROVE FALSE
                OBVIOUS
            <4>1. pending.pcb = hand.pcb /\ Told(pending)
                BY <1>4, <1>7, <2>1, Untold, NullApart, NoEventType
                   DEF Kept, Of, ForClient, QInv, InHand, Told, Raised
            <4>2. hand.n < pending.n
                BY <1>6, <4>1 DEF QInv, PendingLast, Before
            <4>3. hand.kind # "error"
                BY <1>8, <4>1, <4>2
            <4> QED
                BY <1>1, <4>3 DEF QInv, Doomed, Leaving
        <3>2. PICK e \in Events : e = pending
            BY DEF IInv, TypeOK
        <3> QED
            BY <1>2, <2>1, <2>4, <3>1, <3>2 DEF Kept, Of, ForClient
    <2>6. Of(packet)'
        BY <1>1, <1>2, Untold DEF QInv, InHand, Of
    <2>7. ASSUME NEW i \in DOMAIN queue
          PROVE  (queue[i].kind = "clear" \/ Of(queue[i]) \/ Swept(i))'
        <3>1. PICK e \in Raised : e = queue[i]
            BY <1>7
        <3>2. CASE e.kind = "clear"
            BY <1>2, <3>1, <3>2
        <3>3. CASE Swept(i)
            BY <1>2, <1>6, <3>3 DEF Swept
        <3>4. CASE Of(e) /\ e.arg # This
            BY <1>2, <2>4, <3>1, <3>4, RaisedAreEvents DEF Of, ForClient
        <3>5. CASE e.kind # "clear" /\ Of(e) /\ e.arg = This
            <4>1. Told(e) /\ e.pcb = hand.pcb /\ e \in Held /\ e.n \in Nat
                BY <1>4, <3>1, <3>5, NullApart
                   DEF Told, Held, Raised, Events, Of, ForClient
            <4>2. hand.n < e.n
                BY <1>6, <2>1, <3>1, <4>1 DEF HandFirst, Before
            <4>3. e.kind # "accept" /\ hand.kind # "error"
                BY <1>6, <1>8, <4>1, <4>2 DEF QInv, Counted, Sound
            <4>4. PICK j \in DOMAIN queue : queue[j].kind = "clear"
                                            /\ queue[j].arg = This
                BY <1>1, <4>3 DEF QInv, Doomed, Leaving
            <4>5. j < i
                BY <1>7, <3>1, <3>5, <4>3, <4>4 DEF QInv, Cleared
            <4> QED
                BY <1>2, <3>1, <3>5, <4>3, <4>4, <4>5 DEF Swept
        <3> QED
            BY <2>1, <3>1, <3>2, <3>3, <3>4, <3>5 DEF Kept, Of, ForClient
    <2> QED
        BY <1>2, <2>2, <2>3, <2>5, <2>6, <2>7 DEF Kept
<1> QED
    BY <1>2, <1>3, <1>9 DEF OInv

LEMMA SweepsOrdered == ASSUME EInv, Sweeps PROVE QInv' /\ OInv'
<1> USE DEF EInv
<1>1. queue \in Seq(Raised) /\ queue # <<>> /\ queue' = Tail(queue)
    BY DEF IInv, Posted, Sweeps, AllSeen
<1> PICK e \in Raised : e = Head(queue)
    BY <1>1, Taking
<1>2. /\ 1 \in DOMAIN queue /\ e = queue[1]
      /\ \A i \in DOMAIN queue' : /\ i + 1 \in DOMAIN queue
                                  /\ queue'[i] = queue[i + 1]
    BY <1>1, OffFront
<1>3. /\ \A i \in DOMAIN queue : i \in Nat /\ i >= 1 /\ queue[i] \in Raised
      /\ \A i \in DOMAIN queue' : i \in Nat /\ i >= 1
    BY <1>1, Places, Taking
<1>4. /\ pc = "seek" /\ pc' \in {"seek", "put"} /\ hand' = hand
      /\ UNCHANGED <<pcb, client, pending, call, raised, swapped>>
    BY DEF Sweeps, TaskAt, Goto, clients, history
<1>5. \/ Matches(e) /\ pc' = "seek" /\ first' = first /\ packet' = packet
      \/ /\ ~Matches(e) /\ packet' = e /\ pc' = "put"
         /\ first' = IF first = NoEvent THEN e ELSE first
    BY DEF Sweeps, Goto
<1>6. Sweeping /\ Sweeping' /\ hand.kind = "clear" /\ packet = NoEvent
    BY <1>4 DEF QInv, InHand, Sweeping
<1>7. \A i \in DOMAIN queue : queue[i].kind # "clear"
    BY <1>4 DEF QInv, Cleared, Bare
<1>8. Counted' /\ PendingLast'
    <2>1. e \in Held /\ \A i \in DOMAIN queue : queue[i] \in Held
        BY <1>2 DEF Held
    <2>2. \A x \in Held' : x \in Held
        BY <1>2, <1>4, <1>5, <2>1 DEF Held
    <2> QED
        BY <1>4, <2>2, CountStays, LastStays
<1>9. InHand'
    <2>1. Raised' = Raised
        BY <1>4 DEF Raised
    <2> QED
        BY <1>2, <1>4, <1>5, <1>6, <1>7, <2>1 DEF QInv, InHand
<1>10. Distinct'
    <2>1. \A i \in DOMAIN queue' : Apart(queue'[i], e)
        BY <1>2, <1>3 DEF QInv, Distinct, Apart
    <2> QED
        BY <1>2, <1>3, <1>5, <1>6, <2>1 DEF QInv, Distinct, Apart, Told
<1>11. Cleared'
    BY <1>2, <1>7 DEF Cleared
<1>12. Doomed'
    BY <1>4 DEF Doomed, Leaving
<1>13. QInv'
    BY <1>8, <1>9, <1>10, <1>11, <1>12 DEF QInv
<1>14. ASSUME ~swapped PROVE Ordered' /\ HandFirst' /\ Kept'
    <2>1. Kept
        BY <1>14 DEF OInv
    <2>2. Ordered' /\ HandFirst'
        BY <1>4, <1>6 DEF Ordered, HandFirst, Before, Told
    <2>3. ASSUME NEW i \in DOMAIN queue, Swept(i)
          PROVE  /\ queue[i].kind # "accept" /\ queue[i].arg = This
                 /\ \A j \in DOMAIN queue : j <= i => queue[j] # first
        BY <1>7, <2>3 DEF Swept
    <2>4. (Of(pending) /\ Of(packet))'
        <3>1. ~Matches(e) => Of(e)
            BY <1>2, <1>7, <2>1, <2>3 DEF Kept, Matches
        <3> QED
            BY <1>4, <1>5, <2>1, <3>1 DEF Kept, Of, ForClient
    <2>5. ASSUME NEW i \in DOMAIN queue'
          PROVE  (queue[i].kind = "clear" \/ Of(queue[i]) \/ Swept(i))'
        <3>1. i + 1 \in DOMAIN queue /\ queue'[i] = queue[i + 1]
            BY <1>2
        <3>2. CASE queue[i + 1].kind = "clear" \/ Of(queue[i + 1])
            BY <1>4, <3>1, <3>2 DEF Of, ForClient
        <3>3. CASE Swept(i + 1)
            <4>1. /\ queue[i + 1].kind # "accept" /\ queue[i + 1].arg = This
                  /\ \A j \in DOMAIN queue : j <= i + 1 => queue[j] # first
                BY <2>3, <3>1, <3>3
            <4>2. ASSUME NEW m \in DOMAIN queue', m <= i
                  PROVE  queue'[m] # first'
                <5>1. /\ m + 1 \in DOMAIN queue /\ queue'[m] = queue[m + 1]
                      /\ m + 1 <= i + 1 /\ 1 < m + 1
                    BY <1>2, <1>3, <4>2
                <5>2. queue[m + 1] # e
                    <6>1. Told(e) /\ Apart(e, queue[m + 1])
                        BY <1>2, <1>7, <5>1
                           DEF Told, Raised, QInv, Distinct
                    <6> QED
                        BY <6>1 DEF Apart
                <5> QED
                    BY <1>5, <4>1, <5>1, <5>2
            <4> QED
                BY <1>4, <1>6, <3>1, <4>1, <4>2 DEF Swept, This
        <3> QED
            BY <2>1, <3>1, <3>2, <3>3 DEF Kept
    <2> QED
        BY <2>2, <2>4, <2>5 DEF Kept
<1> QED
    BY <1>4, <1>13, <1>14 DEF OInv

LEMMA PutsBackOrdered == ASSUME EInv, PutsBack PROVE QInv' /\ OInv'
<1> USE DEF EInv
<1>1. /\ pc = "put" /\ pc' = "seek" /\ hand' = hand
      /\ queue' = Append(queue, packet) /\ packet' = NoEvent
      /\ UNCHANGED <<pcb, client, pending, first, call, raised, swapped>>
    BY DEF PutsBack, TaskAt, Goto, clients, history
<1> PICK e \in Raised : e = packet
    BY <1>1 DEF IInv, Posted
<1>2. queue \in Seq(Raised)
    BY DEF IInv, Posted
<1> DEFINE l == Len(queue) + 1
<1>3. /\ DOMAIN queue' = 1 .. l /\ queue'[l] = e
      /\ \A i \in DOMAIN queue : /\ i \in DOMAIN queue' /\ i < l
                                 /\ queue'[i] = queue[i]
      /\ \A i \in DOMAIN queue' : i # l => i \in DOMAIN queue
    BY <1>1, <1>2, AtEnd
<1>4. l \in Nat /\ \A i \in DOMAIN queue' : i \in Nat /\ i <= l
    BY <1>2, <1>3
<1> HIDE DEF l
<1>5. Sweeping /\ Sweeping' /\ hand.kind = "clear" /\ e.kind # "clear"
    BY <1>1 DEF QInv, InHand, Sweeping
<1>6. \A i \in DOMAIN queue : queue[i].kind # "clear"
    BY <1>1 DEF QInv, Cleared, Bare
<1>7. Counted' /\ PendingLast'
    <2>1. e \in Held /\ \A i \in DOMAIN queue : queue[i] \in Held
        BY DEF Held
    <2>2. \A x \in Held' : x \in Held \/ x = NoEvent
        BY <1>1, <1>3, <2>1 DEF Held
    <2> QED
        BY <1>1, <2>2, Untold, CountStays, LastStays
<1>8. InHand'
    <2>1. Raised' = Raised
        BY <1>1 DEF Raised
    <2> QED
        BY <1>1, <1>5, <2>1, NoEventType DEF QInv, InHand
<1>9. Distinct'
    <2>1. ASSUME NEW i \in DOMAIN queue', NEW j \in DOMAIN queue', i < j
          PROVE  Apart(queue'[i], queue'[j])
        <3>1. i \in DOMAIN queue /\ queue'[i] = queue[i]
            BY <1>3, <1>4, <2>1
        <3> QED
            BY <1>3, <2>1, <3>1 DEF QInv, Distinct
    <2>2. \A i \in DOMAIN queue' : Apart(queue'[i], NoEvent)
        BY Untold DEF Apart
    <2> QED
        BY <1>1, <2>1, <2>2 DEF Distinct, Apart, Told
<1>10. Cleared'
    BY <1>3, <1>5, <1>6 DEF Cleared
<1>11. Doomed'
    BY <1>1 DEF Doomed, Leaving
<1>12. QInv'
    BY <1>7, <1>8, <1>9, <1>10, <1>11 DEF QInv
<1>13. ASSUME ~swapped PROVE Ordered' /\ HandFirst' /\ Kept'
    <2>1. Kept
        BY <1>13 DEF OInv
    <2>2. Ordered' /\ HandFirst'
        BY <1>1, <1>5 DEF Ordered, HandFirst, Before, Told
    <2>3. (Of(pending) /\ Of(packet))'
        BY <1>1, <2>1, Untold DEF Kept, Of, ForClient
    <2>4. ASSUME NEW i \in DOMAIN queue'
          PROVE  (queue[i].kind = "clear" \/ Of(queue[i]) \/ Swept(i))'
        <3>1. CASE i = l
            BY <1>1, <1>3, <2>1, <3>1 DEF Kept, Of, ForClient
        <3>2. CASE i # l
            <4>1. i \in DOMAIN queue /\ queue'[i] = queue[i] /\ i < l
                BY <1>3, <3>2
            <4>2. CASE Of(queue[i])
                BY <1>1, <4>1, <4>2 DEF Of, ForClient
            <4>3. CASE Swept(i)
                <5>1. /\ queue[i].kind # "accept" /\ queue[i].arg = This
                      /\ \A j \in DOMAIN queue : j <= i => queue[j] # first
                    BY <1>6, <4>3 DEF Swept
                <5>2. \A j \in DOMAIN queue' : j <= i => queue'[j] # first
                    BY <1>3, <1>4, <4>1, <5>1
                <5> QED
                    BY <1>1, <1>5, <4>1, <5>1, <5>2 DEF Swept, This
            <4> QED
                BY <1>6, <2>1, <4>1, <4>2, <4>3 DEF Kept
        <3> QED
            BY <3>1, <3>2
    <2> QED
        BY <2>2, <2>3, <2>4 DEF Kept
<1> QED
    BY <1>1, <1>12, <1>13 DEF OInv

LEMMA SweepEndsOrdered == ASSUME EInv, SweepEnds PROVE QInv' /\ OInv'
<1> USE DEF EInv
<1>1. /\ pc = "seek" /\ pc' = "idle" /\ hand' = NoEvent /\ first' = NoEvent
      /\ UNCHANGED <<pcb, client, queue, pending, packet, call, raised>>
      /\ AllSeen
    BY DEF SweepEnds, TaskAt, Ends, clients
<1>2. packet = NoEvent /\ ~Sweeping' /\ Sweeping
    BY <1>1 DEF QInv, InHand, Sweeping
<1>3. Counted' /\ PendingLast'
    <2>1. \A x \in Held' : x \in Held \/ x = NoEvent
        BY <1>1 DEF Held
    <2> QED
        BY <1>1, <2>1, Untold, CountStays, LastStays
<1>4. InHand'
    BY <1>1, <1>2, NoEventType DEF QInv, InHand
<1>5. Distinct' /\ Cleared'
    BY <1>1 DEF QInv, Distinct, Cleared, Bare, Apart, Told
<1>6. Doomed'
    BY <1>1 DEF Doomed, Leaving
<1>7. QInv'
    BY <1>3, <1>4, <1>5, <1>6 DEF QInv
<1>8. ASSUME ~swapped, ~Inverted(queue) PROVE Ordered' /\ HandFirst' /\ Kept'
    <2>1. Kept
        BY <1>8 DEF OInv
    <2>2. \A i \in DOMAIN queue : i \in Nat /\ i >= 1 /\ queue[i] \in Events
        BY Places DEF IInv, TypeOK
    <2>3. ASSUME NEW i \in DOMAIN queue, NEW j \in DOMAIN queue, i < j
          PROVE  Before(queue[i], queue[j])
        <3>1. Apart(queue[i], queue[j])
            BY <2>3 DEF QInv, Distinct
        <3>2. queue[i].n \in Nat /\ queue[j].n \in Nat
            BY <2>2 DEF Events
        <3>3. Told(queue[i]) /\ Told(queue[j]) /\ queue[i].pcb = queue[j].pcb
              => ~(queue[i].n > queue[j].n)
            BY <1>8, <2>3 DEF Inverted, Told
        <3> QED
            BY <3>1, <3>2, <3>3 DEF Before, Apart
    <2>4. Ordered'
        BY <1>1, <2>3 DEF Ordered, Before, Told
    <2>5. HandFirst'
        BY <1>1, Untold DEF HandFirst, Before, Told
    <2>6. ASSUME NEW i \in DOMAIN queue PROVE ~Swept(i)
        <3>1. \A j \in DOMAIN queue : queue[j].kind # "clear"
            BY <1>1 DEF QInv, Cleared, Bare
        <3>2. 1 \in DOMAIN queue /\ queue[1] = first
            <4>1. queue \in Seq(Events) /\ queue # <<>>
                BY <2>6 DEF IInv, TypeOK
            <4> QED
                BY <1>1, <4>1, OffFront DEF AllSeen
        <3>3. 1 <= i
            BY <2>2
        <3> QED
            BY <3>1, <3>2, <3>3 DEF Swept
    <2>7. Kept'
        BY <1>1, <2>1, <2>6 DEF Kept, Of, ForClient
    <2> QED
        BY <2>4, <2>5, <2>7
<1>9. swapped' = (swapped \/ Inverted(queue))
    BY DEF SweepEnds
<1> QED
    BY <1>7, <1>8, <1>9 DEF OInv

-----------------------------------------------------------------------------
(* What a sweep does to the order. *)

\* The queue, and behind it what is about to be put back.
Line == IF pc = "put" THEN Append(queue, packet) ELSE queue

\* The events stand in order, but those from place p on belong in front.
Turned(l, p) ==
    \A i, j \in DOMAIN l : i < j =>
        IF i < p /\ p <= j THEN Before(l[j], l[i]) ELSE Before(l[i], l[j])

InLine(l) == \A i, j \in DOMAIN l : i < j => Before(l[i], l[j])

\* The sweep has turned the queue as far as the event it began with.
Rotated ==
    Sweeping =>
        IF first = NoEvent THEN pc = "seek" /\ InLine(queue)
        ELSE \E p \in DOMAIN Line : Line[p] = first /\ Turned(Line, p)

RInv == ~disturbed => ~swapped /\ Rotated

\* Outside of a sweep nothing turns.
LEMMA NotSweeping ==
    ASSUME RInv, ~Sweeping', swapped' = swapped, disturbed => disturbed'
    PROVE  RInv'
BY DEF RInv, Rotated

LEMMA LineStays ==
    ASSUME RInv, disturbed => disturbed',
           UNCHANGED <<queue, pc, first, packet, swapped>>
    PROVE  RInv'
BY DEF RInv, Rotated, Sweeping, Line, InLine, Turned, Before, Told

\* An event that is posted in a sweep disturbs it.
LEMMA SendTurns ==
    ASSUME RInv, NEW e, Send(e) \/ Post(e),
           UNCHANGED <<pc, first, packet, swapped>>
    PROVE  RInv'
<1>1. CASE Post(e)
    <2>1. CASE Sweeping
        BY <1>1, <2>1 DEF Post, RInv
    <2>2. CASE ~Sweeping
        BY <1>1, <2>2, NotSweeping DEF Post, Sweeping
    <2> QED
        BY <2>1, <2>2
<1>2. CASE UNCHANGED <<queue, disturbed>>
    BY <1>2, LineStays
<1> QED
    BY <1>1, <1>2 DEF Send

LEMMA RestartTurns == ASSUME RInv, Restart PROVE RInv'
BY NotSweeping DEF Restart, history, Sweeping

LEMMA NetworkTurns ==
    ASSUME RInv, NEW k \in Conns,
           \/ Accept(k) \/ Happens(k, "recv") \/ Happens(k, "poll")
           \/ Fin(k) \/ FinOfNoClient(k) \/ Reset(k)
    PROVE  RInv'
<1>1. CASE Accept(k)
    BY <1>1, SendTurns DEF Accept, locals
<1>2. CASE Happens(k, "recv") \/ Happens(k, "poll")
    BY <1>2, SendTurns DEF Happens, locals
<1>3. CASE Fin(k)
    BY <1>3, SendTurns DEF Fin, locals
<1>4. CASE FinOfNoClient(k)
    BY <1>4, RestartTurns DEF FinOfNoClient
<1>5. CASE Reset(k)
    BY <1>5, SendTurns, LineStays DEF Reset, locals
<1> QED
    BY <1>1, <1>2, <1>3, <1>4, <1>5

LEMMA GetsTurns == ASSUME EInv, RInv, Gets PROVE RInv'
<1>1. /\ pc = "idle" /\ queue \in Seq(Events) /\ queue # <<>>
      /\ queue' = Tail(queue) /\ UNCHANGED <<first, swapped, disturbed>>
    BY DEF Gets, TaskAt, EInv, IInv, TypeOK, locals, history
<1>2. ASSUME ~disturbed PROVE InLine(queue')
    <2>1. InLine(queue)
        BY <1>1, <1>2 DEF RInv, EInv, OInv, Ordered, InLine, Sweeping
    <2>2. /\ \A i \in DOMAIN queue' : /\ i + 1 \in DOMAIN queue
                                      /\ queue'[i] = queue[i + 1]
          /\ \A i \in DOMAIN queue' : i \in Nat
        BY <1>1, OffFront, Places
    <2> QED
        BY <2>1, <2>2 DEF InLine
<1>3. first' = NoEvent
    BY <1>1 DEF EInv, QInv, InHand, Sweeping
<1>4. pc' # "put"
    <2>1. Head(queue) \in Events
        BY <1>1
    <2>2. Head(queue).kind # "put"
        BY <2>1 DEF Events, Kinds
    <2> QED
        BY <2>2 DEF Gets, Handler
<1> QED
    BY <1>1, <1>2, <1>3, <1>4 DEF RInv, Rotated, Sweeping, InLine, Before, Told

LEMMA SweepsTurns == ASSUME EInv, RInv, Sweeps PROVE RInv'
<1> USE DEF EInv
<1>1. queue \in Seq(Raised) /\ queue # <<>> /\ queue' = Tail(queue)
    BY DEF IInv, Posted, Sweeps, AllSeen
<1> PICK e \in Raised : e = Head(queue)
    BY <1>1, Taking
<1>2. /\ 1 \in DOMAIN queue /\ e = queue[1] /\ e # first /\ e # NoEvent
      /\ \A i \in DOMAIN queue' : /\ i + 1 \in DOMAIN queue
                                  /\ queue'[i] = queue[i + 1]
      /\ \A i \in DOMAIN queue : i # 1 => /\ i - 1 \in DOMAIN queue'
                                          /\ queue[i] = queue'[i - 1]
    BY <1>1, OffFront, NoEventType DEF Sweeps, AllSeen, Raised
<1>3. /\ \A i \in DOMAIN queue : i \in Nat /\ i >= 1
      /\ \A i \in DOMAIN queue' : i \in Nat /\ i >= 1
    BY <1>1, Places, Taking
<1>4. pc = "seek" /\ UNCHANGED <<swapped, disturbed>>
    BY DEF Sweeps, TaskAt, history
<1>5. \/ pc' = "seek" /\ first' = first
      \/ /\ packet' = e /\ pc' = "put"
         /\ first' = IF first = NoEvent THEN e ELSE first
    BY DEF Sweeps, Goto
<1> SUFFICES ASSUME ~disturbed, Rotated PROVE Rotated'
    BY <1>4 DEF RInv
<1>6. CASE pc' = "seek" /\ first' = first
    <2>1. CASE first = NoEvent
        <3>1. InLine(queue)
            BY <1>4, <2>1 DEF Rotated, Sweeping
        <3>2. InLine(queue')
            BY <1>2, <1>3, <3>1 DEF InLine
        <3> QED
            BY <1>6, <2>1, <3>2 DEF Rotated, InLine, Before, Told
    <2>2. CASE first # NoEvent
        <3>1. PICK p \in DOMAIN queue : queue[p] = first /\ Turned(queue, p)
            BY <1>4, <2>2 DEF Rotated, Sweeping, Line
        <3>2. PICK m \in DOMAIN queue' : m + 1 = p /\ queue'[m] = first
            BY <1>2, <1>3, <3>1
        <3>3. Turned(queue', m)
            <4> SUFFICES ASSUME NEW i \in DOMAIN queue',
                                NEW j \in DOMAIN queue', i < j
                         PROVE  IF i < m /\ m <= j
                                THEN Before(queue'[j], queue'[i])
                                ELSE Before(queue'[i], queue'[j])
                BY DEF Turned
            <4>1. /\ i + 1 \in DOMAIN queue /\ j + 1 \in DOMAIN queue
                  /\ i + 1 < j + 1 /\ (i < m <=> i + 1 < p)
                  /\ m <= j <=> p <= j + 1
                BY <1>2, <1>3, <3>2
            <4> QED
                BY <1>2, <3>1, <4>1 DEF Turned
        <3>4. Line' = queue'
            BY <1>6 DEF Line
        <3>5. \E q \in DOMAIN queue' : queue'[q] = first' /\ Turned(queue', q)
            BY <1>6, <3>2, <3>3
        <3> QED
            BY <1>6, <2>2, <3>4, <3>5
               DEF Rotated, Turned, Before, Told
    <2> QED
        BY <2>1, <2>2
<1>7. CASE /\ packet' = e /\ pc' = "put"
           /\ first' = IF first = NoEvent THEN e ELSE first
    <2> DEFINE l == Len(queue') + 1
    <2>1. Line' = Append(queue', e)
        BY <1>7 DEF Line
    <2>2. queue' \in Seq(Raised)
        BY <1>1, Taking
    <2>3. /\ DOMAIN Line' = 1 .. l /\ Line'[l] = e /\ l \in Nat
          /\ \A i \in DOMAIN queue' : /\ i \in DOMAIN Line' /\ i < l
                                      /\ Line'[i] = queue'[i]
          /\ \A i \in DOMAIN Line' : i # l => i \in DOMAIN queue'
        BY <2>1, <2>2, AtEnd
    <2>4. \A i \in DOMAIN Line' : i \in Nat /\ i <= l /\ i >= 1
        BY <2>3
    <2>5. l \in DOMAIN Line'
        BY <2>2, <2>3
    <2> HIDE DEF l
    <2>6. CASE first = NoEvent
        <3>1. InLine(queue)
            BY <1>4, <2>6 DEF Rotated, Sweeping
        <3>2. Turned(Line', l)
            <4> SUFFICES ASSUME NEW i \in DOMAIN Line', NEW j \in DOMAIN Line',
                                i < j
                         PROVE  IF i < l /\ l <= j
                                THEN Before(Line'[j], Line'[i])
                                ELSE Before(Line'[i], Line'[j])
                BY DEF Turned
            <4>1. /\ i \in DOMAIN queue' /\ i < l /\ i + 1 \in DOMAIN queue
                  /\ Line'[i] = queue[i + 1] /\ 1 < i + 1
                BY <1>2, <1>3, <2>3, <2>4
            <4>2. CASE j = l
                <5>1. Before(e, queue[i + 1])
                    BY <1>2, <3>1, <4>1 DEF InLine
                <5> QED
                    BY <2>3, <4>1, <4>2, <5>1
            <4>3. CASE j # l
                <5>1. /\ j \in DOMAIN queue' /\ j < l
                      /\ j + 1 \in DOMAIN queue /\ i + 1 < j + 1
                      /\ Line'[j] = queue[j + 1]
                    BY <1>2, <1>3, <2>3, <2>4, <4>3
                <5>2. Before(queue[i + 1], queue[j + 1])
                    BY <3>1, <4>1, <5>1 DEF InLine
                <5> QED
                    BY <2>3, <2>4, <4>1, <5>1, <5>2
            <4> QED
                BY <4>2, <4>3
        <3>3. \E q \in DOMAIN Line' : Line'[q] = first' /\ Turned(Line', q)
            BY <1>7, <2>3, <2>5, <2>6, <3>2
        <3> QED
            BY <1>2, <1>7, <2>6, <3>3 DEF Rotated, Turned, Before, Told
    <2>7. CASE first # NoEvent
        <3>1. PICK p \in DOMAIN queue : queue[p] = first /\ Turned(queue, p)
            BY <1>4, <2>7 DEF Rotated, Sweeping, Line
        <3>2. PICK m \in DOMAIN queue' : m + 1 = p /\ queue'[m] = first
            BY <1>2, <1>3, <3>1
        <3>3. m \in DOMAIN Line' /\ Line'[m] = first /\ m < l /\ m \in Nat
              /\ p > 1
            BY <1>3, <2>3, <3>2
        <3>4. Turned(Line', m)
            <4> SUFFICES ASSUME NEW i \in DOMAIN Line', NEW j \in DOMAIN Line',
                                i < j
                         PROVE  IF i < m /\ m <= j
                                THEN Before(Line'[j], Line'[i])
                                ELSE Before(Line'[i], Line'[j])
                BY DEF Turned
            <4>1. /\ i \in DOMAIN queue' /\ i + 1 \in DOMAIN queue
                  /\ Line'[i] = queue[i + 1] /\ 1 < i + 1
                  /\ i < m <=> i + 1 < p
                BY <1>2, <1>3, <2>3, <2>4, <3>2
            <4>2. CASE j = l
                <5>1. IF 1 < p /\ p <= i + 1 THEN Before(queue[i + 1], e)
                                             ELSE Before(e, queue[i + 1])
                    BY <1>2, <3>1, <4>1 DEF Turned
                <5>2. p <= i + 1 <=> ~(i < m)
                    BY <1>3, <3>1, <4>1
                <5> QED
                    BY <2>3, <3>3, <4>1, <4>2, <5>1, <5>2
            <4>3. CASE j # l
                <5>1. /\ j \in DOMAIN queue' /\ j + 1 \in DOMAIN queue
                      /\ i + 1 < j + 1 /\ Line'[j] = queue[j + 1]
                      /\ m <= j <=> p <= j + 1
                    BY <1>2, <1>3, <2>3, <2>4, <3>2, <4>3
                <5> QED
                    BY <3>1, <4>1, <5>1 DEF Turned
            <4> QED
                BY <4>2, <4>3
        <3>5. \E q \in DOMAIN Line' : Line'[q] = first' /\ Turned(Line', q)
            BY <1>7, <2>7, <3>3, <3>4
        <3> QED
            BY <1>7, <2>7, <3>5 DEF Rotated, Turned, Before, Told
    <2> QED
        BY <2>6, <2>7
<1> QED
    BY <1>5, <1>6, <1>7

LEMMA PutsBackTurns == ASSUME EInv, RInv, PutsBack PROVE RInv'
<1>1. /\ pc = "put" /\ pc' = "seek" /\ queue' = Append(queue, packet)
      /\ UNCHANGED <<first, swapped, disturbed>>
    BY DEF PutsBack, TaskAt, Goto, history
<1>2. Line' = Line
    BY <1>1 DEF Line
<1> QED
    BY <1>1, <1>2 DEF RInv, Rotated, Sweeping, Turned, Before, Told

\* The sweep ends with the event it began with at the front.
LEMMA SweepEndsTurns == ASSUME EInv, RInv, SweepEnds PROVE RInv'
<1>1. /\ pc = "seek" /\ pc' = "idle" /\ AllSeen /\ disturbed' = disturbed
      /\ swapped' = (swapped \/ Inverted(queue))
    BY DEF SweepEnds, TaskAt, Ends
<1>2. /\ queue \in Seq(Events)
      /\ \A i \in DOMAIN queue : i \in Nat /\ i >= 1 /\ queue[i] \in Raised
    BY Places DEF EInv, IInv, TypeOK, Posted
<1>3. ASSUME ~disturbed PROVE InLine(queue)
    <2>1. Rotated /\ Sweeping /\ Line = queue
        BY <1>1, <1>3 DEF RInv, Sweeping, Line
    <2>2. CASE first = NoEvent
        BY <2>1, <2>2 DEF Rotated
    <2>3. CASE first # NoEvent
        <3>1. PICK p \in DOMAIN queue : queue[p] = first /\ Turned(queue, p)
            BY <2>1, <2>3 DEF Rotated
        <3>2. 1 \in DOMAIN queue /\ queue[1] = first
            <4>1. queue # <<>>
                BY <3>1
            <4> QED
                BY <1>1, <1>2, <4>1, OffFront DEF AllSeen
        <3>3. p = 1
            <4>1. Told(first)
                BY <1>1, <1>2, <3>1
                   DEF Told, Raised, EInv, QInv, Cleared, Bare
            <4>2. 1 < p => Apart(queue[1], queue[p])
                BY <3>1, <3>2 DEF EInv, QInv, Distinct
            <4> QED
                BY <1>2, <3>1, <3>2, <4>1, <4>2 DEF Apart
        <3> QED
            BY <1>2, <3>1, <3>3 DEF Turned, InLine
    <2> QED
        BY <2>2, <2>3
<1>4. ASSUME InLine(queue) PROVE ~Inverted(queue)
    <2> SUFFICES ASSUME NEW i \in DOMAIN queue, NEW j \in DOMAIN queue, i < j,
                        queue[i].pcb = queue[j].pcb, queue[i].n > queue[j].n,
                        "clear" \notin {queue[i].kind, queue[j].kind}
                 PROVE  FALSE
        BY DEF Inverted
    <2>1. /\ Told(queue[i]) /\ Told(queue[j])
          /\ queue[i].n \in Nat /\ queue[j].n \in Nat
        BY <1>2 DEF Told, Raised, Events
    <2>2. queue[i].n < queue[j].n
        BY <1>4, <2>1 DEF InLine, Before
    <2> QED
        BY <2>1, <2>2
<1>5. ~disturbed => ~swapped'
    BY <1>1, <1>3, <1>4, Zenon DEF RInv
<1>6. Rotated'
    BY <1>1 DEF Rotated, Sweeping
<1> QED
    BY <1>1, <1>5, <1>6 DEF RInv

-----------------------------------------------------------------------------
(* The theorems. *)

\* A connection that has not come yet has raised nothing.
UnbornSilent == \A k \in Conns : pcb[k].st = "unborn" => raised[k] = 0

LEMMA BootedOrder == Booted /\ UnbornSilent => QInv /\ OInv
<1> SUFFICES ASSUME Booted, UnbornSilent PROVE QInv /\ OInv
    OBVIOUS
<1> USE DEF Booted, UnbornSilent
<1>1. DOMAIN queue = {}
    OBVIOUS
<1>2. Held \cup {pending} = {NoEvent}
    BY <1>1 DEF Held
<1>3. Counted /\ PendingLast
    BY <1>2, Untold DEF Counted, PendingLast, Sound, Before
<1>4. InHand
    BY NoEventType DEF InHand, Sweeping
<1>5. Distinct /\ Cleared /\ Doomed
    BY <1>1 DEF Distinct, Cleared, Doomed, Leaving
<1>6. OInv
    BY <1>1, Untold DEF OInv, Ordered, HandFirst, Kept, Of
<1> QED
    BY <1>3, <1>4, <1>5, <1>6 DEF QInv

LEMMA RestartOrdered == ASSUME EInv, Restart PROVE QInv' /\ OInv'
<1>1. Booted'
    BY DEF Restart, Booted
<1>2. UnbornSilent'
    BY DEF Restart, history, EInv, QInv, Counted, UnbornSilent
<1>3. Booted' /\ UnbornSilent' => QInv' /\ OInv'
    BY BootedOrder, PTL
<1> QED
    BY <1>1, <1>2, <1>3

LEMMA StutterOrdered == ASSUME EInv, UNCHANGED vars PROVE QInv' /\ OInv'
<1>1. UNCHANGED <<queue, pending, raised, pc, hand, first, packet, call,
                  swapped, client, pcb>>
    BY DEF vars, clients, locals, history
<1>2. Raised \subseteq Raised'
    BY <1>1, RaisedStays
<1> QED
    BY <1>1, <1>2, NoEvents DEF EInv

LEMMA NextOrdered == EInv /\ [Next]_vars => EInv'
<1> SUFFICES ASSUME EInv, [Next]_vars PROVE QInv' /\ OInv'
    BY NextKeeps DEF EInv
<1>1. CASE Task
    BY <1>1, GetsOrdered, AcceptedOrdered, PolledOrdered, HandledOrdered,
       ReadsPcbOrdered, ReadsSlotOrdered, UnlinksOrdered, UnwiresOrdered,
       CleansOrdered, ClosedBeforeOrdered, DiscardsOrdered, FreesSlotOrdered,
       DeletesOrdered, SweepsOrdered, PutsBackOrdered, SweepEndsOrdered,
       Zenon DEF Task
<1>2. CASE Posts
    BY <1>2, PostsOrdered
<1>3. CASE Serves
    BY <1>3, ServesOrdered
<1>4. CASE Network
    BY <1>4, AcceptOrdered, HappensOrdered, FinOrdered, RestartOrdered,
       ResetOrdered, Zenon DEF Network, FinOfNoClient
<1>5. CASE WatchdogBites
    BY <1>5, RestartOrdered DEF WatchdogBites
<1>6. CASE UNCHANGED vars
    BY <1>6, StutterOrdered
<1> QED
    BY <1>1, <1>2, <1>3, <1>4, <1>5, <1>6 DEF Next

LEMMA InitOrdered == Init => EInv
<1> SUFFICES ASSUME Init PROVE EInv
    OBVIOUS
<1>1. Booted /\ UnbornSilent
    BY DEF Init, Booted, UnbornSilent
<1> QED
    BY <1>1, InitInv, BootedOrder DEF EInv

LEMMA NextTurns == EInv /\ RInv /\ [Next]_vars => RInv'
<1> SUFFICES ASSUME EInv, RInv, [Next]_vars PROVE RInv'
    OBVIOUS
<1>1. CASE Gets
    BY <1>1, GetsTurns
<1>2. CASE Sweeps
    BY <1>2, SweepsTurns
<1>3. CASE PutsBack
    BY <1>3, PutsBackTurns
<1>4. CASE SweepEnds
    BY <1>4, SweepEndsTurns
<1>5. CASE \/ Accepted \/ Polled \/ Handled \/ ReadsPcb("recv", "use")
           \/ ReadsPcb("close", "close") \/ ReadsSlot \/ Unlinks \/ Unwires
           \/ Cleans \/ ClosedBefore \/ Discards \/ FreesSlot \/ Deletes
           \/ Serves
    <2>1. ~Sweeping' /\ UNCHANGED <<swapped, disturbed>>
        BY <1>5 DEF Accepted, Polled, Handled, ReadsPcb, ReadsSlot, Unlinks,
                    Unwires, Cleans, ClosedBefore, Discards, FreesSlot, Deletes,
                    Serves, Goto, Ends, Sweeping, history
    <2> QED
        BY <2>1, NotSweeping
<1>6. CASE Posts
    BY <1>6, SendTurns DEF Posts, locals
<1>7. CASE Network
    BY <1>7, NetworkTurns DEF Network
<1>8. CASE UNCHANGED vars
    BY <1>8, LineStays DEF vars, locals, history
<1>9. CASE WatchdogBites
    BY <1>9, RestartTurns DEF WatchdogBites
<1> QED
    BY <1>1, <1>2, <1>3, <1>4, <1>5, <1>6, <1>7, <1>8, <1>9, Zenon
       DEF Next, Task

\* Events and clients: no event is left behind by its client.
THEOREM EventInvariance == Spec => []EInv
BY InitOrdered, NextOrdered, PTL DEF Spec

\* As long as no sweep has left the events of a connection in disorder, the
\* task hands none to a client that was deleted or to a stranger.
THEOREM EventsReachTheirClients == Spec => []NoStrayEvent
<1>1. EInv => NoStrayEvent
    <2> SUFFICES ASSUME EInv, pc = "idle", queue # <<>>, ~swapped
                 PROVE  LET e == Head(queue)
                        IN  e.kind = "clear" \/ e.arg = Null \/ ForClient(e)
        BY DEF NoStrayEvent
    <2>1. queue \in Seq(Events)
        BY DEF EInv, IInv, TypeOK
    <2>2. 1 \in DOMAIN queue /\ Head(queue) = queue[1]
        BY <2>1, OffFront
    <2>3. \A j \in DOMAIN queue : j >= 1 /\ j \in Nat
        BY <2>1, Places
    <2>4. ~Swept(1)
        BY <2>3 DEF Swept, Sweeping
    <2>5. queue[1].kind = "clear" \/ Of(queue[1])
        BY <2>2, <2>4 DEF EInv, OInv, Kept
    <2> QED
        BY <2>2, <2>5 DEF Of
<1> QED
    BY <1>1, EventInvariance, PTL

\* "figure out which is the first packet so we can keep the order"
\* (AsyncTCP.cpp:125): it does, of what was in the queue when the sweep began.
\* Only events that come during a sweep bring others out of order.
THEOREM OrderKeptUndisturbed == Spec => []OnlyArrivalsSwap
<1>1. Init => RInv
    BY DEF Init, RInv, Rotated, Sweeping
<1>2. RInv => OnlyArrivalsSwap
    BY DEF RInv, OnlyArrivalsSwap
<1> QED
    BY <1>1, <1>2, NextTurns, EventInvariance, PTL DEF Spec
-----------------------------------------------------------------------------
(* The deadlock. *)

\* A connection that has callbacks and no client is the one that the task is
\* taking apart at this moment.
Wired ==
    \A k \in Conns :
        pcb[k].st = "open" /\ pcb[k].on /\ pcb[k].arg = Null =>
            pc = "unwire" /\ client[This].pcb = k

LEMMA NetworkWires == ASSUME IInv, Wired, Network PROVE Wired'
<1> PICK k \in Conns :
           \/ Accept(k) \/ Happens(k, "recv") \/ Happens(k, "poll")
           \/ Fin(k) \/ FinOfNoClient(k) \/ Reset(k)
    BY DEF Network
<1>1. CASE Accept(k)
    <2>1. PICK a \in Addrs :
              /\ client[a].conn = Null
              /\ \A b \in Addrs : b # a => client'[b] = client[b]
              /\ pcb' = [pcb EXCEPT ![k] = [st |-> "open", arg |-> a,
                                           on |-> TRUE]]
        BY <1>1, Types DEF Accept, IInv, ClientType
    <2>2. UNCHANGED <<pc, hand>> /\ a # Null
        BY <1>1, NullApart DEF Accept
    <2>3. pc = "unwire" => This \in Addrs /\ This # a
        BY <2>1, NullApart, RaisedAreEvents DEF IInv, Working, Posted, Raised
    <2> QED
        BY <2>1, <2>2, <2>3, Types DEF Wired, This, IInv, ConnType
<1>2. CASE Happens(k, "recv") \/ Happens(k, "poll")
    BY <1>2 DEF Happens, Wired, clients, This
<1>3. CASE Fin(k)
    <2> DEFINE a == pcb[k].arg
    <2>1. /\ pcb[k].st = "open" /\ a # Null /\ UNCHANGED <<pc, hand>>
          /\ pcb' = [pcb EXCEPT ![k].st = "fin", ![k].arg = Null]
          /\ client' = [client EXCEPT ![a].slot = NoSlot, ![a].pcb = Null]
        BY <1>3 DEF Fin
    <2>2. client[a].pcb = k
        BY <2>1 DEF IInv, Linked, Silent
    <2>3. ASSUME NEW c \in Conns, c # k, pc = "unwire", client[This].pcb = c
          PROVE  client'[This].pcb = c
        BY <2>1, <2>2, <2>3, Types DEF IInv, ClientType, Working
    <2> QED
        BY <2>1, <2>3, Types DEF Wired, This, IInv, ConnType
<1>4. CASE FinOfNoClient(k)
    BY <1>4 DEF FinOfNoClient, Restart, Wired
<1>5. CASE Reset(k)
    BY <1>5, Types DEF Reset, Wired, clients, This, IInv, ConnType
<1> QED
    BY <1>1, <1>2, <1>3, <1>4, <1>5

LEMMA NextWires == IInv /\ Wired /\ [Next]_vars => Wired'
<1> SUFFICES ASSUME IInv, Wired, [Next]_vars PROVE Wired'
    OBVIOUS
<1>1. CASE Unlinks
    BY <1>1, Types DEF Unlinks, TaskAt, Goto, Wired, clients, This, IInv,
                       ConnType
<1>2. CASE Unwires
    <2> DEFINE c == client[This].pcb
    <2>1. pcb' = IF c = Null THEN pcb ELSE [pcb EXCEPT ![c].on = FALSE]
        BY <1>2 DEF Unwires
    <2>2. pcb \in [Conns -> [st : {"unborn", "open", "fin", "closed", "gone"},
                             arg : Addrs \cup {Null}, on : BOOLEAN]]
        BY Types DEF IInv, ConnType
    <2>3. ASSUME NEW k \in Conns
          PROVE  /\ pcb'[k].st = pcb[k].st /\ pcb'[k].arg = pcb[k].arg
                 /\ k # c => pcb'[k].on = pcb[k].on
                 /\ k = c => ~pcb'[k].on
        BY <2>1, <2>2, NullApart
    <2> HIDE DEF c
    <2> QED
        BY <2>3 DEF Wired, c
<1>3. CASE Serves
    BY <1>3, Types DEF Serves, Wired, IInv, ConnType
<1>4. CASE \/ Gets \/ Accepted \/ Polled \/ Handled
           \/ ReadsPcb("recv", "use") \/ ReadsPcb("close", "close")
           \/ ReadsSlot \/ Cleans \/ ClosedBefore
           \/ Discards \/ FreesSlot \/ Deletes
           \/ Sweeps \/ PutsBack \/ SweepEnds
    <2>1. pc # "unwire" /\ UNCHANGED pcb
        BY <1>4 DEF TaskAt, Gets, Accepted, Polled, Handled, ReadsPcb,
                    ReadsSlot, Cleans, ClosedBefore, Discards, FreesSlot,
                    Deletes, Sweeps, PutsBack, SweepEnds
    <2> QED
        BY <2>1 DEF Wired
<1>5. CASE Posts
    BY <1>5 DEF Posts, Wired, clients, This
<1>6. CASE Network
    BY <1>6, NetworkWires
<1>7. CASE WatchdogBites
    BY <1>7 DEF WatchdogBites, Restart, Wired
<1>8. CASE UNCHANGED vars
    BY <1>8 DEF vars, clients, Wired, This
<1> QED
    BY <1>1, <1>2, <1>3, <1>4, <1>5, <1>6, <1>7, <1>8, Zenon DEF Next, Task

\* So _lwip_fin() never finds a connection without a client where everyone
\* waits: its crash needs the task between the two steps.
LEMMA NoCrashWhenStuck ==
    ASSUME Wired, Stuck, NEW k \in Conns PROVE ~FinOfNoClient(k)
BY DEF Wired, Stuck, FinOfNoClient

\* The wait for room in a full queue ends by the watchdog or not at all: each
\* of the task's ways out wants room, what makes room is the task, and the
\* crash of _lwip_fin() needs the task at another place.
THEOREM OnlyTheWatchdogHelps == Spec => StuckUntilRestart
<1>1. ASSUME Stuck, Task PROVE Stuck'
    BY <1>1 DEF Stuck, Task, TaskAt, Gets, Accepted, Polled, Handled, ReadsPcb,
                ReadsSlot, Unlinks, Unwires, Cleans, ClosedBefore, Discards,
                FreesSlot, Deletes, Sweeps, PutsBack, SweepEnds
<1>2. ASSUME Stuck, Posts \/ Serves PROVE Stuck'
    BY <1>2 DEF Stuck, Posts, Serves, TcpipRuns
<1>3. ASSUME Stuck, NEW k \in Conns,
             \/ Accept(k) \/ Happens(k, "recv") \/ Happens(k, "poll")
             \/ Fin(k) \/ Reset(k)
      PROVE  Stuck'
    <2>1. UNCHANGED <<queue, pc>>
        BY <1>3 DEF Stuck, Accept, Happens, Fin, Reset, Send
    <2>2. pc # "wait"
        BY <1>3 DEF Stuck, Accept, Happens, Fin, Reset, TcpipRuns
    <2> QED
        BY <1>3, <2>1, <2>2 DEF Stuck, Full
<1>4. ASSUME Stuck, UNCHANGED vars PROVE Stuck'
    BY <1>4 DEF Stuck, Full, vars
<1>5. Wired /\ [Next]_vars => (Stuck => Stuck' \/ WatchdogBites)
    BY <1>1, <1>2, <1>3, <1>4, NoCrashWhenStuck DEF Next, Network
<1>6. Wired /\ [Next]_vars => [Stuck => Stuck' \/ WatchdogBites]_vars
    BY <1>5
<1>7. Init => Wired
    BY DEF Init, Wired
<1>8. Spec => []Wired
    BY <1>7, NextWires, Invariance, PTL DEF Spec
<1> QED
    BY <1>6, <1>8, PTL DEF Spec, StuckUntilRestart
=============================================================================
