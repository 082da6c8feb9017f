------------------------------ MODULE MqttLink ------------------------------
(***************************************************************************)
(* What an MQTT client promises the sketch and the broker, without packets,*)
(* sockets or calls: a link that is up only while the broker accepts it,   *)
(* on which the broker hears from the client at least every Contact ticks, *)
(* and which does not stay up when Patience ticks go by without a packet   *)
(* from the broker.                                                        *)
(***************************************************************************)
EXTENDS Naturals

CONSTANTS Contact, Patience

VARIABLES
    link,       \* "down" | "dialing" | "up", as the sketch sees it
    agreed,     \* the broker accepted this link
    silence,    \* ticks since the client last wrote
    quiet       \* ticks since the broker was last heard

vars == <<link, agreed, silence, quiet>>

Init == link = "down" /\ agreed = FALSE /\ silence = 0 /\ quiet = 0

\* The sketch calls connect().
Dial ==
    /\ link = "down"
    /\ link' = "dialing"
    /\ UNCHANGED <<agreed, silence, quiet>>

\* The broker accepts.
Agree ==
    /\ link = "dialing"
    /\ agreed' = TRUE
    /\ UNCHANGED <<link, silence, quiet>>

\* connect() returns true.
Open ==
    /\ link = "dialing" /\ agreed
    /\ link' = "up"
    /\ UNCHANGED <<agreed, silence, quiet>>

\* Packets pass, one way or both.
Traffic ==
    /\ link = "up"
    /\ silence' \in {0, silence} /\ quiet' \in {0, quiet}
    /\ UNCHANGED <<link, agreed>>

\* The link is closed or breaks.
Close ==
    /\ link # "down"
    /\ link' = "down" /\ agreed' = FALSE /\ silence' = 0 /\ quiet' = 0

\* The broker is gone, and connect() still waits for its answer.
Orphan ==
    /\ link = "dialing"
    /\ agreed' = FALSE
    /\ UNCHANGED <<link, silence, quiet>>

Tick ==
    /\ link # "down" /\ silence < Contact
    /\ link = "up" => quiet < Patience
    /\ silence' = silence + 1
    /\ quiet' = IF link = "up" THEN quiet + 1 ELSE quiet
    /\ UNCHANGED <<link, agreed>>

Next == Dial \/ Agree \/ Open \/ Traffic \/ Close \/ Orphan \/ Tick

Spec == Init /\ [][Next]_vars
=============================================================================
