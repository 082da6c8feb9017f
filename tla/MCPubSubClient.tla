--------------------------- MODULE MCPubSubClient ---------------------------
(***************************************************************************)
(* Runs of the MQTT client on small clocks.                                *)
(***************************************************************************)
EXTENDS PubSubClient

\* A broker that answers every PINGREQ, whole, within the tick: what the
\* shim broker of the library's tests does (keepalive_spec.cpp).
PromptBroker == unanswered \/ owed => now' = now

PromptSpec == Init /\ [][Next /\ PromptBroker]_vars

\* "keeps a connection alive that only receives qos0": with such a broker
\* loop() never declares a timeout.
KeptAlive == [][~GivesUp]_vars

\* loop() looks at the clock first (PubSubClient.cpp:373): where it declares
\* one, the broker's answer lies unread in the socket, and the client has not
\* lost its place in the stream.
AnswerUnread ==
    [][GivesUp => ~stalled /\ \E i \in 1 .. Len(rx) : rx[i] = "PINGRESP"]_vars
=============================================================================
