----------------------------- MODULE MCDelivery -----------------------------
(* Values for model-checking Delivery: headers of 7 and 6 bytes and a limit *)
(* of 14 give fragments of at most 7 and 8 bytes of payload.                *)
EXTENDS Delivery, TLC

\* Payloads that fill one fragment, fill two, and need a third; the last event
\* has meta data that are too big.
Sizes == ("p1" :> <<7, 15>>) @@ ("p2" :> <<16, 8>>)
Headers == ("p1" :> <<7, 7>>) @@ ("p2" :> <<7, 10>>)

TwoPublishers == {"p1", "p2"}
PayloadSize == [e \in TwoPublishers \X (1..2) |-> Sizes[e[1]][e[2]]]
HeaderSizes == [e \in TwoPublishers \X (1..2) |-> Headers[e[1]][e[2]]]
=============================================================================
