-------------------------- MODULE MCFeishuDelivery --------------------------
(* Webhook calls over two messages and a channel of one: two calls deliver one   *)
(* message, a third another message, so that the channel can be full, and a      *)
(* fourth brings an event that does not parse.                                   *)
EXTENDS FeishuDelivery

CONSTANTS d1, d2, d3, d4, m1, m2

MCDeliveries == {d1, d2, d3, d4}
MCMessages == {m1, m2}
MCMessageOf == [d \in MCDeliveries |-> CASE d = d3 -> m2 [] d = d4 -> None [] OTHER -> m1]
=============================================================================
