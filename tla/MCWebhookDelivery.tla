-------------------------- MODULE MCWebhookDelivery --------------------------
(* Instances of WebhookDelivery for TLC. *)
EXTENDS WebhookDelivery, TLC

CONSTANTS e1, e2, w1, w2

\* w1 filters e2 out; or nobody filters.
Filtered == (e1 :> {w1, w2}) @@ (e2 :> {w2})
AllWant == [e \in Event |-> Endpoint]
=============================================================================
