-------------------------- MODULE MCWebhookDelivery --------------------------
(* Webhook deliveries on small sets.  Deliveries are interchangeable until *)
(* rank orders them, so their permutations are symmetries.                 *)
EXTENDS WebhookLog, TLC

Symmetry == Permutations(Deliveries)
=============================================================================
