----------------------------- MODULE WebhookLog ------------------------------
(* The webhook deliveries implement HookLog.                               *)
EXTENDS WebhookDelivery

Log == INSTANCE HookLog
  WITH switch <- endpoint, touched <- switched,
       trying <- {d \in Deliveries : pc[d] = "posting"},
       acked <- {d \in Deliveries : acks[d] > 0},
       shown <- {d \in Deliveries : row[d].delivered},
       failed <- gaveUp

(***************************************************************************)
(* However retries, stalled jobs, crashes and the admin interleave: each   *)
(* POST has its own look at the endpoint before it, which was on; a row is *)
(* shown as delivered only after a 2xx answer, and no later attempt of the *)
(* same delivery takes that back; a worker switches the endpoint off only  *)
(* after Threshold deliveries were given up on; and a deleted endpoint     *)
(* stays deleted.                                                          *)
(***************************************************************************)
ImplementsHookLog == Log!Spec
=============================================================================
