----------------------------- MODULE SendOutbox -----------------------------
(* The send pipeline implements Outbox, under the refinement mapping from  *)
(* status and SMTP acceptances to phases.                                  *)
EXTENDS SendPipeline

PhaseOf(s) ==
  CASE s = "none" -> "absent"
    [] s \in Open -> "pending"
    [] s \in {"sent", "delivered"} -> "out"
    [] s = "bounced" -> "bounced"
    [] s \in {"failed", "cancelled"} -> "dead"

Phase == [m \in Messages |-> PhaseOf(status[m])]

Mailed == {m \in Messages : accepted[m] > 0}

Abstract == INSTANCE Outbox WITH phase <- Phase, mailed <- Mailed

(***************************************************************************)
(* Every step of compose, the worker, the queue, the requests and the      *)
(* background writers is a step of Outbox or leaves it unchanged: no       *)
(* retry, stall, crash or racing request mails a message shown as sent,    *)
(* failed or cancelled, or takes the sent status away without a bounce.    *)
(***************************************************************************)
ImplementsOutbox == Abstract!Spec
=============================================================================
