------------------------------- MODULE HookLog -------------------------------
(***************************************************************************)
(* What the webhooks of one endpoint promise, with no queue, retry or      *)
(* worker in it: a delivery is tried only if the endpoint was on when the  *)
(* attempt began, one answer to an attempt; the log shows as delivered     *)
(* what was answered so, for good; and the endpoint is switched off        *)
(* without an admin only for failures.                                     *)
(***************************************************************************)
EXTENDS Naturals, FiniteSets

CONSTANTS Deliveries, Threshold

VARIABLES
  switch,   \* active, inactive or deleted
  touched,  \* whether an admin has changed the endpoint
  trying,   \* deliveries whose attempt is under way
  acked,    \* deliveries the endpoint answered with success
  shown,    \* deliveries the log shows as delivered
  failed    \* deliveries given up on

vars == <<switch, touched, trying, acked, shown, failed>>

Init ==
  /\ switch = "active"
  /\ touched = FALSE
  /\ trying = {} /\ acked = {} /\ shown = {} /\ failed = {}

Try(d) ==
  /\ switch = "active"
  /\ trying' = trying \cup {d}
  /\ UNCHANGED <<switch, touched, acked, shown, failed>>

Answer(d) ==
  /\ d \in trying
  /\ trying' = trying \ {d}
  /\ acked' \in {acked, acked \cup {d}}
  /\ UNCHANGED <<switch, touched, shown, failed>>

Abandon ==
  /\ trying' \in SUBSET trying
  /\ UNCHANGED <<switch, touched, acked, shown, failed>>

Show(d) ==
  /\ d \in acked
  /\ switch # "deleted"
  /\ shown' = shown \cup {d}
  /\ UNCHANGED <<switch, touched, trying, acked, failed>>

GiveUp(d) ==
  /\ failed' = failed \cup {d}
  /\ UNCHANGED <<switch, touched, trying, acked, shown>>

TurnOff ==
  /\ switch = "active"
  /\ Cardinality(failed) >= Threshold
  /\ switch' = "inactive"
  /\ UNCHANGED <<touched, trying, acked, shown, failed>>

(* The admin; a deleted endpoint stays deleted.                            *)
Change ==
  /\ switch # "deleted"
  /\ switch' \in {"active", "inactive", "deleted"}
  /\ touched' = TRUE
  /\ UNCHANGED <<trying, acked, shown, failed>>

Next ==
  \/ \E d \in Deliveries : Try(d) \/ Answer(d) \/ Show(d) \/ GiveUp(d)
  \/ Abandon \/ TurnOff \/ Change

Spec == Init /\ [][Next]_vars
=============================================================================
